------------------------ MODULE FrostSessionsProofs -------------------------
(***************************************************************************)
(* Proofs about FrostSessions, for every group, clock and number of calls: *)
(* the coordinator's signing sessions (which session a query names, when a *)
(* session is finalized and what it is finalized with), the signer's       *)
(* nonces, and the keys that key generation ends with.                     *)
(***************************************************************************)
EXTENDS FrostSessions, FiniteSetTheorems, TLAPS

-----------------------------------------------------------------------------
(* The signing sessions.                                                   *)

\* What a signature of this session has behind it.
Earned(x) ==
  x.signature # None =>
    /\ x.signature.msg = x.message
    /\ Cardinality({k[1] : k \in x.signature.commitments}) >= Threshold
    /\ \A k \in x.signature.commitments :
         [nonce |-> k, msg |-> x.signature.msg, commitments |-> x.signature.commitments]
           \in shares

\* A session stores shares that were made, each under its signer.
Filed(x) ==
  \A s \in Signers : x.shares[s] # None =>
    x.shares[s] \in shares /\ x.shares[s].nonce[1] = s

\* A suspended tryAggregate has shares of Threshold different signers.
Backed(call) ==
  /\ call.shares \subseteq shares
  /\ Cardinality(call.shares) >= Threshold
  /\ \A x, y \in call.shares : x.nonce[1] = y.nonce[1] => x = y

Sessions ==
  \A i \in Ids : signing[i] # None =>
    i <= started["sign"] /\ Filed(signing[i]) /\ Earned(signing[i])

Names == \A q \in Queries : newest[q] # None => newest[q] <= started["sign"]

\* A call's session is the one it was begun for: an id is never given twice.
Aggregations ==
  \A a \in Aggregators : aggregating[a] # None =>
    /\ Backed(aggregating[a])
    /\ aggregating[a].id <= started["sign"]
    /\ signing[aggregating[a].id] # None =>
         signing[aggregating[a].id].message = aggregating[a].msg

SessionsGood == Sessions /\ Names /\ Aggregations /\ NewestSessionIsNamed

-----------------------------------------------------------------------------
(* The nonces.                                                             *)

\* A nonce that exists was drawn by its signer.
Drawn ==
  /\ \A e \in pending : e.nonce[2] <= drawn[e.nonce[1]]
  /\ \A x \in shares : x.nonce[2] <= drawn[x.nonce[1]]
  /\ \A j \in Slots : signer[j] # None /\ signer[j].at = "sign" =>
       /\ signer[j].nonce \in Nonce
       /\ signer[j].nonce[2] <= drawn[signer[j].nonce[1]]

Using(j, nonce) == signer[j] # None /\ signer[j].at = "sign" /\ signer[j].nonce = nonce

\* A nonce is kept for round 2, or one call is signing with it, or it is in one
\* share.
Apart ==
  /\ \A e \in pending, x \in shares : e.nonce # x.nonce
  /\ \A j \in Slots, e \in pending : ~Using(j, e.nonce)
  /\ \A j \in Slots, x \in shares : ~Using(j, x.nonce)
  /\ \A j, l \in Slots : j # l => ~(signer[j] # None /\ signer[l] # None
       /\ signer[j].at = "sign" /\ signer[l].at = "sign"
       /\ signer[j].nonce = signer[l].nonce)
  /\ SignerNonceUsedOnce

-----------------------------------------------------------------------------
(* Key generation.                                                         *)

\* The attempt whose shares signer t has sent in session i.
Shared(i, t, n) ==
  \E p \in posted : p.id = i /\ p.from = t /\ p.round = 2 /\ p.attempt = n

\* A signer sends the shares of one attempt.
OneAttempt ==
  \A p, r \in posted : p.round = 2 /\ r.round = 2 /\ p.id = r.id /\ p.from = r.from
    => p.attempt = r.attempt

Locals ==
  \A s \in Signers :
    /\ local[s].done = 1 =>
         ~\E p \in posted : p.id = local[s].id /\ p.from = s /\ p.round = 2
    /\ local[s].done >= 2 => Shared(local[s].id, s, local[s].attempt)

\* A key a signer reports is the one of the shares everyone sent.
KeysPosted ==
  \A p \in posted : p.round = 3 =>
    p.key \in Key /\ \A t \in Signers : Shared(p.id, t, p.key[t])

Reported(i, key) == \E p \in posted : p.id = i /\ p.round = 3 /\ p.key = key

Kept(i, x) ==
  /\ \A t \in Signers : x.round2[t] # 0 => Shared(i, t, x.round2[t])
  /\ \A t \in Signers : x.keys[t] # None => Reported(i, x.keys[t]) /\ x.group # None
  /\ x.group # None => Reported(i, x.group)

DkgGood ==
  /\ OneAttempt /\ Locals /\ KeysPosted
  /\ \A i \in Ids : dkg[i] # None => Kept(i, dkg[i])

-----------------------------------------------------------------------------
(* Types.                                                                  *)

Aggregation == [id : Ids, msg : Messages, commitments : SUBSET Nonce, shares : SUBSET Share]
SignerCall == [at : {"verify", "commit", "sign"}, by : Signers, msg : Messages,
               commitments : SUBSET Nonce, nonce : Nonce \union {None}]
Local == [id : Ids \union {None}, attempt : 0..MaxAttempts, done : 0..3]

ClockTypes ==
  /\ scene \in Scenes /\ now \in 0..scene.until
  /\ started \in [{"sign", "dkg"} -> 0..MaxSessions]

SessionTypes ==
  /\ signing \in [Ids -> Session \union {None}]
  /\ querySession \in [Queries -> Ids \union {None}]
  /\ newest \in [Queries -> Ids \union {None}]
  /\ aggregating \in [Aggregators -> {None} \union Aggregation]

SignerTypes ==
  /\ signer \in [Slots -> {None} \union SignerCall]
  /\ drawn \in [Signers -> Nat]
  /\ pending \subseteq [nonce : Nonce, msg : Messages]
  /\ seen \subseteq Signers
  /\ shares \subseteq Share

DkgTypes ==
  /\ dkg \in [Ids -> DkgSession \union {None}]
  /\ local \in [Signers -> Local]
  /\ posted \subseteq Package

LEMMA TypesTogether == TypeOK <=> ClockTypes /\ SessionTypes /\ SignerTypes /\ DkgTypes
<1>1. TypeOK => ClockTypes /\ SessionTypes /\ SignerTypes /\ DkgTypes
  BY Zenon DEF TypeOK, ClockTypes, SessionTypes, SignerTypes, DkgTypes, Aggregation, SignerCall, Local
<1>2. ClockTypes /\ SessionTypes /\ SignerTypes /\ DkgTypes => TypeOK
  BY Zenon DEF TypeOK, ClockTypes, SessionTypes, SignerTypes, DkgTypes, Aggregation, SignerCall, Local
<1> QED BY <1>1, <1>2, Zenon

LEMMA TypesTogetherNext ==
  (ClockTypes /\ SessionTypes /\ SignerTypes /\ DkgTypes)' => TypeOK'
  BY Zenon DEF TypeOK, ClockTypes, SessionTypes, SignerTypes, DkgTypes, Aggregation, SignerCall, Local

LEMMA InitTyped == Init => TypeOK
<1> SUFFICES ASSUME Init PROVE TypeOK
  BY Zenon
<1>1. ClockTypes
  BY SessionsAssumption DEF Init, ClockTypes, Scene
<1>2. SessionTypes
  BY Zenon DEF Init, SessionTypes
<1>3. SignerTypes
  BY Zenon DEF Init, SignerTypes
<1>4. DkgTypes
  BY SessionsAssumption DEF Init, DkgTypes, Local
<1> QED BY <1>1, <1>2, <1>3, <1>4, TypesTogether, Zenon

LEMMA SceneTyped ==
  ASSUME ClockTypes
  PROVE  /\ scene.queries \subseteq Queries /\ scene.messages \subseteq Messages
         /\ scene.sessions \in 0..MaxSessions /\ scene.until \in Nat /\ now \in Nat
         /\ started["sign"] \in Nat /\ started["dkg"] \in Nat
<1>1. scene \in Scene
  BY SessionsAssumption, Zenon DEF ClockTypes
<1>2. /\ scene.queries \subseteq Queries /\ scene.messages \subseteq Messages
      /\ scene.sessions \in 0..MaxSessions /\ scene.until \in Nat
  BY <1>1, Zenon DEF Scene
<1> QED BY <1>2, SessionsAssumption DEF ClockTypes

LEMMA ClockUnchanged ==
  ASSUME ClockTypes, UNCHANGED <<scene, now, started>> PROVE ClockTypes'
  BY Zenon DEF ClockTypes

LEMMA SessionsUnchanged == ASSUME SessionTypes, UNCHANGED sessionVars PROVE SessionTypes'
  BY Zenon DEF SessionTypes, sessionVars

LEMMA SignersUnchanged == ASSUME SignerTypes, UNCHANGED signerVars PROVE SignerTypes'
  BY Zenon DEF SignerTypes, signerVars

LEMMA DkgUnchanged == ASSUME DkgTypes, UNCHANGED dkgVars PROVE DkgTypes'
  BY Zenon DEF DkgTypes, dkgVars

LEMMA KeptTyped ==
  ASSUME SessionTypes, DkgTypes
  PROVE  /\ KeptSessions \in [Ids -> Session \union {None}]
         /\ KeptQueries \in [Queries -> Ids \union {None}]
         /\ KeptDkg \in [Ids -> DkgSession \union {None}]
<1>1. KeptSessions \in [Ids -> Session \union {None}]
  BY Zenon DEF KeptSessions, SessionTypes
<1>2. KeptQueries \in [Queries -> Ids \union {None}]
  BY Zenon DEF KeptQueries, SessionTypes
<1>3. KeptDkg \in [Ids -> DkgSession \union {None}]
  BY Zenon DEF KeptDkg, DkgTypes
<1> QED BY <1>1, <1>2, <1>3, Zenon

LEMMA PostSignTyped ==
  ASSUME TypeOK, NEW q \in scene.queries, NEW m \in scene.messages, PostSign(q, m)
  PROVE  TypeOK'
<1>1. ClockTypes /\ SessionTypes /\ SignerTypes /\ DkgTypes
  BY TypesTogether, Zenon
<1>2. q \in Queries /\ m \in Messages /\ scene.sessions \in 0..MaxSessions /\ now \in Nat
      /\ started["sign"] \in Nat
  BY <1>1, SceneTyped, Zenon
<1>3. PICK id : id = started["sign"] + 1
  BY Zenon
<1>4. /\ id <= scene.sessions /\ started' = [started EXCEPT !["sign"] = id]
      /\ StartSigning(id, q, m) /\ newest' = [newest EXCEPT ![q] = id]
      /\ UNCHANGED <<scene, now, aggregating, signerVars, local, posted>>
  BY <1>3, Zenon DEF PostSign
<1>5. id \in Ids
  BY <1>2, <1>3, <1>4, SessionsAssumption DEF Ids
<1>6. ClockTypes'
  <2>1. id \in 0..MaxSessions
    BY <1>5, SessionsAssumption DEF Ids
  <2> QED BY <1>1, <1>4, <2>1, Zenon DEF ClockTypes
<1>7. SessionTypes'
  <2> DEFINE x == [query |-> q, message |-> m, commitments |-> [s \in Signers |-> None],
        shares |-> [s \in Signers |-> None], signature |-> None, created |-> now]
  <2>1. x \in Session
    BY <1>2, Zenon DEF Session
  <2>2. signing' = [KeptSessions EXCEPT ![id] = x] /\ querySession' = [KeptQueries EXCEPT ![q] = id]
    BY <1>4, Zenon DEF StartSigning
  <2> HIDE DEF x
  <2>3. signing' \in [Ids -> Session \union {None}]
    BY <1>1, <2>1, <2>2, KeptTyped, Zenon
  <2>4. querySession' \in [Queries -> Ids \union {None}]
    BY <1>1, <1>5, <2>2, KeptTyped, Zenon
  <2>5. newest' \in [Queries -> Ids \union {None}]
    BY <1>1, <1>4, <1>5, Zenon DEF SessionTypes
  <2> QED BY <1>1, <1>4, <2>3, <2>4, <2>5, Zenon DEF SessionTypes
<1>8. DkgTypes'
  BY <1>1, <1>4, KeptTyped, Zenon DEF DkgTypes, StartSigning
<1>9. SignerTypes'
  BY <1>1, <1>4, SignersUnchanged, Zenon
<1> QED BY <1>6, <1>7, <1>8, <1>9, TypesTogetherNext, Zenon

\* What a call of submitNonceCommitment, submitSignatureShare or tryAggregate
\* writes is a session.
LEMMA CommitmentTyped ==
  ASSUME TypeOK, NEW i \in Ids, NEW s \in Signers, NEW k \in Nat, SubmitNonceCommitment(i, <<s, k>>)
  PROVE  \E x \in Session : /\ signing' = [signing EXCEPT ![i] = x]
                            /\ x = [signing[i] EXCEPT !.commitments[s] = <<s, k>>]
<1> DEFINE x == [signing[i] EXCEPT !.commitments[s] = <<s, k>>]
<1>1. signing[i] \in Session /\ signing' = [signing EXCEPT ![i].commitments[s] = <<s, k>>]
  BY Zenon DEF TypeOK, SubmitNonceCommitment, Open
<1>2. <<s, k>> \in Nonce
  BY Zenon DEF Nonce
<1>3. x \in Session
  BY <1>1, <1>2, Zenon DEF Session
<1> QED BY <1>1, <1>3, Zenon

LEMMA ShareTyped ==
  ASSUME TypeOK, NEW i \in Ids, NEW y \in Share, SubmitSignatureShare(i, y)
  PROVE  \E x \in Session : /\ signing' = [signing EXCEPT ![i] = x]
                            /\ x = [signing[i] EXCEPT !.shares[y.nonce[1]] = y]
<1> DEFINE x == [signing[i] EXCEPT !.shares[y.nonce[1]] = y]
<1>1. signing[i] \in Session /\ signing' = [signing EXCEPT ![i].shares[y.nonce[1]] = y]
  BY Zenon DEF TypeOK, SubmitSignatureShare, Open
<1>2. y.nonce[1] \in Signers
  BY Zenon DEF Share, Nonce
<1>3. x \in Session
  BY <1>1, <1>2, Zenon DEF Session
<1> QED BY <1>1, <1>3, Zenon

LEMMA PresentTyped ==
  ASSUME NEW S, NEW f \in [Signers -> S \union {None}] PROVE Present(f) \in SUBSET S
  BY Zenon DEF Present, Range

LEMMA WriteTyped ==
  ASSUME TypeOK, NEW i \in Ids, NEW x \in Session, signing' = [signing EXCEPT ![i] = x],
         UNCHANGED <<scene, now, started, querySession, newest, signerVars, dkgVars>>,
         aggregating' \in [Aggregators -> {None} \union Aggregation]
  PROVE  TypeOK'
<1>1. ClockTypes /\ SessionTypes /\ SignerTypes /\ DkgTypes
  BY TypesTogether, Zenon
<1>2. ClockTypes' /\ SignerTypes' /\ DkgTypes'
  BY <1>1, ClockUnchanged, SignersUnchanged, DkgUnchanged, Zenon
<1>3. SessionTypes'
  BY <1>1, Zenon DEF SessionTypes
<1> QED BY <1>2, <1>3, TypesTogetherNext, Zenon

LEMMA PostCommitmentTyped ==
  ASSUME TypeOK, NEW i \in Ids, NEW s \in Signers, NEW k \in 1..drawn[s], PostCommitment(i, <<s, k>>)
  PROVE  TypeOK'
<1>1. k \in Nat
  BY DEF TypeOK
<1>2. SubmitNonceCommitment(i, <<s, k>>) /\ UNCHANGED aggregating
      /\ UNCHANGED <<scene, now, started, querySession, newest, signerVars, dkgVars>>
  BY Zenon DEF PostCommitment
<1>3. PICK x \in Session : signing' = [signing EXCEPT ![i] = x]
  BY <1>1, <1>2, CommitmentTyped, Zenon
<1>4. aggregating' \in [Aggregators -> {None} \union Aggregation]
  BY <1>2, Zenon DEF TypeOK, Aggregation
<1> QED BY <1>2, <1>3, <1>4, WriteTyped, Zenon

LEMMA PostShareTyped ==
  ASSUME TypeOK, NEW i \in Ids, NEW y \in shares, PostShare(i, y)
  PROVE  TypeOK'
<1>1. y \in Share
  BY Zenon DEF TypeOK
<1>2. SubmitSignatureShare(i, y) /\ UNCHANGED aggregating
      /\ UNCHANGED <<scene, now, started, querySession, newest, signerVars, dkgVars>>
  BY Zenon DEF PostShare
<1>3. PICK x \in Session : signing' = [signing EXCEPT ![i] = x]
  BY <1>1, <1>2, ShareTyped, Zenon
<1>4. aggregating' \in [Aggregators -> {None} \union Aggregation]
  BY <1>2, Zenon DEF TypeOK, Aggregation
<1> QED BY <1>2, <1>3, <1>4, WriteTyped, Zenon

LEMMA TryAggregateTyped ==
  ASSUME TypeOK, NEW a \in Aggregators, NEW i \in Ids, TryAggregate(a, i)
  PROVE  TypeOK'
<1> DEFINE c == [id |-> i, msg |-> signing[i].message,
                 commitments |-> Present(signing[i].commitments), shares |-> Present(signing[i].shares)]
<1>1. signing[i] \in Session /\ aggregating' = [aggregating EXCEPT ![a] = c]
      /\ UNCHANGED signing
      /\ UNCHANGED <<scene, now, started, querySession, newest, signerVars, dkgVars>>
  BY Zenon DEF TryAggregate, Open, TypeOK
<1>2. /\ signing[i].message \in Messages
      /\ signing[i].commitments \in [Signers -> Nonce \union {None}]
      /\ signing[i].shares \in [Signers -> Share \union {None}]
  BY <1>1, Zenon DEF Session
<1>3. Present(signing[i].commitments) \in SUBSET Nonce /\ Present(signing[i].shares) \in SUBSET Share
  BY <1>2, PresentTyped, Zenon
<1>4. c \in Aggregation
  BY <1>2, <1>3, Zenon DEF Aggregation
<1> HIDE DEF c
<1>5. aggregating' \in [Aggregators -> {None} \union Aggregation]
  BY <1>1, <1>4, Zenon DEF TypeOK, Aggregation
<1>6. signing' = [signing EXCEPT ![i] = signing[i]]
  BY <1>1, Zenon DEF TypeOK
<1> QED BY <1>1, <1>5, <1>6, WriteTyped, Zenon

\* What tryAggregate does to its session when the process has answered.
LEMMA AggregatedWrites ==
  ASSUME TypeOK, NEW a \in Aggregators, Aggregated(a)
  PROVE  /\ aggregating[a] \in Aggregation
         /\ \/ UNCHANGED signing
            \/ /\ CanAggregate(aggregating[a])
               /\ signing[aggregating[a].id] # None
               /\ \E x \in Session :
                    /\ signing' = [signing EXCEPT ![aggregating[a].id] = x]
                    /\ x = [signing[aggregating[a].id] EXCEPT !.signature =
                         [msg |-> aggregating[a].msg, commitments |-> aggregating[a].commitments]]
<1>1. PICK c : c = aggregating[a]
  BY Zenon
<1>2. c \in Aggregation
  BY <1>1, Zenon DEF Aggregated, TypeOK, Aggregation
<1> DEFINE sig == [msg |-> c.msg, commitments |-> c.commitments]
<1>3. \/ UNCHANGED signing
      \/ /\ CanAggregate(c) /\ signing[c.id] # None
         /\ signing' = [signing EXCEPT ![c.id].signature = sig]
  BY <1>1, Zenon DEF Aggregated, runFrostCommand
<1>4. sig \in Signature /\ c.id \in Ids
  BY <1>2, Zenon DEF Aggregation, Signature
<1> HIDE DEF sig
<1>5. CASE signing[c.id] # None
  <2>1. signing[c.id] \in Session
    BY <1>4, <1>5, Zenon DEF TypeOK
  <2> DEFINE x == [signing[c.id] EXCEPT !.signature = sig]
  <2>2. x \in Session
    BY <1>4, <2>1, Zenon DEF Session
  <2> QED BY <1>1, <1>2, <1>3, <2>2, Zenon DEF sig
<1> QED BY <1>1, <1>2, <1>3, <1>5, Zenon

LEMMA AggregatedTyped ==
  ASSUME TypeOK, NEW a \in Aggregators, Aggregated(a)
  PROVE  TypeOK'
<1>1. aggregating' = [aggregating EXCEPT ![a] = None] /\ aggregating[a] \in Aggregation
      /\ UNCHANGED <<scene, now, started, querySession, newest, signerVars, dkgVars>>
  BY AggregatedWrites, Zenon DEF Aggregated
<1>2. aggregating' \in [Aggregators -> {None} \union Aggregation]
  BY <1>1, Zenon DEF TypeOK, Aggregation
<1>3. PICK i \in Ids : i = aggregating[a].id
  BY <1>1, Zenon DEF Aggregation
<1>4. CASE UNCHANGED signing
  <2>1. ClockTypes /\ SessionTypes /\ SignerTypes /\ DkgTypes
    BY TypesTogether, Zenon
  <2>2. ClockTypes' /\ SignerTypes' /\ DkgTypes'
    BY <1>1, <2>1, ClockUnchanged, SignersUnchanged, DkgUnchanged, Zenon
  <2>3. SessionTypes'
    BY <1>1, <1>2, <1>4, <2>1, Zenon DEF SessionTypes
  <2> QED BY <2>2, <2>3, TypesTogetherNext, Zenon
<1>5. CASE \E x \in Session : signing' = [signing EXCEPT ![i] = x]
  <2>1. PICK x \in Session : signing' = [signing EXCEPT ![i] = x]
    BY <1>5, Zenon
  <2> QED BY <1>1, <1>2, <2>1, WriteTyped, Zenon
<1> QED BY <1>3, <1>4, <1>5, AggregatedWrites, Zenon

LEMMA KnownTyped ==
  ASSUME TypeOK, NEW K \in KnownCommitments PROVE K \in SUBSET Nonce
<1>1. PICK i \in Ids : signing[i] # None /\ K = Present(signing[i].commitments)
  BY Zenon DEF KnownCommitments
<1>2. signing[i] \in Session
  BY <1>1, Zenon DEF TypeOK
<1>3. signing[i].commitments \in [Signers -> Nonce \union {None}]
  BY <1>2, Zenon DEF Session
<1> QED BY <1>1, <1>3, PresentTyped, Zenon

LEMMA SignerTyped ==
  ASSUME TypeOK, UNCHANGED <<scene, now, started, sessionVars, dkgVars>>, SignerTypes'
  PROVE  TypeOK'
<1>1. ClockTypes /\ SessionTypes /\ SignerTypes /\ DkgTypes
  BY TypesTogether, Zenon
<1>2. ClockTypes' /\ SessionTypes' /\ DkgTypes'
  BY <1>1, ClockUnchanged, SessionsUnchanged, DkgUnchanged, Zenon
<1> QED BY <1>2, TypesTogetherNext, Zenon

LEMMA VerifyAndSignTyped ==
  ASSUME TypeOK, NEW j \in Slots, NEW s \in Signers, NEW m \in Messages,
         NEW K \in SUBSET Nonce, NEW n \in Nonce \union {None}, VerifyAndSign(j, s, m, K, n)
  PROVE  TypeOK'
<1> DEFINE x == [at |-> "verify", by |-> s, msg |-> m, commitments |-> K, nonce |-> n]
<1>1. x \in SignerCall
  BY Zenon DEF SignerCall
<1>2. signer' = [signer EXCEPT ![j] = x] /\ UNCHANGED <<drawn, pending, seen, shares>>
      /\ UNCHANGED <<scene, now, started, sessionVars, dkgVars>>
  BY Zenon DEF VerifyAndSign
<1> HIDE DEF x
<1>3. SignerTypes'
  BY <1>1, <1>2, Zenon DEF TypeOK, SignerTypes, SignerCall
<1> QED BY <1>2, <1>3, SignerTyped, Zenon

\* A suspended verifyAndSign goes on as a call or ends.
LEMMA MovesOn ==
  ASSUME TypeOK, NEW j \in Slots, signer[j] # None, NEW at \in {"verify", "commit", "sign"}
  PROVE  /\ [signer EXCEPT ![j].at = at] \in [Slots -> {None} \union SignerCall]
         /\ [signer EXCEPT ![j] = None] \in [Slots -> {None} \union SignerCall]
<1>1. signer \in [Slots -> {None} \union SignerCall]
  BY Zenon DEF TypeOK, SignerCall
<1>2. signer[j] \in SignerCall
  BY <1>1, Zenon
<1>3. [signer[j] EXCEPT !.at = at] \in SignerCall
  BY <1>2, Zenon DEF SignerCall
<1>4. PICK x \in SignerCall : x = [signer[j] EXCEPT !.at = at]
  BY <1>3, Zenon
<1>5. [signer EXCEPT ![j].at = at] = [signer EXCEPT ![j] = x]
  BY <1>4, Zenon
<1>6. [signer EXCEPT ![j] = x] \in [Slots -> {None} \union SignerCall]
  BY <1>1, Zenon
<1> QED BY <1>1, <1>5, <1>6, Zenon

LEMMA VerifiedTyped ==
  ASSUME TypeOK, NEW j \in Slots, Verified(j) PROVE TypeOK'
<1>1. signer[j] # None /\ signer[j] \in SignerCall /\ UNCHANGED <<drawn, shares>>
      /\ UNCHANGED <<scene, now, started, sessionVars, dkgVars>>
  BY Zenon DEF Verified, TypeOK, SignerCall
<1>2. signer' \in {[signer EXCEPT ![j].at = "commit"], [signer EXCEPT ![j].at = "sign"],
                   [signer EXCEPT ![j] = None]}
  BY Zenon DEF Verified, Ended
<1>3. signer' \in [Slots -> {None} \union SignerCall]
  BY <1>1, <1>2, MovesOn, Zenon
<1>4. signer[j].by \in Signers
  BY <1>1, Zenon DEF SignerCall
<1>5. pending' \subseteq pending /\ seen' \subseteq seen \union {signer[j].by}
  BY Zenon DEF Verified
<1>6. SignerTypes'
  BY <1>1, <1>3, <1>4, <1>5, Zenon DEF TypeOK, SignerTypes
<1> QED BY <1>1, <1>6, SignerTyped, Zenon

LEMMA CommittedTyped ==
  ASSUME TypeOK, NEW j \in Slots, Committed(j) PROVE TypeOK'
<1>1. signer[j] # None /\ signer[j] \in SignerCall /\ UNCHANGED <<seen, shares>>
      /\ signer' = [signer EXCEPT ![j] = None]
      /\ UNCHANGED <<scene, now, started, sessionVars, dkgVars>>
  BY Zenon DEF Committed, Ended, TypeOK, SignerCall
<1>2. signer' \in [Slots -> {None} \union SignerCall]
  BY <1>1, Zenon DEF TypeOK, SignerCall
<1>3. PICK s \in Signers, m \in Messages : s = signer[j].by /\ m = signer[j].msg
  BY <1>1, Zenon DEF SignerCall
<1>4. drawn[s] + 1 \in Nat
  BY <1>3 DEF TypeOK
<1>5. [nonce |-> <<s, drawn[s] + 1>>, msg |-> m] \in [nonce : Nonce, msg : Messages]
  BY <1>3, <1>4, Zenon DEF Nonce
<1>6. \/ UNCHANGED <<drawn, pending>>
      \/ /\ drawn' = [drawn EXCEPT ![s] = drawn[s] + 1]
         /\ pending' = pending \union {[nonce |-> <<s, drawn[s] + 1>>, msg |-> m]}
  BY <1>3, Zenon DEF Committed
<1>7. drawn' \in [Signers -> Nat]
  BY <1>3, <1>4, <1>6, Zenon DEF TypeOK
<1>8. pending' \subseteq [nonce : Nonce, msg : Messages]
  BY <1>5, <1>6, Zenon DEF TypeOK
<1>9. SignerTypes'
  BY <1>1, <1>2, <1>7, <1>8, Zenon DEF TypeOK, SignerTypes
<1> QED BY <1>1, <1>9, SignerTyped, Zenon

\* What signRound2 adds to the shares.
LEMMA SignedWrites ==
  ASSUME TypeOK, NEW j \in Slots, Signed(j)
  PROVE  /\ signer[j] \in SignerCall
         /\ \/ UNCHANGED shares
            \/ \E y \in Share :
                 /\ y = [nonce |-> signer[j].nonce, msg |-> signer[j].msg,
                         commitments |-> signer[j].commitments]
                 /\ shares' = shares \union {y}
<1>1. signer[j] \in SignerCall
  BY Zenon DEF Signed, TypeOK, SignerCall
<1>2. PICK c : c = signer[j]
  BY Zenon
<1> DEFINE y == [nonce |-> c.nonce, msg |-> c.msg, commitments |-> c.commitments]
<1>3. UNCHANGED shares \/ (CanSign(c.nonce, c.commitments) /\ shares' = shares \union {y})
  BY <1>2, Zenon DEF Signed, runFrostCommand
<1>4. CanSign(c.nonce, c.commitments) => y \in Share
  BY <1>1, <1>2, Zenon DEF SignerCall, Share, CanSign
<1> HIDE DEF y
<1>5. CASE UNCHANGED shares
  BY <1>1, <1>5, Zenon
<1>6. CASE CanSign(c.nonce, c.commitments) /\ shares' = shares \union {y}
  BY <1>1, <1>2, <1>4, <1>6, Zenon DEF y
<1> QED BY <1>3, <1>5, <1>6, Zenon

LEMMA SignedTyped ==
  ASSUME TypeOK, NEW j \in Slots, Signed(j) PROVE TypeOK'
<1>1. UNCHANGED <<drawn, pending, seen>> /\ signer' = [signer EXCEPT ![j] = None]
      /\ UNCHANGED <<scene, now, started, sessionVars, dkgVars>>
  BY Zenon DEF Signed, Ended
<1>2. signer' \in [Slots -> {None} \union SignerCall]
  BY <1>1, Zenon DEF TypeOK, SignerCall
<1>3. shares' \subseteq Share
  BY SignedWrites, Zenon DEF TypeOK
<1>4. SignerTypes'
  BY <1>1, <1>2, <1>3, Zenon DEF TypeOK, SignerTypes
<1> QED BY <1>1, <1>4, SignerTyped, Zenon

LEMMA DkgTyped ==
  ASSUME TypeOK, UNCHANGED <<scene, now, started, sessionVars, signerVars>>, DkgTypes'
  PROVE  TypeOK'
<1>1. ClockTypes /\ SessionTypes /\ SignerTypes /\ DkgTypes
  BY TypesTogether, Zenon
<1>2. ClockTypes' /\ SessionTypes' /\ SignerTypes'
  BY <1>1, ClockUnchanged, SessionsUnchanged, SignersUnchanged, Zenon
<1> QED BY <1>2, TypesTogetherNext, Zenon

LEMMA PostDkgInitTyped == ASSUME TypeOK, PostDkgInit PROVE TypeOK'
<1>1. ClockTypes /\ SessionTypes /\ SignerTypes /\ DkgTypes
  BY TypesTogether, Zenon
<1>2. scene.sessions \in 0..MaxSessions /\ now \in Nat /\ started["dkg"] \in Nat
  BY <1>1, SceneTyped, Zenon
<1>3. PICK id : id = started["dkg"] + 1
  BY Zenon
<1>4. /\ id <= scene.sessions /\ started' = [started EXCEPT !["dkg"] = id] /\ InitDkg(id)
      /\ UNCHANGED <<scene, now, newest, aggregating, signerVars, local, posted>>
  BY <1>3, Zenon DEF PostDkgInit
<1>5. id \in Ids /\ id \in 0..MaxSessions
  BY <1>2, <1>3, <1>4, SessionsAssumption DEF Ids
<1>6. ClockTypes'
  BY <1>1, <1>4, <1>5, Zenon DEF ClockTypes
<1>7. SessionTypes'
  BY <1>1, <1>4, KeptTyped, Zenon DEF SessionTypes, InitDkg
<1>8. DkgTypes'
  <2> DEFINE x == [round |-> 0, round1 |-> [s \in Signers |-> 0], round2 |-> [s \in Signers |-> 0],
        keys |-> [s \in Signers |-> None], group |-> None, created |-> now]
  <2>1. x \in DkgSession
    BY <1>2 DEF DkgSession
  <2>2. dkg' = [KeptDkg EXCEPT ![id] = x]
    BY <1>4, Zenon DEF InitDkg
  <2> HIDE DEF x
  <2>3. dkg' \in [Ids -> DkgSession \union {None}]
    BY <1>1, <2>1, <2>2, KeptTyped, Zenon
  <2> QED BY <1>1, <1>4, <2>3, Zenon DEF DkgTypes
<1>9. SignerTypes'
  BY <1>1, <1>4, SignersUnchanged, Zenon
<1> QED BY <1>6, <1>7, <1>8, <1>9, TypesTogetherNext, Zenon

\* What a signer's round posts is a package.
LEMMA PostTyped ==
  ASSUME TypeOK, NEW i \in Ids, NEW r \in 1..3, NEW s \in Signers, NEW n \in Nat,
         NEW key \in Key \union {None}, Post(i, r, s, n, key)
  PROVE  posted' \subseteq Package
<1> DEFINE p == [id |-> i, round |-> r, from |-> s, attempt |-> n, key |-> key]
<1>1. p \in Package
  BY Zenon DEF Package
<1>2. posted' = posted \union {p}
  BY Zenon DEF Post
<1> HIDE DEF p
<1> QED BY <1>1, <1>2, Zenon DEF TypeOK

LEMMA LocalTyped ==
  ASSUME TypeOK, NEW s \in Signers
  PROVE  /\ local[s] \in Local /\ local[s].attempt \in Nat
         /\ local[s].attempt \in 0..MaxAttempts /\ local[s].done \in 0..3
         /\ local[s].id \in Ids \union {None}
<1>1. local[s] \in Local
  BY Zenon DEF TypeOK, Local
<1>2. local[s].attempt \in 0..MaxAttempts /\ local[s].done \in 0..3 /\ local[s].id \in Ids \union {None}
  BY <1>1, Zenon DEF Local
<1> QED BY <1>1, <1>2, SessionsAssumption

LEMMA DkgRound1Typed ==
  ASSUME TypeOK, NEW s \in Signers, NEW i \in Ids, DkgRound1(s, i) PROVE TypeOK'
<1>1. local[s].attempt < MaxAttempts /\ local[s].attempt \in 0..MaxAttempts
  BY LocalTyped, Zenon DEF DkgRound1
<1>2. PICK n : n = local[s].attempt + 1
  BY Zenon
<1>3. n \in 0..MaxAttempts /\ n \in Nat
  BY <1>1, <1>2, SessionsAssumption
<1> DEFINE x == [id |-> i, attempt |-> n, done |-> 1]
<1>4. x \in Local
  BY <1>3 DEF Local
<1>5. local' = [local EXCEPT ![s] = x] /\ Post(i, 1, s, n, None)
      /\ UNCHANGED <<scene, now, started, sessionVars, signerVars>> /\ UNCHANGED dkg
  BY <1>2, Zenon DEF DkgRound1, FreshSecret
<1> HIDE DEF x
<1>6. posted' \subseteq Package
  <2>1. 1 \in 1..3
    OBVIOUS
  <2> QED BY <1>3, <1>5, <2>1, PostTyped, Zenon
<1>7. local' \in [Signers -> Local]
  BY <1>4, <1>5, Zenon DEF TypeOK, Local
<1>8. DkgTypes'
  BY <1>5, <1>6, <1>7, Zenon DEF DkgTypes, TypeOK
<1> QED BY <1>5, <1>8, DkgTyped, Zenon

\* A round on what the signer holds: the session's id is one, as it has a session.
LEMMA RoundTyped ==
  ASSUME TypeOK, NEW s \in Signers, NEW r \in {2, 3}, local' = [local EXCEPT ![s].done = r],
         NEW key \in Key \union {None}, local[s].id \in Ids,
         Post(local[s].id, r, s, local[s].attempt, key),
         UNCHANGED <<scene, now, started, sessionVars, signerVars, dkg>>
  PROVE  TypeOK'
<1>1. local[s] \in Local /\ local[s].attempt \in Nat /\ r \in 1..3 /\ r \in 0..3
  BY LocalTyped
<1>2. PICK x \in Local : x = [local[s] EXCEPT !.done = r]
  BY <1>1, Zenon DEF Local
<1>3. local' \in [Signers -> Local]
  BY <1>2, Zenon DEF TypeOK, Local
<1>4. posted' \subseteq Package
  BY <1>1, PostTyped, Zenon
<1>5. DkgTypes'
  BY <1>3, <1>4, Zenon DEF DkgTypes, TypeOK
<1> QED BY <1>5, DkgTyped, Zenon

\* A signer that has begun is in a session.
Begun == \A s \in Signers : local[s].done # 0 => local[s].id \in Ids

LEMMA DkgRound2Typed ==
  ASSUME TypeOK, Begun, NEW s \in Signers, DkgRound2(s) PROVE TypeOK'
<1>1. local[s].done = 1 /\ local' = [local EXCEPT ![s].done = 2]
      /\ Post(local[s].id, 2, s, local[s].attempt, None)
      /\ UNCHANGED <<scene, now, started, sessionVars, signerVars, dkg>>
  BY Zenon DEF DkgRound2
<1>2. local[s].id \in Ids
  BY <1>1 DEF Begun
<1>3. 2 \in {2, 3} /\ None \in Key \union {None}
  BY Zenon
<1> QED BY <1>1, <1>2, <1>3, RoundTyped, Zenon

LEMMA KeyTyped ==
  ASSUME TypeOK, NEW s \in Signers, NEW x \in DkgSession PROVE GroupKey(x, s) \in Key
<1>1. local[s].attempt \in Nat
  BY LocalTyped, Zenon
<1>2. \A t \in Signers : x.round1[t] \in Nat
  BY Zenon DEF DkgSession
<1> QED BY <1>1, <1>2, Zenon DEF GroupKey, Key

LEMMA DkgRound3Typed ==
  ASSUME TypeOK, Begun, NEW s \in Signers, DkgRound3(s) PROVE TypeOK'
<1>1. local[s].done = 2 /\ local' = [local EXCEPT ![s].done = 3] /\ dkg[local[s].id] # None
      /\ Post(local[s].id, 3, s, local[s].attempt, GroupKey(dkg[local[s].id], s))
      /\ UNCHANGED <<scene, now, started, sessionVars, signerVars, dkg>>
  BY Zenon DEF DkgRound3
<1>2. local[s].id \in Ids
  BY <1>1 DEF Begun
<1>3. dkg[local[s].id] \in DkgSession
  BY <1>1, <1>2, Zenon DEF TypeOK
<1>4. PICK key \in Key \union {None} : key = GroupKey(dkg[local[s].id], s)
  BY <1>3, KeyTyped, Zenon
<1>5. 3 \in {2, 3}
  BY Zenon
<1> QED BY <1>1, <1>2, <1>4, <1>5, RoundTyped, Zenon

\* submitDkgPackage: what each round's package does to a session.
Taken(x, p) ==
  CASE p.round = 1 -> [x EXCEPT !.round1[p.from] = p.attempt]
    [] p.round = 2 -> [x EXCEPT !.round2[p.from] = p.attempt]
    [] p.round = 3 -> [x EXCEPT !.keys[p.from] = p.key, !.group = IF @ = None THEN p.key ELSE @]

LEMMA TakenTyped ==
  ASSUME NEW x \in DkgSession, NEW p \in Package
  PROVE  Taken(x, p) \in DkgSession
<1>1. p.from \in Signers /\ p.attempt \in Nat /\ p.round \in 1..3 /\ p.key \in Key \union {None}
  BY Zenon DEF Package
<1>2. CASE p.round = 1
  <2>1. Taken(x, p) = [x EXCEPT !.round1[p.from] = p.attempt]
    BY <1>2 DEF Taken
  <2> QED BY <1>1, <2>1 DEF DkgSession
<1>3. CASE p.round = 2
  <2>1. Taken(x, p) = [x EXCEPT !.round2[p.from] = p.attempt]
    BY <1>3 DEF Taken
  <2> QED BY <1>1, <2>1 DEF DkgSession
<1>4. CASE p.round = 3
  <2>1. Taken(x, p) = [x EXCEPT !.keys[p.from] = p.key, !.group = IF @ = None THEN p.key ELSE @]
    BY <1>4 DEF Taken
  <2>2. PICK g \in Key \union {None} : g = IF x.group = None THEN p.key ELSE x.group
    BY <1>1, Zenon DEF DkgSession
  <2>3. PICK k \in [Signers -> Key \union {None}] : k = [x.keys EXCEPT ![p.from] = p.key]
    BY <1>1, Zenon DEF DkgSession
  <2>4. Taken(x, p) = [x EXCEPT !.keys = k, !.group = g]
    BY <2>1, <2>2, <2>3, Zenon
  <2> QED BY <2>4, Zenon DEF DkgSession
<1> QED BY <1>1, <1>2, <1>3, <1>4

LEMMA AcceptIs ==
  ASSUME NEW x \in DkgSession, NEW p \in Package
  PROVE  \/ Accept(x, p) = Taken(x, p)
         \/ Accept(x, p) = [Taken(x, p) EXCEPT !.round = p.round]
  BY Zenon DEF Accept, Taken

LEMMA AcceptTyped ==
  ASSUME NEW x \in DkgSession, NEW p \in Package
  PROVE  /\ Accept(x, p) \in DkgSession
         /\ Accept(x, p).round1 = Taken(x, p).round1 /\ Accept(x, p).round2 = Taken(x, p).round2
         /\ Accept(x, p).keys = Taken(x, p).keys /\ Accept(x, p).group = Taken(x, p).group
<1>1. PICK y \in DkgSession : y = Taken(x, p)
  BY TakenTyped, Zenon
<1>2. p.round \in 0..3
  BY DEF Package
<1>3. Accept(x, p) = y \/ Accept(x, p) = [y EXCEPT !.round = p.round]
  BY <1>1, AcceptIs, Zenon
<1>4. Accept(x, p) \in DkgSession
  BY <1>2, <1>3, Zenon DEF DkgSession
<1>5. /\ Accept(x, p).round1 = y.round1 /\ Accept(x, p).round2 = y.round2
      /\ Accept(x, p).keys = y.keys /\ Accept(x, p).group = y.group
  BY <1>3, Zenon DEF DkgSession
<1> QED BY <1>1, <1>4, <1>5, Zenon

LEMMA SubmitTyped ==
  ASSUME TypeOK, NEW p \in posted, SubmitDkgPackage(p)
  PROVE  /\ TypeOK'
         /\ p \in Package /\ p.id \in Ids /\ dkg[p.id] \in DkgSession
         /\ dkg' = [dkg EXCEPT ![p.id] = Accept(dkg[p.id], p)]
<1>1. p \in Package /\ dkg[p.id] # None
      /\ UNCHANGED <<scene, now, started, sessionVars, signerVars>>
      /\ UNCHANGED <<local, posted>>
  BY Zenon DEF SubmitDkgPackage, TypeOK
<1>2. p.id \in Ids
  BY <1>1, Zenon DEF Package
<1>3. dkg[p.id] \in DkgSession
  BY <1>1, <1>2, Zenon DEF TypeOK
<1>4. Accept(dkg[p.id], p) \in DkgSession
  BY <1>1, <1>3, AcceptTyped, Zenon
<1>5. dkg' = [dkg EXCEPT ![p.id] = Accept(dkg[p.id], p)]
  BY Zenon DEF SubmitDkgPackage
<1>6. dkg' \in [Ids -> DkgSession \union {None}]
  BY <1>4, <1>5, Zenon DEF TypeOK
<1>7. DkgTypes'
  BY <1>1, <1>6, Zenon DEF TypeOK, DkgTypes, Local
<1> QED BY <1>1, <1>2, <1>3, <1>5, <1>7, DkgTyped, Zenon

LEMMA TickTyped == ASSUME TypeOK, Tick PROVE TypeOK'
<1>1. ClockTypes /\ SessionTypes /\ SignerTypes /\ DkgTypes
  BY TypesTogether, Zenon
<1>2. scene.until \in Nat /\ now \in Nat
  BY <1>1, SceneTyped, Zenon
<1>3. now < scene.until /\ now' = now + 1 /\ UNCHANGED <<scene, started>>
      /\ UNCHANGED sessionVars /\ UNCHANGED signerVars /\ UNCHANGED dkgVars
  BY Zenon DEF Tick
<1>4. now' \in 0..scene.until
  BY <1>2, <1>3
<1>5. ClockTypes'
  BY <1>1, <1>3, <1>4, Zenon DEF ClockTypes
<1>6. SessionTypes' /\ SignerTypes' /\ DkgTypes'
  BY <1>1, <1>3, SessionsUnchanged, SignersUnchanged, DkgUnchanged, Zenon
<1> QED BY <1>5, <1>6, TypesTogetherNext, Zenon

\* The steps of a host, a signer's call, and key generation.
SessionStep ==
  \/ \E q \in scene.queries, m \in scene.messages : PostSign(q, m)
  \/ \E i \in Ids, s \in Signers : \E k \in 1..drawn[s] : PostCommitment(i, <<s, k>>)
  \/ \E a \in Aggregators, i \in Ids : TryAggregate(a, i)
  \/ \E i \in Ids, share \in shares : PostShare(i, share)
  \/ \E a \in Aggregators : Aggregated(a)

Verify(j, s, m) ==
  \/ VerifyAndSign(j, s, m, {}, None)
  \/ \E commitments \in KnownCommitments \ {{}} : \E k \in 1..drawn[s] :
       VerifyAndSign(j, s, m, commitments, <<s, k>>)

SignerStep ==
  \/ \E j \in Slots, s \in Signers, m \in scene.messages : Verify(j, s, m)
  \/ \E j \in Slots : Verified(j) \/ Committed(j) \/ Signed(j)

DkgStep ==
  \/ \E s \in Signers : DkgRound2(s) \/ DkgRound3(s) \/ \E i \in Ids : DkgRound1(s, i)
  \/ \E p \in posted : SubmitDkgPackage(p)

LEMMA NextIs == Next => Tick \/ PostDkgInit \/ SessionStep \/ SignerStep \/ DkgStep
  BY Zenon DEF Next, SessionStep, SignerStep, Verify, DkgStep

LEMMA VerifyTyped ==
  ASSUME TypeOK, NEW j \in Slots, NEW s \in Signers, NEW m \in scene.messages, Verify(j, s, m)
  PROVE  TypeOK'
<1>1. m \in Messages
  BY TypesTogether, SceneTyped, Zenon
<1>2. CASE VerifyAndSign(j, s, m, {}, None)
  BY <1>1, <1>2, VerifyAndSignTyped, Zenon
<1>3. CASE \E K \in KnownCommitments \ {{}} : \E k \in 1..drawn[s] : VerifyAndSign(j, s, m, K, <<s, k>>)
  <2>1. PICK K \in KnownCommitments, k \in 1..drawn[s] : VerifyAndSign(j, s, m, K, <<s, k>>)
    BY <1>3, Zenon
  <2>2. K \in SUBSET Nonce
    BY KnownTyped, Zenon
  <2>3. <<s, k>> \in Nonce
    BY DEF TypeOK, Nonce
  <2> QED BY <1>1, <2>1, <2>2, <2>3, VerifyAndSignTyped, Zenon
<1> QED BY <1>2, <1>3, Zenon DEF Verify

LEMMA StepTyped == TypeOK /\ Begun /\ [Next]_vars => TypeOK'
<1> SUFFICES ASSUME TypeOK, Begun, [Next]_vars PROVE TypeOK'
  BY Zenon
<1>1. CASE UNCHANGED vars
  BY <1>1, Zenon DEF vars, TypeOK
<1>2. CASE SessionStep
  BY <1>2, PostSignTyped, PostCommitmentTyped, TryAggregateTyped, PostShareTyped, AggregatedTyped,
     Zenon DEF SessionStep
<1>3. CASE SignerStep
  BY <1>3, VerifyTyped, VerifiedTyped, CommittedTyped, SignedTyped, Zenon DEF SignerStep
<1>4. CASE DkgStep
  BY <1>4, DkgRound1Typed, DkgRound2Typed, DkgRound3Typed, SubmitTyped, Zenon DEF DkgStep
<1>5. CASE Next
  BY <1>2, <1>3, <1>4, <1>5, NextIs, TickTyped, PostDkgInitTyped, Zenon
<1> QED BY <1>1, <1>5, Zenon

LEMMA BegunStep == TypeOK /\ Begun /\ [Next]_vars => Begun'
<1> SUFFICES ASSUME TypeOK, Begun, [Next]_vars PROVE Begun'
  BY Zenon
<1>1. CASE UNCHANGED local
  BY <1>1, Zenon DEF Begun
<1>2. ASSUME NEW s \in Signers, NEW i \in Ids, DkgRound1(s, i) PROVE Begun'
  <2>1. local' = [local EXCEPT ![s] = [id |-> i, attempt |-> FreshSecret(s), done |-> 1]]
    BY <1>2, Zenon DEF DkgRound1
  <2> QED BY <2>1, Zenon DEF Begun, TypeOK
<1>3. ASSUME NEW s \in Signers, NEW r \in {2, 3}, local' = [local EXCEPT ![s].done = r],
             local[s].done # 0
      PROVE  Begun'
  BY <1>3 DEF Begun, TypeOK
<1>4. ASSUME NEW s \in Signers, DkgRound2(s) \/ DkgRound3(s) PROVE Begun'
  <2>1. local[s].done = 1 \/ local[s].done = 2
    BY <1>4, Zenon DEF DkgRound2, DkgRound3
  <2>2. local' = [local EXCEPT ![s].done = 2] \/ local' = [local EXCEPT ![s].done = 3]
    BY <1>4, Zenon DEF DkgRound2, DkgRound3
  <2>3. local[s].done # 0
    BY <2>1
  <2> QED BY <1>3, <2>2, <2>3, Zenon
<1>5. CASE Tick \/ PostDkgInit \/ SessionStep \/ SignerStep
  <2>1. UNCHANGED local
    <3>1. Tick \/ PostDkgInit => UNCHANGED local
      BY Zenon DEF Tick, PostDkgInit, dkgVars
    <3>2. SessionStep => UNCHANGED local
      BY Zenon DEF SessionStep, PostSign, PostCommitment, TryAggregate, PostShare, Aggregated, dkgVars
    <3>3. SignerStep => UNCHANGED local
      BY Zenon DEF SignerStep, Verify, VerifyAndSign, Verified, Committed, Signed, dkgVars
    <3> QED BY <1>5, <3>1, <3>2, <3>3, Zenon
  <2> QED BY <1>1, <2>1, Zenon
<1>6. CASE DkgStep
  <2>1. ASSUME NEW p \in posted, SubmitDkgPackage(p) PROVE UNCHANGED local
    BY <2>1, Zenon DEF SubmitDkgPackage
  <2> QED BY <1>1, <1>2, <1>4, <1>6, <2>1, Zenon DEF DkgStep
<1>7. CASE Next
  BY <1>5, <1>6, <1>7, NextIs, Zenon
<1>8. CASE UNCHANGED vars
  BY <1>1, <1>8, Zenon DEF vars
<1> QED BY <1>7, <1>8, Zenon

\* Every variable of the coordinator and of the signers keeps its type, for any
\* number of signers, sessions and overlapping calls.
THEOREM SessionsTyped == Spec => [](TypeOK /\ Begun)
<1>1. Init => TypeOK /\ Begun
  <2>1. Init => Begun
    BY DEF Init, Begun
  <2> QED BY <2>1, InitTyped, Zenon
<1>2. TypeOK /\ Begun /\ [Next]_vars => (TypeOK /\ Begun)'
  BY StepTyped, BegunStep, Zenon
<1> QED BY <1>1, <1>2, PTL DEF Spec

-----------------------------------------------------------------------------
(* The signing sessions, step by step.                                     *)

\* Shares are never taken back.
LEMMA StaysFiled ==
  ASSUME shares \subseteq shares', NEW x
  PROVE  (Filed(x) => Filed(x)') /\ (Earned(x) => Earned(x)') /\ (Backed(x) => Backed(x)')
<1>1. Filed(x) => Filed(x)'
  BY Zenon DEF Filed
<1>2. Earned(x) => Earned(x)'
  BY Zenon DEF Earned
<1>3. Backed(x) => Backed(x)'
  BY Zenon DEF Backed
<1> QED BY <1>1, <1>2, <1>3, Zenon

\* A step that leaves the sessions alone.
LEMMA SessionsStay ==
  ASSUME SessionsGood, UNCHANGED sessionVars, started'["sign"] = started["sign"],
         shares \subseteq shares'
  PROVE  SessionsGood'
<1>1. signing' = signing /\ querySession' = querySession /\ newest' = newest /\ aggregating' = aggregating
  BY Zenon DEF sessionVars
<1>2. Sessions'
  <2> SUFFICES ASSUME NEW i \in Ids, signing'[i] # None
               PROVE  (i <= started["sign"] /\ Filed(signing[i]) /\ Earned(signing[i]))'
    BY Zenon DEF Sessions
  <2>1. PICK x : x = signing[i] /\ x = signing'[i]
    BY <1>1, Zenon
  <2>2. i <= started["sign"] /\ Filed(x) /\ Earned(x)
    BY <2>1, <1>1, Zenon DEF SessionsGood, Sessions
  <2> QED BY <2>1, <2>2, StaysFiled, Zenon
<1>3. Names'
  BY <1>1, Zenon DEF SessionsGood, Names
<1>4. Aggregations'
  <2> SUFFICES ASSUME NEW a \in Aggregators, aggregating'[a] # None
               PROVE  (/\ Backed(aggregating[a]) /\ aggregating[a].id <= started["sign"]
                       /\ signing[aggregating[a].id] # None =>
                            signing[aggregating[a].id].message = aggregating[a].msg)'
    BY Zenon DEF Aggregations
  <2>1. PICK c : c = aggregating[a] /\ c = aggregating'[a]
    BY <1>1, Zenon
  <2>2. Backed(c) /\ c.id <= started["sign"] /\ (signing[c.id] # None => signing[c.id].message = c.msg)
    BY <2>1, <1>1, Zenon DEF SessionsGood, Aggregations
  <2>3. Backed(c)'
    BY <2>2, StaysFiled, Zenon
  <2> QED BY <1>1, <2>1, <2>2, <2>3, Zenon
<1>5. NewestSessionIsNamed'
  BY <1>1, Zenon DEF SessionsGood, NewestSessionIsNamed
<1> QED BY <1>2, <1>3, <1>4, <1>5, Zenon DEF SessionsGood

LEMMA CallTyped ==
  ASSUME TypeOK, NEW a \in Aggregators, aggregating[a] # None
  PROVE  aggregating[a] \in Aggregation /\ aggregating[a].id \in Ids
<1>1. aggregating[a] \in Aggregation
  BY Zenon DEF TypeOK, Aggregation
<1>2. aggregating[a].id \in Ids
  BY <1>1, Zenon DEF Aggregation
<1> QED BY <1>1, <1>2, Zenon

\* A step that writes one session.
LEMMA SessionWritten ==
  ASSUME TypeOK, SessionsGood, NEW i \in Ids, NEW x \in Session, signing[i] # None,
         signing' = [signing EXCEPT ![i] = x],
         x.query = signing[i].query, x.message = signing[i].message, Filed(x), Earned(x),
         UNCHANGED <<querySession, newest, started, shares>>,
         \A a \in Aggregators : aggregating'[a] = None \/ aggregating'[a] = aggregating[a]
  PROVE  SessionsGood'
<1>1. shares' = shares /\ started' = started /\ querySession' = querySession /\ newest' = newest
  BY Zenon
<1>2. shares \subseteq shares'
  BY <1>1, Zenon
<1>3. \A j \in Ids : signing'[j] = IF j = i THEN x ELSE signing[j]
  BY Zenon DEF TypeOK
<1>4. x # None
  BY AbsentAssumption, Zenon
<1>5. Sessions'
  <2> SUFFICES ASSUME NEW j \in Ids, signing'[j] # None
               PROVE  (j <= started["sign"] /\ Filed(signing[j]) /\ Earned(signing[j]))'
    BY Zenon DEF Sessions
  <2>1. PICK y : y = signing'[j]
    BY Zenon
  <2>2. j <= started["sign"] /\ Filed(y) /\ Earned(y)
    BY <2>1, <1>3, Zenon DEF SessionsGood, Sessions
  <2> QED BY <1>1, <1>2, <2>1, <2>2, StaysFiled, Zenon
<1>6. Names'
  BY <1>1, Zenon DEF SessionsGood, Names
<1>7. Aggregations'
  <2> SUFFICES ASSUME NEW a \in Aggregators, aggregating'[a] # None
               PROVE  (/\ Backed(aggregating[a]) /\ aggregating[a].id <= started["sign"]
                       /\ signing[aggregating[a].id] # None =>
                            signing[aggregating[a].id].message = aggregating[a].msg)'
    BY Zenon DEF Aggregations
  <2>1. PICK c : c = aggregating[a] /\ c = aggregating'[a]
    BY Zenon
  <2>2. Backed(c) /\ c.id <= started["sign"] /\ (signing[c.id] # None => signing[c.id].message = c.msg)
    BY <2>1, Zenon DEF SessionsGood, Aggregations
  <2>3. aggregating[a] # None
    BY <2>1, Zenon
  <2>4. c.id \in Ids
    BY <2>1, <2>3, CallTyped, Zenon
  <2>5. Backed(c)'
    BY <1>2, <2>2, StaysFiled, Zenon
  <2>6. signing'[c.id] # None => signing'[c.id].message = c.msg
    BY <1>3, <2>2, <2>4, Zenon
  <2> QED BY <1>1, <2>1, <2>2, <2>5, <2>6, Zenon
<1>8. NewestSessionIsNamed'
  <2> SUFFICES ASSUME NEW q \in Queries
               PROVE  /\ querySession'[q] # None =>
                           signing'[querySession'[q]] # None /\ signing'[querySession'[q]].query = q
                      /\ newest'[q] # None /\ signing'[newest'[q]] # None => querySession'[q] = newest'[q]
    BY Zenon DEF NewestSessionIsNamed
  <2>1. querySession[q] \in Ids \union {None} /\ newest[q] \in Ids \union {None}
    BY Zenon DEF TypeOK
  <2>2. /\ querySession[q] # None =>
             signing[querySession[q]] # None /\ signing[querySession[q]].query = q
        /\ newest[q] # None /\ signing[newest[q]] # None => querySession[q] = newest[q]
    BY Zenon DEF SessionsGood, NewestSessionIsNamed
  <2> QED BY <1>1, <1>3, <1>4, <2>1, <2>2, Zenon
<1> QED BY <1>5, <1>6, <1>7, <1>8, Zenon DEF SessionsGood

LEMMA PostCommitmentGood ==
  ASSUME TypeOK, SessionsGood, NEW i \in Ids, NEW s \in Signers, NEW k \in 1..drawn[s],
         PostCommitment(i, <<s, k>>)
  PROVE  SessionsGood'
<1>1. k \in Nat
  BY DEF TypeOK
<1>2. SubmitNonceCommitment(i, <<s, k>>) /\ UNCHANGED aggregating
      /\ UNCHANGED <<querySession, newest, started, shares>> /\ signing[i] # None
      /\ signing[i] \in Session
  BY Zenon DEF PostCommitment, SubmitNonceCommitment, Open, signerVars, TypeOK
<1>3. PICK x \in Session : /\ signing' = [signing EXCEPT ![i] = x]
                           /\ x = [signing[i] EXCEPT !.commitments[s] = <<s, k>>]
  BY <1>1, <1>2, CommitmentTyped
<1>4. /\ x.query = signing[i].query /\ x.message = signing[i].message
      /\ x.shares = signing[i].shares /\ x.signature = signing[i].signature
  BY <1>2, <1>3, Zenon DEF Session
<1>5. Filed(x) /\ Earned(x)
  BY <1>2, <1>4, Zenon DEF SessionsGood, Sessions, Filed, Earned
<1> QED BY <1>2, <1>3, <1>4, <1>5, SessionWritten, Zenon

LEMMA PostShareGood ==
  ASSUME TypeOK, SessionsGood, NEW i \in Ids, NEW y \in shares, PostShare(i, y)
  PROVE  SessionsGood'
<1>1. y \in Share
  BY Zenon DEF TypeOK
<1>2. SubmitSignatureShare(i, y) /\ UNCHANGED aggregating
      /\ UNCHANGED <<querySession, newest, started, shares>> /\ signing[i] # None
      /\ signing[i].signature = None /\ signing[i] \in Session
  BY Zenon DEF PostShare, SubmitSignatureShare, Open, signerVars, TypeOK
<1>3. PICK x \in Session : /\ signing' = [signing EXCEPT ![i] = x]
                           /\ x = [signing[i] EXCEPT !.shares[y.nonce[1]] = y]
  BY <1>1, <1>2, ShareTyped, Zenon
<1>4. /\ x.query = signing[i].query /\ x.message = signing[i].message
      /\ x.signature = None
      /\ \A t \in Signers : x.shares[t] = IF t = y.nonce[1] THEN y ELSE signing[i].shares[t]
  BY <1>2, <1>3, Zenon DEF Session
<1>5. Filed(x)
  <2>1. Filed(signing[i])
    BY <1>2, Zenon DEF SessionsGood, Sessions
  <2> QED BY <1>4, <2>1, Zenon DEF Filed
<1>6. Earned(x)
  BY <1>4, Zenon DEF Earned
<1> QED BY <1>2, <1>3, <1>4, <1>5, <1>6, SessionWritten, Zenon

\* Shares of different signers: there are as many signers as shares.
LEMMA EnoughSigners ==
  ASSUME NEW S \in SUBSET Share, Cardinality(S) >= Threshold,
         \A x, y \in S : x.nonce[1] = y.nonce[1] => x = y
  PROVE  Cardinality({k[1] : k \in {x.nonce : x \in S}}) >= Threshold
<1> DEFINE T == {k[1] : k \in {x.nonce : x \in S}}
           f == [x \in S |-> x.nonce[1]]
<1>1. \A x \in S : x.nonce[1] \in T /\ x.nonce[1] \in Signers
  BY Zenon DEF Share, Nonce
<1>2. T \subseteq Signers
  BY <1>1, Zenon
<1>3. IsFiniteSet(T)
  BY <1>2, SessionsAssumption, FS_Subset, Zenon
<1>4. f \in Injection(S, T)
  BY <1>1, Zenon DEF Injection, IsInjective
<1> HIDE DEF T, f
<1>5. IsFiniteSet(S) /\ Cardinality(S) <= Cardinality(T)
  BY <1>3, <1>4, FS_Injection, Zenon
<1>6. Cardinality(S) \in Nat /\ Cardinality(T) \in Nat
  BY <1>3, <1>5, FS_CardinalityType, Zenon
<1>7. Cardinality(T) >= Threshold
  BY <1>5, <1>6, SessionsAssumption
<1> QED BY <1>7, Zenon DEF T

LEMMA AggregatedGood ==
  ASSUME TypeOK, SessionsGood, NEW a \in Aggregators, Aggregated(a)
  PROVE  SessionsGood'
<1>1. PICK c : c = aggregating[a]
  BY Zenon
<1>2. c \in Aggregation /\ c # None /\ aggregating' = [aggregating EXCEPT ![a] = None]
      /\ UNCHANGED <<querySession, newest, started, shares>>
  BY <1>1, AggregatedWrites, Zenon DEF Aggregated, signerVars
<1>3. \A b \in Aggregators : aggregating'[b] = None \/ aggregating'[b] = aggregating[b]
  BY <1>2, Zenon DEF TypeOK
<1>4. PICK i \in Ids : i = c.id
  BY <1>2, Zenon DEF Aggregation
<1>5. Backed(c) /\ (signing[i] # None => signing[i].message = c.msg)
  BY <1>1, <1>2, <1>4, Zenon DEF SessionsGood, Aggregations
<1>6. CASE UNCHANGED signing /\ signing[i] = None
  <2>1. Sessions'
    BY <1>2, <1>6, Zenon DEF SessionsGood, Sessions, Filed, Earned
  <2>2. Names' /\ NewestSessionIsNamed'
    BY <1>2, <1>6, Zenon DEF SessionsGood, Names, NewestSessionIsNamed
  <2>3. Aggregations'
    BY <1>2, <1>3, <1>6, Zenon DEF SessionsGood, Aggregations, Backed
  <2> QED BY <2>1, <2>2, <2>3, Zenon DEF SessionsGood
<1>7. CASE UNCHANGED signing /\ signing[i] # None
  <2>1. signing[i] \in Session /\ signing' = [signing EXCEPT ![i] = signing[i]]
    BY <1>7, Zenon DEF TypeOK
  <2>2. Filed(signing[i]) /\ Earned(signing[i])
    BY <1>7, Zenon DEF SessionsGood, Sessions
  <2> QED BY <1>2, <1>3, <1>7, <2>1, <2>2, SessionWritten, Zenon
<1>8. ASSUME CanAggregate(c), signing[i] # None, NEW x \in Session,
             signing' = [signing EXCEPT ![i] = x],
             x = [signing[i] EXCEPT !.signature = [msg |-> c.msg, commitments |-> c.commitments]]
      PROVE  SessionsGood'
  <2>1. signing[i] \in Session
    BY <1>8, Zenon DEF TypeOK
  <2>2. /\ x.query = signing[i].query /\ x.message = signing[i].message
        /\ x.shares = signing[i].shares
        /\ x.signature.msg = c.msg /\ x.signature.commitments = c.commitments
    BY <1>8, <2>1, Zenon DEF Session
  <2>3. Filed(x)
    BY <1>8, <2>2, Zenon DEF SessionsGood, Sessions, Filed
  <2>4. c.commitments = {y.nonce : y \in c.shares} /\ c.shares \in SUBSET Share
    BY <1>2, <1>8, Zenon DEF CanAggregate, Aggregation
  <2>5. Cardinality({k[1] : k \in c.commitments}) >= Threshold
    BY <1>5, <2>4, EnoughSigners, Zenon DEF Backed
  <2>6. ASSUME NEW k \in c.commitments
        PROVE  [nonce |-> k, msg |-> c.msg, commitments |-> c.commitments] \in shares
    <3>1. PICK y \in c.shares : k = y.nonce
      BY <2>4, Zenon
    <3>2. y \in Share /\ y \in shares /\ y.msg = c.msg /\ y.commitments = c.commitments
      BY <1>5, <1>8, <2>4, Zenon DEF Backed, CanAggregate
    <3>3. y = [nonce |-> k, msg |-> c.msg, commitments |-> c.commitments]
      BY <3>1, <3>2, Zenon DEF Share
    <3> QED BY <3>2, <3>3, Zenon
  <2>7. Earned(x)
    BY <1>5, <1>8, <2>2, <2>5, <2>6, Zenon DEF Earned
  <2> QED BY <1>2, <1>3, <1>8, <2>2, <2>3, <2>7, SessionWritten, Zenon
<1> QED BY <1>1, <1>4, <1>6, <1>7, <1>8, AggregatedWrites, Zenon

\* evictStaleSessions: a session is dropped whole or stays, and an entry that
\* stays names a session that stays.
LEMMA Evicts ==
  ASSUME TypeOK, SessionsGood
  PROVE  /\ \A i \in Ids : KeptSessions[i] = None \/ KeptSessions[i] = signing[i]
         /\ \A q \in Queries : KeptQueries[q] # None =>
              /\ KeptQueries[q] = querySession[q] /\ querySession[q] \in Ids
              /\ KeptSessions[querySession[q]] = signing[querySession[q]]
         /\ \A q \in Queries : querySession[q] \in Ids /\ KeptSessions[querySession[q]] # None =>
              KeptQueries[q] = querySession[q]
<1>1. \A i \in Ids : KeptSessions[i] = None \/ KeptSessions[i] = signing[i]
  BY Zenon DEF KeptSessions
<1>2. \A q \in Queries : KeptQueries[q] # None => KeptQueries[q] = querySession[q] /\ querySession[q] \notin Stale
  BY Zenon DEF KeptQueries
<1>3. \A q \in Queries : querySession[q] \in Ids \union {None}
  BY Zenon DEF TypeOK
<1>4. \A i \in Ids : i \notin Stale => KeptSessions[i] = signing[i]
  BY Zenon DEF KeptSessions
<1>5. \A i \in Ids : KeptSessions[i] # None => i \notin Stale
  BY Zenon DEF KeptSessions
<1>6. \A q \in Queries : querySession[q] \notin Stale => KeptQueries[q] = querySession[q]
  BY Zenon DEF KeptQueries
<1> QED BY <1>1, <1>2, <1>3, <1>4, <1>5, <1>6, Zenon

\* After an eviction, before anything is started.
EvictedSessions ==
  \A i \in Ids : KeptSessions[i] # None =>
    i <= started["sign"] /\ Filed(KeptSessions[i]) /\ Earned(KeptSessions[i])

EvictedNames ==
  \A q \in Queries :
    /\ KeptQueries[q] # None =>
         /\ KeptQueries[q] \in Ids
         /\ KeptSessions[KeptQueries[q]] # None /\ KeptSessions[KeptQueries[q]].query = q
    /\ newest[q] # None /\ KeptSessions[newest[q]] # None => KeptQueries[q] = newest[q]

LEMMA EvictedGood == ASSUME TypeOK, SessionsGood PROVE EvictedSessions /\ EvictedNames
<1>1. EvictedSessions
  <2> SUFFICES ASSUME NEW i \in Ids, KeptSessions[i] # None
               PROVE  i <= started["sign"] /\ Filed(KeptSessions[i]) /\ Earned(KeptSessions[i])
    BY Zenon DEF EvictedSessions
  <2>1. KeptSessions[i] = signing[i] /\ signing[i] # None
    BY Evicts, Zenon
  <2>2. i <= started["sign"] /\ Filed(signing[i]) /\ Earned(signing[i])
    BY <2>1, Zenon DEF SessionsGood, Sessions
  <2> QED BY <2>1, <2>2, Zenon
<1>2. EvictedNames
  <2> SUFFICES ASSUME NEW q \in Queries
               PROVE  /\ KeptQueries[q] # None =>
                           /\ KeptQueries[q] \in Ids /\ KeptSessions[KeptQueries[q]] # None
                           /\ KeptSessions[KeptQueries[q]].query = q
                      /\ newest[q] # None /\ KeptSessions[newest[q]] # None => KeptQueries[q] = newest[q]
    BY Zenon DEF EvictedNames
  <2>1. /\ querySession[q] # None =>
             signing[querySession[q]] # None /\ signing[querySession[q]].query = q
        /\ newest[q] # None /\ signing[newest[q]] # None => querySession[q] = newest[q]
    BY Zenon DEF SessionsGood, NewestSessionIsNamed
  <2>2. newest[q] \in Ids \union {None}
    BY Zenon DEF TypeOK
  <2>3. KeptQueries[q] # None =>
          /\ KeptQueries[q] \in Ids /\ KeptSessions[KeptQueries[q]] # None
          /\ KeptSessions[KeptQueries[q]].query = q
    BY <2>1, Evicts, Zenon
  <2>4. ASSUME newest[q] # None, KeptSessions[newest[q]] # None PROVE KeptQueries[q] = newest[q]
    <3>1. newest[q] \in Ids /\ KeptSessions[newest[q]] = signing[newest[q]]
      BY <2>2, <2>4, Evicts, Zenon
    <3>2. querySession[q] = newest[q]
      BY <2>1, <2>4, <3>1, Zenon
    <3> QED BY <2>4, <3>1, <3>2, Evicts, Zenon
  <2> QED BY <2>3, <2>4, Zenon
<1> QED BY <1>1, <1>2, Zenon

LEMMA PostDkgInitGood == ASSUME TypeOK, SessionsGood, PostDkgInit PROVE SessionsGood'
<1>1. /\ signing' = KeptSessions /\ querySession' = KeptQueries
      /\ UNCHANGED <<newest, aggregating>> /\ shares' = shares
      /\ started' = [started EXCEPT !["dkg"] = started["dkg"] + 1]
  BY Zenon DEF PostDkgInit, InitDkg, signerVars
<1>2. started'["sign"] = started["sign"] /\ shares \subseteq shares'
  BY <1>1 DEF TypeOK
<1>3. Sessions'
  <2> SUFFICES ASSUME NEW i \in Ids, signing'[i] # None
               PROVE  (i <= started["sign"] /\ Filed(signing[i]) /\ Earned(signing[i]))'
    BY Zenon DEF Sessions
  <2>1. PICK x : x = KeptSessions[i]
    BY Zenon
  <2>2. i <= started["sign"] /\ Filed(x) /\ Earned(x)
    BY <1>1, <2>1, EvictedGood, Zenon DEF EvictedSessions
  <2>3. signing'[i] = x
    BY <1>1, <2>1, Zenon
  <2> QED BY <1>2, <2>2, <2>3, StaysFiled, Zenon
<1>4. Names'
  BY <1>1, <1>2, Zenon DEF SessionsGood, Names
<1>5. Aggregations'
  <2> SUFFICES ASSUME NEW a \in Aggregators, aggregating'[a] # None
               PROVE  (/\ Backed(aggregating[a]) /\ aggregating[a].id <= started["sign"]
                       /\ signing[aggregating[a].id] # None =>
                            signing[aggregating[a].id].message = aggregating[a].msg)'
    BY Zenon DEF Aggregations
  <2>1. PICK c : c = aggregating[a] /\ c = aggregating'[a]
    BY <1>1, Zenon
  <2>2. Backed(c) /\ c.id <= started["sign"] /\ (signing[c.id] # None => signing[c.id].message = c.msg)
    BY <2>1, <1>1, Zenon DEF SessionsGood, Aggregations
  <2>3. aggregating[a] # None
    BY <2>1, Zenon
  <2>4. c.id \in Ids
    BY <2>1, <2>3, CallTyped, Zenon
  <2>5. signing'[c.id] # None => signing'[c.id].message = c.msg
    BY <1>1, <2>2, <2>4, Evicts, Zenon
  <2>6. Backed(c)'
    BY <1>2, <2>2, StaysFiled, Zenon
  <2> QED BY <1>2, <2>1, <2>2, <2>5, <2>6, Zenon
<1>6. NewestSessionIsNamed'
  BY <1>1, EvictedGood, Zenon DEF EvictedNames, NewestSessionIsNamed
<1> QED BY <1>3, <1>4, <1>5, <1>6, Zenon DEF SessionsGood

LEMMA PostSignGood ==
  ASSUME TypeOK, SessionsGood, NEW q \in scene.queries, NEW m \in scene.messages, PostSign(q, m)
  PROVE  SessionsGood'
<1>1. q \in Queries /\ m \in Messages /\ started["sign"] \in Nat /\ now \in Nat
      /\ scene.sessions \in 0..MaxSessions
  BY TypesTogether, SceneTyped, Zenon
<1>2. PICK id : id = started["sign"] + 1
  BY Zenon
<1> DEFINE x == [query |-> q, message |-> m, commitments |-> [s \in Signers |-> None],
                 shares |-> [s \in Signers |-> None], signature |-> None, created |-> now]
<1>3. /\ signing' = [KeptSessions EXCEPT ![id] = x] /\ querySession' = [KeptQueries EXCEPT ![q] = id]
      /\ newest' = [newest EXCEPT ![q] = id] /\ started' = [started EXCEPT !["sign"] = id]
      /\ UNCHANGED <<aggregating>> /\ shares' = shares /\ id <= scene.sessions
  BY <1>2, Zenon DEF PostSign, StartSigning, signerVars
<1>4. x \in Session
  BY <1>1, Zenon DEF Session
<1>5. x # None
  BY <1>4, AbsentAssumption, Zenon
<1>6. Filed(x) /\ Earned(x) /\ x.query = q
  BY Zenon DEF Filed, Earned
<1> HIDE DEF x
<1>7. id \in Ids /\ started["sign"] < id /\ started'["sign"] = id
  BY <1>1, <1>2, <1>3, SessionsAssumption DEF Ids, TypeOK
<1>8. \A i \in Ids : i <= started["sign"] => i # id /\ i <= started'["sign"]
  BY <1>1, <1>2, <1>7 DEF Ids
<1>9. /\ KeptSessions \in [Ids -> Session \union {None}]
      /\ KeptQueries \in [Queries -> Ids \union {None}]
  BY KeptTyped, TypesTogether, Zenon
<1>10. /\ \A i \in Ids : signing'[i] = IF i = id THEN x ELSE KeptSessions[i]
       /\ \A p \in Queries : querySession'[p] = IF p = q THEN id ELSE KeptQueries[p]
       /\ \A p \in Queries : newest'[p] = IF p = q THEN id ELSE newest[p]
  BY <1>3, <1>9, Zenon DEF TypeOK
<1>11. shares \subseteq shares'
  BY <1>3, Zenon
<1>12. Sessions'
  <2> SUFFICES ASSUME NEW i \in Ids, signing'[i] # None
               PROVE  (i <= started["sign"] /\ Filed(signing[i]) /\ Earned(signing[i]))'
    BY Zenon DEF Sessions
  <2>1. CASE i = id
    <3>1. signing'[i] = x /\ i <= started'["sign"]
      BY <1>7, <1>10, <2>1 DEF Ids
    <3> QED BY <1>6, <1>11, <3>1, StaysFiled, Zenon
  <2>2. CASE i # id
    <3>1. PICK y : y = KeptSessions[i] /\ signing'[i] = y
      BY <1>10, <2>2, Zenon
    <3>2. i <= started["sign"] /\ Filed(y) /\ Earned(y)
      BY <3>1, EvictedGood, Zenon DEF EvictedSessions
    <3> QED BY <1>8, <1>11, <3>1, <3>2, StaysFiled, Zenon
  <2> QED BY <2>1, <2>2, Zenon
<1>13. Names'
  <2> SUFFICES ASSUME NEW p \in Queries, newest'[p] # None PROVE newest'[p] <= started'["sign"]
    BY Zenon DEF Names
  <2>1. CASE p = q
    BY <1>7, <1>10, <2>1 DEF Ids
  <2>2. CASE p # q
    <3>1. newest'[p] = newest[p] /\ newest[p] \in Ids
      BY <1>10, <2>2, Zenon DEF TypeOK
    <3>2. newest[p] <= started["sign"]
      BY <3>1, Zenon DEF SessionsGood, Names
    <3> QED BY <1>8, <3>1, <3>2, Zenon
  <2> QED BY <2>1, <2>2, Zenon
<1>14. Aggregations'
  <2> SUFFICES ASSUME NEW a \in Aggregators, aggregating'[a] # None
               PROVE  (/\ Backed(aggregating[a]) /\ aggregating[a].id <= started["sign"]
                       /\ signing[aggregating[a].id] # None =>
                            signing[aggregating[a].id].message = aggregating[a].msg)'
    BY Zenon DEF Aggregations
  <2>1. PICK c : c = aggregating[a] /\ c = aggregating'[a]
    BY <1>3, Zenon
  <2>2. Backed(c) /\ c.id <= started["sign"] /\ (signing[c.id] # None => signing[c.id].message = c.msg)
    BY <2>1, <1>3, Zenon DEF SessionsGood, Aggregations
  <2>3. aggregating[a] # None
    BY <2>1, Zenon
  <2>4. c.id \in Ids
    BY <2>1, <2>3, CallTyped, Zenon
  <2>5. c.id # id /\ c.id <= started'["sign"]
    BY <1>8, <2>2, <2>4, Zenon
  <2>6. signing'[c.id] # None => signing'[c.id].message = c.msg
    <3>1. signing'[c.id] = KeptSessions[c.id]
      BY <1>10, <2>4, <2>5, Zenon
    <3>2. KeptSessions[c.id] # None => KeptSessions[c.id] = signing[c.id]
      BY <2>4, Evicts, Zenon
    <3> QED BY <2>2, <3>1, <3>2
  <2>7. Backed(c)'
    BY <1>11, <2>2, StaysFiled, Zenon
  <2> QED BY <2>1, <2>5, <2>6, <2>7, Zenon
<1>15. NewestSessionIsNamed'
  <2> SUFFICES ASSUME NEW p \in Queries
               PROVE  /\ querySession'[p] # None =>
                           signing'[querySession'[p]] # None /\ signing'[querySession'[p]].query = p
                      /\ newest'[p] # None /\ signing'[newest'[p]] # None => querySession'[p] = newest'[p]
    BY Zenon DEF NewestSessionIsNamed
  <2>1. CASE p = q
    BY <1>5, <1>6, <1>7, <1>10, <2>1, Zenon
  <2>2. CASE p # q
    <3>1. querySession'[p] = KeptQueries[p] /\ newest'[p] = newest[p]
      BY <1>10, <2>2, Zenon
    <3>2. newest[p] \in Ids \union {None}
      BY Zenon DEF TypeOK
    <3>3. newest[p] # None => newest[p] # id
      BY <1>8, <3>2, Zenon DEF SessionsGood, Names
    <3>4. KeptQueries[p] # None => KeptQueries[p] # id
      BY <1>8, EvictedGood, Zenon DEF EvictedNames, EvictedSessions
    <3>5. newest[p] # None => signing'[newest[p]] = KeptSessions[newest[p]]
      BY <1>10, <3>2, <3>3, Zenon
    <3>6. KeptQueries[p] # None => signing'[KeptQueries[p]] = KeptSessions[KeptQueries[p]]
      BY <1>10, <3>4, EvictedGood, Zenon DEF EvictedNames
    <3> QED BY <3>1, <3>5, <3>6, EvictedGood, Zenon DEF EvictedNames
  <2> QED BY <2>1, <2>2, Zenon
<1> QED BY <1>12, <1>13, <1>14, <1>15, Zenon DEF SessionsGood

LEMMA TryAggregateGood ==
  ASSUME TypeOK, SessionsGood, NEW a \in Aggregators, NEW i \in Ids, TryAggregate(a, i)
  PROVE  SessionsGood'
<1> DEFINE c == [id |-> i, msg |-> signing[i].message,
                 commitments |-> Present(signing[i].commitments), shares |-> Present(signing[i].shares)]
<1>1. /\ aggregating' = [aggregating EXCEPT ![a] = c] /\ signing[i] # None
      /\ Cardinality(Present(signing[i].shares)) >= Threshold
      /\ signing' = signing /\ querySession' = querySession /\ newest' = newest
      /\ started' = started /\ shares' = shares
  BY Zenon DEF TryAggregate, Open, signerVars
<1>2. i <= started["sign"] /\ Filed(signing[i]) /\ signing[i] \in Session
  BY <1>1, Zenon DEF SessionsGood, Sessions, TypeOK
<1>3. PICK f : f = signing[i].shares /\ DOMAIN f = Signers
  BY <1>2, Zenon DEF Session
<1>4. ASSUME NEW y \in Present(f) PROVE y \in shares /\ y = f[y.nonce[1]]
  <2>1. PICK s \in Signers : y = f[s] /\ y # None
    BY <1>3, Zenon DEF Present, Range
  <2>2. f[s] \in shares /\ f[s].nonce[1] = s
    BY <1>2, <1>3, <2>1, Zenon DEF Filed
  <2> QED BY <2>1, <2>2, Zenon
<1>5. Backed(c)
  <2>1. c.shares = Present(f)
    BY <1>3, Zenon
  <2> HIDE DEF c
  <2>2. Cardinality(c.shares) >= Threshold
    BY <1>1, <1>3, <2>1, Zenon
  <2>3. c.shares \subseteq shares
    BY <1>4, <2>1, Zenon
  <2>4. ASSUME NEW x \in c.shares, NEW y \in c.shares, x.nonce[1] = y.nonce[1] PROVE x = y
    <3>1. x = f[x.nonce[1]] /\ y = f[y.nonce[1]]
      BY <1>4, <2>1, Zenon
    <3> QED BY <2>4, <3>1, Zenon
  <2> QED BY <2>2, <2>3, <2>4, Zenon DEF Backed
<1>6. c.id = i /\ c.msg = signing[i].message
  BY Zenon
<1> HIDE DEF c
<1>7. \A b \in Aggregators : aggregating'[b] = IF b = a THEN c ELSE aggregating[b]
  BY <1>1, Zenon DEF TypeOK
<1>8. Sessions' /\ Names' /\ NewestSessionIsNamed'
  <2>1. Sessions'
    BY <1>1, Zenon DEF SessionsGood, Sessions, Filed, Earned
  <2>2. Names' /\ NewestSessionIsNamed'
    BY <1>1, Zenon DEF SessionsGood, Names, NewestSessionIsNamed
  <2> QED BY <2>1, <2>2, Zenon
<1>9. Aggregations'
  <2> SUFFICES ASSUME NEW b \in Aggregators, aggregating'[b] # None
               PROVE  (/\ Backed(aggregating[b]) /\ aggregating[b].id <= started["sign"]
                       /\ signing[aggregating[b].id] # None =>
                            signing[aggregating[b].id].message = aggregating[b].msg)'
    BY Zenon DEF Aggregations
  <2>1. PICK d : d = aggregating'[b]
    BY Zenon
  <2>2. Backed(d) /\ d.id <= started["sign"] /\ (signing[d.id] # None => signing[d.id].message = d.msg)
    <3>1. CASE b = a
      BY <1>2, <1>5, <1>6, <1>7, <2>1, <3>1, Zenon
    <3>2. CASE b # a
      BY <1>7, <2>1, <3>2, Zenon DEF SessionsGood, Aggregations
    <3> QED BY <3>1, <3>2, Zenon
  <2>3. Backed(d)'
    BY <1>1, <2>2, Zenon DEF Backed
  <2> QED BY <1>1, <2>1, <2>2, <2>3, Zenon
<1> QED BY <1>8, <1>9, Zenon DEF SessionsGood

\* What the other steps do to the sessions.
LEMMA OthersStay ==
  ASSUME TypeOK, Tick \/ SignerStep \/ DkgStep
  PROVE  UNCHANGED sessionVars /\ UNCHANGED started /\ shares \subseteq shares'
<1>1. ASSUME Tick PROVE UNCHANGED sessionVars /\ UNCHANGED started /\ shares' = shares
  BY <1>1, Zenon DEF Tick, signerVars
<1>2. ASSUME DkgStep PROVE UNCHANGED sessionVars /\ UNCHANGED started /\ shares' = shares
  BY <1>2, Zenon DEF DkgStep, DkgRound1, DkgRound2, DkgRound3, SubmitDkgPackage, signerVars
<1>3. ASSUME NEW j \in Slots, NEW s \in Signers, NEW m \in scene.messages, Verify(j, s, m)
      PROVE  UNCHANGED sessionVars /\ UNCHANGED started /\ shares' = shares
  BY <1>3, Zenon DEF Verify, VerifyAndSign
<1>4. ASSUME NEW j \in Slots, Verified(j) \/ Committed(j)
      PROVE  UNCHANGED sessionVars /\ UNCHANGED started /\ shares' = shares
  BY <1>4, Zenon DEF Verified, Committed
<1>5. ASSUME NEW j \in Slots, Signed(j)
      PROVE  UNCHANGED sessionVars /\ UNCHANGED started /\ shares \subseteq shares'
  <2>1. UNCHANGED sessionVars /\ UNCHANGED started
    BY <1>5, Zenon DEF Signed
  <2> QED BY <1>5, <2>1, SignedWrites, Zenon
<1> QED BY <1>1, <1>2, <1>3, <1>4, <1>5, Zenon DEF SignerStep

LEMMA SessionsStep == TypeOK /\ SessionsGood /\ [Next]_vars => SessionsGood'
<1> SUFFICES ASSUME TypeOK, SessionsGood, [Next]_vars PROVE SessionsGood'
  BY Zenon
<1>1. CASE UNCHANGED vars
  <2>1. UNCHANGED sessionVars /\ started' = started /\ shares' = shares
    BY <1>1, Zenon DEF vars, sessionVars
  <2> QED BY <2>1, SessionsStay, Zenon
<1>2. CASE Tick \/ SignerStep \/ DkgStep
  BY <1>2, OthersStay, SessionsStay, Zenon
<1>3. CASE SessionStep
  BY <1>3, PostSignGood, PostCommitmentGood, TryAggregateGood, PostShareGood, AggregatedGood,
     Zenon DEF SessionStep
<1>4. CASE Next
  BY <1>2, <1>3, <1>4, NextIs, PostDkgInitGood, Zenon
<1> QED BY <1>1, <1>4, Zenon

LEMMA SessionsAlways == Spec => [](TypeOK /\ SessionsGood)
<1>1. Init => SessionsGood
  <2> SUFFICES ASSUME Init PROVE SessionsGood
    BY Zenon
  <2>1. Sessions /\ Names
    BY Zenon DEF Init, Sessions, Names
  <2>2. Aggregations /\ NewestSessionIsNamed
    BY Zenon DEF Init, Aggregations, NewestSessionIsNamed
  <2> QED BY <2>1, <2>2, Zenon DEF SessionsGood
<1>2. Spec => [](TypeOK /\ Begun)
  BY SessionsTyped, Zenon
<1> QED BY <1>1, <1>2, SessionsStep, PTL DEF Spec

\* evictStaleSessions and startSigning: the entry of a query names a session of
\* that query that is still there, and the newest one as long as that is there.
THEOREM NewestNamed == Spec => []NewestSessionIsNamed
<1>1. TypeOK /\ SessionsGood => NewestSessionIsNamed
  BY Zenon DEF SessionsGood
<1> QED BY <1>1, SessionsAlways, PTL

\* tryAggregate: whatever was submitted while the process ran, a finalized
\* session's signature is over its own message and made of shares of Threshold
\* signers for this message and these commitments.
THEOREM SignatureEarned == Spec => []SignatureIsEarned
<1>1. TypeOK /\ SessionsGood => SignatureIsEarned
  BY Zenon DEF SessionsGood, Sessions, Earned, SignatureIsEarned
<1> QED BY <1>1, SessionsAlways, PTL

-----------------------------------------------------------------------------
(* A finalized session.                                                    *)

Frozen ==
  \A i \in Ids : signing[i] # None /\ signing[i].signature # None /\ signing'[i] # None =>
    /\ signing'[i].commitments = signing[i].commitments
    /\ signing'[i].shares = signing[i].shares
    /\ signing'[i].signature # None

LEMMA WriteFrozen ==
  ASSUME TypeOK, NEW i \in Ids, NEW x, signing' = [signing EXCEPT ![i] = x],
         signing[i].signature = None \/
           (/\ x.commitments = signing[i].commitments /\ x.shares = signing[i].shares
            /\ x.signature # None)
  PROVE  Frozen
<1>1. \A j \in Ids : signing'[j] = IF j = i THEN x ELSE signing[j]
  BY Zenon DEF TypeOK
<1> QED BY <1>1, Zenon DEF Frozen

LEMMA StepFrozen == TypeOK /\ SessionsGood /\ [Next]_vars => Frozen
<1> SUFFICES ASSUME TypeOK, SessionsGood, [Next]_vars PROVE Frozen
  BY Zenon
<1>1. ASSUME UNCHANGED signing PROVE Frozen
  BY <1>1, Zenon DEF Frozen
<1>2. ASSUME NEW q \in scene.queries, NEW m \in scene.messages, PostSign(q, m) PROVE Frozen
  <2>1. started["sign"] \in Nat
    BY TypesTogether, SceneTyped, Zenon
  <2>2. PICK id, x : id = started["sign"] + 1 /\ signing' = [KeptSessions EXCEPT ![id] = x]
    BY <1>2, Zenon DEF PostSign, StartSigning
  <2>3. \A i \in Ids : signing[i] # None => i # id
    BY <2>1, <2>2 DEF SessionsGood, Sessions, Ids
  <2>4. KeptSessions \in [Ids -> Session \union {None}]
    BY KeptTyped, TypesTogether, Zenon
  <2>5. \A i \in Ids : signing[i] # None => signing'[i] = KeptSessions[i]
    BY <2>2, <2>3, <2>4, Zenon
  <2> QED BY <2>5, Evicts, Zenon DEF Frozen
<1>3. ASSUME PostDkgInit PROVE Frozen
  <2>1. signing' = KeptSessions
    BY <1>3, Zenon DEF PostDkgInit, InitDkg
  <2> QED BY <2>1, Evicts, Zenon DEF Frozen
<1>4. ASSUME NEW i \in Ids, NEW s \in Signers, NEW k \in 1..drawn[s], PostCommitment(i, <<s, k>>)
      PROVE  Frozen
  <2>1. SubmitNonceCommitment(i, <<s, k>>) /\ k \in Nat
    BY <1>4 DEF PostCommitment, TypeOK
  <2>2. PICK x : signing' = [signing EXCEPT ![i] = x]
    BY <2>1, CommitmentTyped, Zenon
  <2>3. signing[i].signature = None
    BY <2>1, Zenon DEF SubmitNonceCommitment, Open
  <2> QED BY <2>2, <2>3, WriteFrozen, Zenon
<1>5. ASSUME NEW i \in Ids, NEW y \in shares, PostShare(i, y) PROVE Frozen
  <2>1. SubmitSignatureShare(i, y) /\ y \in Share
    BY <1>5, Zenon DEF PostShare, TypeOK
  <2>2. PICK x : signing' = [signing EXCEPT ![i] = x]
    BY <2>1, ShareTyped, Zenon
  <2>3. signing[i].signature = None
    BY <2>1, Zenon DEF SubmitSignatureShare, Open
  <2> QED BY <2>2, <2>3, WriteFrozen, Zenon
<1>6. ASSUME NEW a \in Aggregators, Aggregated(a) PROVE Frozen
  <2>1. PICK c \in Aggregation : c = aggregating[a]
    BY <1>6, AggregatedWrites, Zenon
  <2>2. PICK sig \in Signature : sig = [msg |-> c.msg, commitments |-> c.commitments]
    BY Zenon DEF Aggregation, Signature
  <2>3. sig # None /\ c.id \in Ids
    BY AbsentAssumption, Zenon DEF Aggregation
  <2>4. CASE UNCHANGED signing
    BY <1>1, <2>4, Zenon
  <2>5. CASE \E x \in Session : /\ signing[c.id] # None /\ signing' = [signing EXCEPT ![c.id] = x]
                                /\ x = [signing[c.id] EXCEPT !.signature = sig]
    <3>1. PICK x \in Session : /\ signing[c.id] # None /\ signing' = [signing EXCEPT ![c.id] = x]
                               /\ x = [signing[c.id] EXCEPT !.signature = sig]
      BY <2>5, Zenon
    <3>2. signing[c.id] \in Session
      BY <2>3, <3>1, Zenon DEF TypeOK
    <3>3. x.commitments = signing[c.id].commitments /\ x.shares = signing[c.id].shares
          /\ x.signature = sig
      BY <3>1, <3>2 DEF Session
    <3> QED BY <2>3, <3>1, <3>3, WriteFrozen, Zenon
  <2> QED BY <1>6, <2>1, <2>2, <2>4, <2>5, AggregatedWrites, Zenon
<1>7. ASSUME NEW a \in Aggregators, NEW i \in Ids, TryAggregate(a, i) PROVE UNCHANGED signing
  BY <1>7, Zenon DEF TryAggregate
<1>8. CASE SessionStep
  BY <1>1, <1>2, <1>4, <1>5, <1>6, <1>7, <1>8, Zenon DEF SessionStep
<1>9. CASE Tick \/ SignerStep \/ DkgStep
  BY <1>1, <1>9, OthersStay, Zenon DEF sessionVars
<1>10. CASE UNCHANGED vars
  BY <1>1, <1>10, Zenon DEF vars
<1> QED BY <1>3, <1>8, <1>9, <1>10, NextIs, Zenon

\* submitNonceCommitment, submitSignatureShare and tryAggregate: once a session
\* is finalized its commitments and shares are never written again and it stays
\* finalized, though calls that began before go on.
THEOREM FinalizedFrozen == Spec => FinalizedIsFrozen
<1>1. TypeOK /\ SessionsGood /\ [Next]_vars => Frozen
  BY StepFrozen, Zenon
<1>2. FinalizedIsFrozen <=> [][Frozen]_vars
  BY PTL DEF FinalizedIsFrozen, Frozen
<1> QED BY <1>1, <1>2, SessionsAlways, PTL DEF Spec


-----------------------------------------------------------------------------
(* The nonces of a signer.                                                 *)

\* Steps that use no nonce: a call that signs was signing before.
LEMMA NoncesStay ==
  ASSUME Drawn, Apart, drawn' = drawn, shares' = shares, pending' \subseteq pending,
         \A j \in Slots : signer'[j] # None /\ signer'[j].at = "sign" => signer'[j] = signer[j]
  PROVE  Drawn' /\ Apart'
<1>1. Drawn'
  BY Zenon DEF Drawn
<1>2. (\A e \in pending, x \in shares : e.nonce # x.nonce)'
  BY Zenon DEF Apart
<1>3. \A j \in Slots : \A n : Using(j, n)' => Using(j, n)
  BY Zenon DEF Using
<1>4. (\A j \in Slots, e \in pending : ~Using(j, e.nonce))'
  BY <1>3, Zenon DEF Apart
<1>5. (\A j \in Slots, x \in shares : ~Using(j, x.nonce))'
  BY <1>3, Zenon DEF Apart
<1>6. (\A j, l \in Slots : j # l => ~(signer[j] # None /\ signer[l] # None
        /\ signer[j].at = "sign" /\ signer[l].at = "sign"
        /\ signer[j].nonce = signer[l].nonce))'
  BY DEF Apart
<1>7. SignerNonceUsedOnce'
  BY Zenon DEF Apart, SignerNonceUsedOnce
<1> QED BY <1>1, <1>2, <1>4, <1>5, <1>6, <1>7, Zenon DEF Apart

\* Round 2 takes its nonce out of the pending ones before it signs with it.
LEMMA NonceTaken ==
  ASSUME TypeOK, Drawn, Apart, NEW j \in Slots, NEW f \in pending, drawn' = drawn, shares' = shares,
         pending' = pending \ {e \in pending : e.nonce = f.nonce},
         signer'[j].nonce = f.nonce,
         \A l \in Slots : l # j => signer'[l] = signer[l]
  PROVE  Drawn' /\ Apart'
<1>1. PICK n \in Nonce : n = f.nonce
  BY Zenon DEF TypeOK
<1>2. n[2] <= drawn[n[1]]
  BY <1>1, Zenon DEF Drawn
<1>3. pending' \subseteq pending /\ \A e \in pending' : e.nonce # n
  BY <1>1, Zenon
<1>4. \A x \in shares : x.nonce # n
  BY <1>1, Zenon DEF Apart
<1>5. \A l \in Slots : l # j => ~Using(l, n)
  BY <1>1, Zenon DEF Apart
<1>6. \A l \in Slots : \A k : Using(l, k)' => (k = n /\ l = j) \/ Using(l, k)
  BY <1>1, Zenon DEF Using
<1>7. Drawn'
  <2>1. (\A e \in pending : e.nonce[2] <= drawn[e.nonce[1]])'
    BY <1>3, Zenon DEF Drawn
  <2>2. (\A x \in shares : x.nonce[2] <= drawn[x.nonce[1]])'
    BY Zenon DEF Drawn
  <2>3. ASSUME NEW l \in Slots, signer'[l] # None, signer'[l].at = "sign"
        PROVE  signer'[l].nonce \in Nonce /\ signer'[l].nonce[2] <= drawn[signer'[l].nonce[1]]
    <3>1. CASE l = j
      BY <1>1, <1>2, <3>1
    <3>2. CASE l # j
      BY <2>3, <3>2, Zenon DEF Drawn
    <3> QED BY <3>1, <3>2, Zenon
  <2> QED BY <2>1, <2>2, <2>3, Zenon DEF Drawn
<1>8. (\A e \in pending, x \in shares : e.nonce # x.nonce)'
  BY <1>3, Zenon DEF Apart
<1>9. (\A l \in Slots, e \in pending : ~Using(l, e.nonce))'
  BY <1>3, <1>6, Zenon DEF Apart
<1>10. (\A l \in Slots, x \in shares : ~Using(l, x.nonce))'
  BY <1>4, <1>6, Zenon DEF Apart
<1>11. ASSUME NEW k \in Slots, NEW l \in Slots, k # l, signer'[k] # None, signer'[l] # None,
              signer'[k].at = "sign", signer'[l].at = "sign", signer'[k].nonce = signer'[l].nonce
       PROVE  FALSE
  <2>1. CASE k # j /\ l # j
    <3>1. signer'[k] = signer[k] /\ signer'[l] = signer[l]
      BY <2>1, Zenon
    <3> QED BY <1>11, <3>1 DEF Apart
  <2>2. CASE k = j
    <3>1. signer'[l] = signer[l] /\ signer'[k].nonce = n /\ l # j
      BY <1>1, <1>11, <2>2, Zenon
    <3>2. Using(l, n)
      BY <1>11, <3>1, Zenon DEF Using
    <3> QED BY <1>5, <3>1, <3>2, Zenon
  <2>3. CASE l = j
    <3>1. signer'[k] = signer[k] /\ signer'[l].nonce = n /\ k # j
      BY <1>1, <1>11, <2>3, Zenon
    <3>2. Using(k, n)
      BY <1>11, <3>1, Zenon DEF Using
    <3> QED BY <1>5, <3>1, <3>2, Zenon
  <2> QED BY <2>1, <2>2, <2>3, Zenon
<1>12. SignerNonceUsedOnce'
  BY Zenon DEF Apart, SignerNonceUsedOnce
<1> QED BY <1>7, <1>8, <1>9, <1>10, <1>11, <1>12, Zenon DEF Apart

\* The share of a call has the nonce that only this call was using.
LEMMA NonceShared ==
  ASSUME TypeOK, Drawn, Apart, NEW j \in Slots, signer[j] # None, signer[j].at = "sign",
         NEW y, y.nonce = signer[j].nonce, shares' = shares \union {y},
         drawn' = drawn, pending' = pending, signer' = [signer EXCEPT ![j] = None]
  PROVE  Drawn' /\ Apart'
<1>1. PICK n \in Nonce : n = y.nonce /\ n[2] <= drawn[n[1]] /\ Using(j, n)
  BY Zenon DEF Drawn, Using
<1>2. \A l \in Slots : l # j => ~Using(l, n)
  BY <1>1, Zenon DEF Apart, Using
<1>3. \A l \in Slots : signer'[l] # None => signer'[l] = signer[l] /\ l # j
  BY Zenon DEF TypeOK
<1>4. \A l \in Slots : \A k : Using(l, k)' => Using(l, k) /\ l # j
  BY <1>3, Zenon DEF Using
<1>5. Drawn'
  <2>1. (\A e \in pending : e.nonce[2] <= drawn[e.nonce[1]])'
    BY Zenon DEF Drawn
  <2>2. (\A x \in shares : x.nonce[2] <= drawn[x.nonce[1]])'
    BY <1>1, Zenon DEF Drawn
  <2>3. ASSUME NEW l \in Slots, signer'[l] # None, signer'[l].at = "sign"
        PROVE  signer'[l].nonce \in Nonce /\ signer'[l].nonce[2] <= drawn[signer'[l].nonce[1]]
    BY <1>3, <2>3, Zenon DEF Drawn
  <2> QED BY <2>1, <2>2, <2>3, Zenon DEF Drawn
<1>6. (\A e \in pending, x \in shares : e.nonce # x.nonce)'
  BY <1>1, Zenon DEF Apart
<1>7. (\A l \in Slots, e \in pending : ~Using(l, e.nonce))'
  BY <1>4, Zenon DEF Apart
<1>8. (\A l \in Slots, x \in shares : ~Using(l, x.nonce))'
  BY <1>1, <1>2, <1>4, Zenon DEF Apart
<1>9. ASSUME NEW k \in Slots, NEW l \in Slots, k # l, signer'[k] # None, signer'[l] # None,
             signer'[k].at = "sign", signer'[l].at = "sign", signer'[k].nonce = signer'[l].nonce
      PROVE  FALSE
  <2>1. signer'[k] = signer[k] /\ signer'[l] = signer[l]
    BY <1>3, <1>9, Zenon
  <2> QED BY <1>9, <2>1, Zenon DEF Apart
<1>10. SignerNonceUsedOnce'
  <2>1. \A x \in shares : x.nonce # n
    BY <1>1, Zenon DEF Apart
  <2> QED BY <1>1, <2>1, Zenon DEF Apart, SignerNonceUsedOnce
<1> QED BY <1>5, <1>6, <1>7, <1>8, <1>9, <1>10, Zenon DEF Apart

\* Round 1 draws a nonce nobody has.
LEMMA NonceDrawn ==
  ASSUME TypeOK, Drawn, Apart, NEW f, NEW n \in Nonce, f.nonce = n,
         drawn[n[1]] < n[2], n[2] <= drawn'[n[1]],
         \A t \in Signers : drawn'[t] \in Nat /\ drawn[t] <= drawn'[t],
         pending' = pending \union {f}, shares' = shares,
         \A l \in Slots : signer'[l] # None => signer'[l] = signer[l]
  PROVE  Drawn' /\ Apart'
<1>1. ASSUME NEW k \in Nonce, k[2] <= drawn[k[1]] PROVE k[2] <= drawn'[k[1]] /\ k # n
  <2>1. k[1] \in Signers /\ k[2] \in Nat /\ drawn[k[1]] \in Nat /\ drawn'[k[1]] \in Nat
        /\ drawn[k[1]] <= drawn'[k[1]] /\ n[2] \in Nat
    BY Zenon DEF TypeOK, Nonce
  <2> QED BY <1>1, <2>1
<1>2. \A e \in pending : e.nonce[2] <= drawn'[e.nonce[1]] /\ e.nonce # n
  <2>1. ASSUME NEW e \in pending PROVE e.nonce \in Nonce /\ e.nonce[2] <= drawn[e.nonce[1]]
    BY Zenon DEF TypeOK, Drawn
  <2> QED BY <1>1, <2>1, Zenon
<1>3. \A x \in shares : x.nonce[2] <= drawn'[x.nonce[1]] /\ x.nonce # n
  <2>1. ASSUME NEW x \in shares PROVE x.nonce \in Nonce /\ x.nonce[2] <= drawn[x.nonce[1]]
    BY Zenon DEF TypeOK, Share, Drawn
  <2> QED BY <1>1, <2>1, Zenon
<1>4. \A l \in Slots : signer[l] # None /\ signer[l].at = "sign" =>
        signer[l].nonce \in Nonce /\ signer[l].nonce[2] <= drawn'[signer[l].nonce[1]]
        /\ signer[l].nonce # n
  BY <1>1, Zenon DEF Drawn
<1>5. \A l \in Slots : \A k : Using(l, k)' => Using(l, k) /\ k # n
  BY <1>4, Zenon DEF Using
<1>6. Drawn'
  <2>1. (\A e \in pending : e.nonce[2] <= drawn[e.nonce[1]])'
    BY <1>2, Zenon
  <2>2. (\A x \in shares : x.nonce[2] <= drawn[x.nonce[1]])'
    BY <1>3, Zenon
  <2>3. ASSUME NEW l \in Slots, signer'[l] # None, signer'[l].at = "sign"
        PROVE  signer'[l].nonce \in Nonce /\ signer'[l].nonce[2] <= drawn'[signer'[l].nonce[1]]
    BY <1>4, <2>3, Zenon
  <2> QED BY <2>1, <2>2, <2>3, Zenon DEF Drawn
<1>7. (\A e \in pending, x \in shares : e.nonce # x.nonce)'
  BY <1>3, Zenon DEF Apart
<1>8. (\A l \in Slots, e \in pending : ~Using(l, e.nonce))'
  BY <1>5, Zenon DEF Apart
<1>9. (\A l \in Slots, x \in shares : ~Using(l, x.nonce))'
  BY <1>5, Zenon DEF Apart
<1>10. ASSUME NEW k \in Slots, NEW l \in Slots, k # l, signer'[k] # None, signer'[l] # None,
              signer'[k].at = "sign", signer'[l].at = "sign", signer'[k].nonce = signer'[l].nonce
       PROVE  FALSE
  <2>1. signer'[k] = signer[k] /\ signer'[l] = signer[l]
    BY <1>10, Zenon
  <2> QED BY <1>10, <2>1, Zenon DEF Apart
<1>11. SignerNonceUsedOnce'
  BY Zenon DEF Apart, SignerNonceUsedOnce
<1> QED BY <1>6, <1>7, <1>8, <1>9, <1>10, <1>11, Zenon DEF Apart

LEMMA VerifyNonces ==
  ASSUME TypeOK, Drawn, Apart, NEW j \in Slots, NEW s \in Signers, NEW m, NEW K, NEW n,
         VerifyAndSign(j, s, m, K, n)
  PROVE  Drawn' /\ Apart'
<1> DEFINE x == [at |-> "verify", by |-> s, msg |-> m, commitments |-> K, nonce |-> n]
<1>1. signer' = [signer EXCEPT ![j] = x] /\ drawn' = drawn /\ pending' = pending /\ shares' = shares
  BY Zenon DEF VerifyAndSign
<1>2. x.at # "sign"
  OBVIOUS
<1> HIDE DEF x
<1>3. \A l \in Slots : signer'[l] = IF l = j THEN x ELSE signer[l]
  BY <1>1, Zenon DEF TypeOK
<1>4. \A l \in Slots : signer'[l] # None /\ signer'[l].at = "sign" => signer'[l] = signer[l]
  BY <1>2, <1>3, Zenon
<1> QED BY <1>1, <1>4, NoncesStay, Zenon

LEMMA VerifiedNonces ==
  ASSUME TypeOK, Drawn, Apart, NEW j \in Slots, Verified(j) PROVE Drawn' /\ Apart'
<1>1. signer[j] \in SignerCall /\ signer \in [Slots -> {None} \union SignerCall]
      /\ drawn' = drawn /\ shares' = shares /\ pending' \subseteq pending
  BY Zenon DEF Verified, TypeOK, SignerCall
<1>2. \/ signer' = [signer EXCEPT ![j] = None]
      \/ signer' = [signer EXCEPT ![j].at = "commit"]
      \/ /\ signer' = [signer EXCEPT ![j].at = "sign"]
         /\ pending' = pending \ {e \in pending : e.nonce = signer[j].nonce}
         /\ \E f \in pending : f.nonce = signer[j].nonce
  BY Zenon DEF Verified, Ended
<1>3. CASE signer' = [signer EXCEPT ![j] = None]
  <2>1. \A l \in Slots : signer'[l] # None /\ signer'[l].at = "sign" => signer'[l] = signer[l]
    BY <1>1, <1>3, Zenon
  <2> QED BY <1>1, <2>1, NoncesStay, Zenon
<1>4. CASE signer' = [signer EXCEPT ![j].at = "commit"]
  <2>1. signer'[j].at = "commit" /\ \A l \in Slots : l # j => signer'[l] = signer[l]
    BY <1>1, <1>4, Zenon DEF SignerCall
  <2>2. \A l \in Slots : signer'[l] # None /\ signer'[l].at = "sign" => signer'[l] = signer[l]
    BY <2>1, Zenon
  <2> QED BY <1>1, <2>2, NoncesStay, Zenon
<1>5. CASE /\ signer' = [signer EXCEPT ![j].at = "sign"]
           /\ pending' = pending \ {e \in pending : e.nonce = signer[j].nonce}
           /\ \E f \in pending : f.nonce = signer[j].nonce
  <2>1. PICK f \in pending : f.nonce = signer[j].nonce
    BY <1>5, Zenon
  <2>2. signer'[j].nonce = f.nonce /\ \A l \in Slots : l # j => signer'[l] = signer[l]
    BY <1>1, <1>5, <2>1, Zenon DEF SignerCall
  <2>3. pending' = pending \ {e \in pending : e.nonce = f.nonce}
    BY <1>5, <2>1, Zenon
  <2> QED BY <1>1, <2>2, <2>3, NonceTaken, Zenon
<1> QED BY <1>2, <1>3, <1>4, <1>5, Zenon

LEMMA CommittedNonces ==
  ASSUME TypeOK, Drawn, Apart, NEW j \in Slots, Committed(j) PROVE Drawn' /\ Apart'
<1>1. signer[j] \in SignerCall /\ shares' = shares /\ signer' = [signer EXCEPT ![j] = None]
  BY Zenon DEF Committed, Ended, TypeOK, SignerCall
<1>2. PICK s \in Signers, m \in Messages : s = signer[j].by /\ m = signer[j].msg
  BY <1>1, Zenon DEF SignerCall
<1>3. \/ drawn' = drawn /\ pending' = pending
      \/ /\ drawn' = [drawn EXCEPT ![s] = drawn[s] + 1]
         /\ pending' = pending \union {[nonce |-> <<s, drawn[s] + 1>>, msg |-> m]}
  BY <1>2, Zenon DEF Committed
<1>4. CASE drawn' = drawn /\ pending' = pending
  <2>1. \A l \in Slots : signer'[l] # None /\ signer'[l].at = "sign" => signer'[l] = signer[l]
    BY <1>1, Zenon DEF TypeOK
  <2> QED BY <1>1, <1>4, <2>1, NoncesStay, Zenon
<1>5. CASE /\ drawn' = [drawn EXCEPT ![s] = drawn[s] + 1]
           /\ pending' = pending \union {[nonce |-> <<s, drawn[s] + 1>>, msg |-> m]}
  <2> DEFINE f == [nonce |-> <<s, drawn[s] + 1>>, msg |-> m]
  <2>1. PICK n : n = <<s, drawn[s] + 1>>
    BY Zenon
  <2>2. drawn[s] \in Nat
    BY <1>2, Zenon DEF TypeOK
  <2>3. n \in Nonce /\ n[1] = s /\ n[2] = drawn[s] + 1
    BY <1>2, <2>1, <2>2 DEF Nonce
  <2>4. f.nonce = n /\ pending' = pending \union {f}
    BY <1>5, <2>1, Zenon
  <2> HIDE DEF f
  <2>5. drawn'[s] = drawn[s] + 1 /\ \A t \in Signers : t # s => drawn'[t] = drawn[t]
    BY <1>5, Zenon DEF TypeOK
  <2>6. \A t \in Signers : drawn'[t] \in Nat /\ drawn[t] <= drawn'[t]
    BY <2>2, <2>5 DEF TypeOK
  <2>7. drawn[n[1]] < n[2] /\ n[2] <= drawn'[n[1]]
    BY <2>2, <2>3, <2>5
  <2>8. \A l \in Slots : signer'[l] # None => signer'[l] = signer[l]
    BY <1>1, Zenon DEF TypeOK
  <2> QED BY <1>1, <2>3, <2>4, <2>6, <2>7, <2>8, NonceDrawn, Zenon
<1> QED BY <1>3, <1>4, <1>5, Zenon

LEMMA SignedNonces ==
  ASSUME TypeOK, Drawn, Apart, NEW j \in Slots, Signed(j) PROVE Drawn' /\ Apart'
<1>1. signer[j] # None /\ signer[j].at = "sign" /\ drawn' = drawn /\ pending' = pending
      /\ signer' = [signer EXCEPT ![j] = None]
  BY Zenon DEF Signed, Ended
<1>2. CASE UNCHANGED shares
  <2>1. \A l \in Slots : signer'[l] # None /\ signer'[l].at = "sign" => signer'[l] = signer[l]
    BY <1>1, Zenon DEF TypeOK
  <2> QED BY <1>1, <1>2, <2>1, NoncesStay, Zenon
<1>3. CASE \E y \in Share :
             /\ y = [nonce |-> signer[j].nonce, msg |-> signer[j].msg,
                     commitments |-> signer[j].commitments]
             /\ shares' = shares \union {y}
  <2>1. PICK y \in Share :
          /\ y = [nonce |-> signer[j].nonce, msg |-> signer[j].msg,
                  commitments |-> signer[j].commitments]
          /\ shares' = shares \union {y}
    BY <1>3, Zenon
  <2>2. y.nonce = signer[j].nonce
    BY <2>1, Zenon
  <2> QED BY <1>1, <2>1, <2>2, NonceShared, Zenon
<1> QED BY <1>2, <1>3, SignedWrites, Zenon

LEMMA NoncesStep == TypeOK /\ Drawn /\ Apart /\ [Next]_vars => Drawn' /\ Apart'
<1> SUFFICES ASSUME TypeOK, Drawn, Apart, [Next]_vars PROVE Drawn' /\ Apart'
  BY Zenon
<1>1. ASSUME UNCHANGED signerVars PROVE Drawn' /\ Apart'
  BY <1>1, NoncesStay, Zenon DEF signerVars
<1>2. ASSUME Tick \/ PostDkgInit \/ DkgStep PROVE UNCHANGED signerVars
  BY <1>2, Zenon DEF Tick, PostDkgInit, DkgStep, DkgRound1, DkgRound2, DkgRound3, SubmitDkgPackage
<1>3. ASSUME SessionStep PROVE UNCHANGED signerVars
  BY <1>3, Zenon DEF SessionStep, PostSign, PostCommitment, TryAggregate, PostShare, Aggregated
<1>4. ASSUME SignerStep PROVE Drawn' /\ Apart'
  BY <1>4, VerifyNonces, VerifiedNonces, CommittedNonces, SignedNonces, Zenon DEF SignerStep, Verify
<1>5. ASSUME UNCHANGED vars PROVE UNCHANGED signerVars
  BY <1>5, Zenon DEF vars, signerVars
<1> QED BY <1>1, <1>2, <1>3, <1>4, <1>5, NextIs, Zenon

\* createFrostSigner: "each session's nonces are consumed exactly once".  No two
\* shares of a signer have the same nonce, however calls of verifyAndSign overlap
\* and round 2 is repeated: the nonce leaves the pending ones before the await.
THEOREM SignerNonceSafe == Spec => []SignerNonceUsedOnce
<1>1. Init => Drawn /\ Apart
  BY Zenon DEF Init, Drawn, Apart, Using, SignerNonceUsedOnce
<1>2. Drawn /\ Apart => SignerNonceUsedOnce
  BY Zenon DEF Apart
<1> QED BY <1>1, <1>2, NoncesStep, SessionsTyped, PTL DEF Spec

-----------------------------------------------------------------------------
(* Key generation.                                                         *)

\* What was sent stays sent.
LEMMA SentStays ==
  ASSUME posted \subseteq posted'
  PROVE  /\ \A i, t, n : Shared(i, t, n) => Shared(i, t, n)'
         /\ \A i, key : Reported(i, key) => Reported(i, key)'
         /\ \A i, x : Kept(i, x) => Kept(i, x)'
<1>1. \A i, t, n : Shared(i, t, n) => Shared(i, t, n)'
  BY Zenon DEF Shared
<1>2. \A i, key : Reported(i, key) => Reported(i, key)'
  BY Zenon DEF Reported
<1> QED BY <1>1, <1>2, Zenon DEF Kept

\* Steps of the coordinator: each session it has is still backed by what was sent.
LEMMA DkgWritten ==
  ASSUME DkgGood, local' = local, posted' = posted,
         \A i \in Ids : dkg'[i] # None => Kept(i, dkg'[i])
  PROVE  DkgGood'
<1>1. OneAttempt'
  BY Zenon DEF DkgGood, OneAttempt
<1>2. Locals'
  BY Zenon DEF DkgGood, Locals, Shared
<1>3. KeysPosted'
  BY Zenon DEF DkgGood, KeysPosted, Shared
<1>4. ASSUME NEW i \in Ids, dkg'[i] # None PROVE Kept(i, dkg[i])'
  <2>1. PICK x : x = dkg'[i]
    BY Zenon
  <2>2. Kept(i, x)'
    BY <1>4, <2>1, SentStays, Zenon
  <2> QED BY <2>1, <2>2, Zenon DEF Kept
<1> QED BY <1>1, <1>2, <1>3, <1>4, Zenon DEF DkgGood

\* Steps of a signer: one more package, and what the signer holds now.
LEMMA RoundGood ==
  ASSUME TypeOK, DkgGood, NEW s \in Signers, NEW x, NEW p, p.from = s,
         posted' = posted \union {p}, local' = [local EXCEPT ![s] = x], dkg' = dkg,
         p.round = 2 => ~\E r \in posted : r.id = p.id /\ r.from = s /\ r.round = 2,
         p.round = 3 => p.key \in Key /\ \A t \in Signers : Shared(p.id, t, p.key[t]),
         x.done = 1 => p.round # 2 /\ ~\E r \in posted : r.id = x.id /\ r.from = s /\ r.round = 2,
         x.done >= 2 => Shared(x.id, s, x.attempt)'
  PROVE  DkgGood'
<1>1. posted \subseteq posted'
  BY Zenon
<1>2. local'[s] = x /\ \A t \in Signers : t # s => local'[t] = local[t]
  BY Zenon DEF TypeOK
<1>3. OneAttempt'
  <2>1. OneAttempt
    BY Zenon DEF DkgGood
  <2>2. ASSUME NEW r \in posted', NEW u \in posted', r.round = 2, u.round = 2, r.id = u.id, r.from = u.from
        PROVE  r.attempt = u.attempt
    <3>1. CASE r \in posted /\ u \in posted
      BY <2>1, <2>2, <3>1, Zenon DEF OneAttempt
    <3>2. CASE r = p
      BY <2>2, <3>2, Zenon
    <3>3. CASE u = p
      BY <2>2, <3>3, Zenon
    <3> QED BY <3>1, <3>2, <3>3, Zenon
  <2> QED BY <2>2, Zenon DEF OneAttempt
<1>4. Locals'
  <2>1. ASSUME NEW t \in Signers
        PROVE  (/\ local[t].done = 1 =>
                     ~\E r \in posted : r.id = local[t].id /\ r.from = t /\ r.round = 2
                /\ local[t].done >= 2 => Shared(local[t].id, t, local[t].attempt))'
    <3>1. PICK y : y = local'[t]
      BY Zenon
    <3>2. CASE t = s
      <4>1. y = x
        BY <1>2, <3>1, <3>2, Zenon
      <4>2. y.done = 1 => ~\E r \in posted' : r.id = y.id /\ r.from = t /\ r.round = 2
        BY <3>2, <4>1, Zenon
      <4>3. y.done >= 2 => Shared(y.id, t, y.attempt)'
        BY <3>2, <4>1, Zenon
      <4> QED BY <3>1, <4>2, <4>3, Zenon DEF Shared
    <3>3. CASE t # s
      <4>1. y = local[t]
        BY <1>2, <3>1, <3>3, Zenon
      <4>2. y.done = 1 => ~\E r \in posted' : r.id = y.id /\ r.from = t /\ r.round = 2
        BY <3>3, <4>1, Zenon DEF DkgGood, Locals
      <4>3. y.done >= 2 => Shared(y.id, t, y.attempt)
        BY <4>1, Zenon DEF DkgGood, Locals
      <4>4. y.done >= 2 => Shared(y.id, t, y.attempt)'
        BY <1>1, <4>3, SentStays, Zenon
      <4> QED BY <3>1, <4>2, <4>4, Zenon DEF Shared
    <3> QED BY <3>2, <3>3, Zenon
  <2> QED BY <2>1, Zenon DEF Locals
<1>5. KeysPosted'
  BY <1>1, SentStays, Zenon DEF DkgGood, KeysPosted
<1>6. ASSUME NEW i \in Ids, dkg'[i] # None PROVE Kept(i, dkg[i])'
  <2>1. PICK y : y = dkg'[i] /\ y = dkg[i]
    BY Zenon
  <2>2. Kept(i, y)'
    BY <1>1, <1>6, <2>1, SentStays, Zenon DEF DkgGood
  <2> QED BY <2>1, <2>2, Zenon DEF Kept
<1> QED BY <1>3, <1>4, <1>5, <1>6, Zenon DEF DkgGood

LEMMA DkgRound1Good ==
  ASSUME TypeOK, DkgGood, NEW s \in Signers, NEW i \in Ids, DkgRound1(s, i) PROVE DkgGood'
<1> DEFINE n == FreshSecret(s)
           x == [id |-> i, attempt |-> n, done |-> 1]
           p == [id |-> i, round |-> 1, from |-> s, attempt |-> n, key |-> None]
<1>1. /\ local' = [local EXCEPT ![s] = x] /\ posted' = posted \union {p} /\ dkg' = dkg
      /\ ~\E r \in posted : r.id = i /\ r.from = s /\ r.round = 2
  BY Zenon DEF DkgRound1, Post
<1>2. x.id = i /\ x.done = 1 /\ p.from = s /\ p.round = 1
  BY Zenon
<1> HIDE DEF n, x, p
<1>3. p.round # 2 /\ p.round # 3 /\ ~(x.done >= 2)
  BY <1>2
<1>4. x.done = 1 => p.round # 2 /\ ~\E r \in posted : r.id = x.id /\ r.from = s /\ r.round = 2
  BY <1>1, <1>2, <1>3, Zenon
<1> QED BY <1>1, <1>2, <1>3, <1>4, RoundGood, Zenon

LEMMA DkgRound2Good ==
  ASSUME TypeOK, DkgGood, NEW s \in Signers, DkgRound2(s) PROVE DkgGood'
<1>1. PICK h \in Local : h = local[s]
  BY LocalTyped, Zenon
<1> DEFINE x == [h EXCEPT !.done = 2]
           p == [id |-> h.id, round |-> 2, from |-> s, attempt |-> h.attempt, key |-> None]
<1>2. /\ h.done = 1 /\ posted' = posted \union {p} /\ dkg' = dkg
      /\ local' = [local EXCEPT ![s] = x]
  BY <1>1, Zenon DEF DkgRound2, Post
<1>3. x.id = h.id /\ x.attempt = h.attempt /\ x.done = 2
  BY Zenon DEF Local
<1>4. p.id = h.id /\ p.from = s /\ p.round = 2 /\ p.attempt = h.attempt
  BY Zenon
<1> HIDE DEF x, p
<1>5. ~\E r \in posted : r.id = h.id /\ r.from = s /\ r.round = 2
  BY <1>1, <1>2, Zenon DEF DkgGood, Locals
<1>6. p \in posted'
  BY <1>2, Zenon
<1>7. Shared(x.id, s, x.attempt)'
  BY <1>3, <1>4, <1>6, Zenon DEF Shared
<1>8. p.round # 3 /\ x.done # 1
  BY <1>3, <1>4
<1> QED BY <1>2, <1>4, <1>5, <1>7, <1>8, RoundGood, Zenon

\* dkg_round3: the key rests on the shares that everyone sent.
LEMMA DkgRound3Good ==
  ASSUME TypeOK, Begun, DkgGood, NEW s \in Signers, DkgRound3(s) PROVE DkgGood'
<1>1. PICK h \in Local : h = local[s]
  BY LocalTyped, Zenon
<1>2. PICK session : session = dkg[h.id]
  BY Zenon
<1>3. PICK key : key = GroupKey(session, s)
  BY Zenon
<1> DEFINE x == [h EXCEPT !.done = 3]
           p == [id |-> h.id, round |-> 3, from |-> s, attempt |-> h.attempt, key |-> key]
<1>4. /\ h.done = 2 /\ session # None /\ posted' = posted \union {p} /\ dkg' = dkg
      /\ local' = [local EXCEPT ![s] = x]
      /\ \A t \in Signers \ {s} : session.round1[t] # 0 /\ session.round2[t] # 0
  BY <1>1, <1>2, <1>3, Zenon DEF DkgRound3, Post
<1>5. CanFinish(session, s)
  BY <1>1, <1>2, Zenon DEF DkgRound3, runFrostCommand
<1>6. x.id = h.id /\ x.attempt = h.attempt /\ x.done = 3
  BY Zenon DEF Local
<1>7. p.id = h.id /\ p.from = s /\ p.round = 3 /\ p.key = key
  BY Zenon
<1> HIDE DEF x, p
<1>8. h.id \in Ids
  BY <1>1, <1>4 DEF Begun
<1>9. session \in DkgSession /\ Kept(h.id, session)
  BY <1>2, <1>4, <1>8, Zenon DEF TypeOK, DkgGood
<1>10. key \in Key
  BY <1>3, <1>9, KeyTyped, Zenon
<1>11. Shared(h.id, s, h.attempt)
  <2>1. h.done >= 2
    BY <1>4
  <2> QED BY <1>1, <2>1, Zenon DEF DkgGood, Locals
<1>12. ASSUME NEW t \in Signers PROVE Shared(h.id, t, key[t])
  <2>1. CASE t = s
    <3>1. key[t] = h.attempt
      BY <1>1, <1>3, <2>1, Zenon DEF GroupKey
    <3> QED BY <1>11, <2>1, <3>1, Zenon
  <2>2. CASE t # s
    <3>1. key[t] = session.round1[t]
      BY <1>3, <2>2, Zenon DEF GroupKey
    <3>2. session.round1[t] = session.round2[t] /\ session.round2[t] # 0
      BY <1>4, <1>5, <2>2, Zenon DEF CanFinish
    <3> QED BY <1>9, <3>1, <3>2, Zenon DEF Kept
  <2> QED BY <2>1, <2>2, Zenon
<1>13. Shared(x.id, s, x.attempt)'
  <2>1. posted \subseteq posted'
    BY <1>4, Zenon
  <2>2. Shared(h.id, s, h.attempt)'
    BY <1>11, <2>1, SentStays, Zenon
  <2> QED BY <1>6, <2>2, Zenon DEF Shared
<1>14. p.round # 2 /\ x.done # 1
  BY <1>6, <1>7
<1>15. p.key \in Key /\ \A t \in Signers : Shared(p.id, t, p.key[t])
  BY <1>7, <1>10, <1>12, Zenon
<1> QED BY <1>4, <1>7, <1>13, <1>14, <1>15, RoundGood, Zenon

\* submitDkgPackage: what the session takes was sent.
LEMMA TakenGood ==
  ASSUME DkgGood, NEW x \in DkgSession, NEW p \in Package, p \in posted, Kept(p.id, x)
  PROVE  Kept(p.id, Taken(x, p))
<1>1. PICK y \in DkgSession : y = Taken(x, p)
  BY TakenTyped, Zenon
<1>2. p.from \in Signers /\ p.round \in 1..3
  BY Zenon DEF Package
<1>3. CASE p.round = 1
  <2>1. y = [x EXCEPT !.round1[p.from] = p.attempt]
    BY <1>1, <1>3 DEF Taken
  <2>2. y.round2 = x.round2 /\ y.keys = x.keys /\ y.group = x.group
    BY <2>1, Zenon DEF DkgSession
  <2> QED BY <1>1, <2>2, Zenon DEF Kept
<1>4. CASE p.round = 2
  <2>1. y = [x EXCEPT !.round2[p.from] = p.attempt]
    BY <1>1, <1>4 DEF Taken
  <2>2. y.keys = x.keys /\ y.group = x.group /\ y.round2[p.from] = p.attempt
        /\ \A t \in Signers : t # p.from => y.round2[t] = x.round2[t]
    BY <1>2, <2>1, Zenon DEF DkgSession
  <2>3. Shared(p.id, p.from, p.attempt)
    BY <1>4, Zenon DEF Shared
  <2>4. ASSUME NEW t \in Signers, y.round2[t] # 0 PROVE Shared(p.id, t, y.round2[t])
    <3>1. CASE t = p.from
      BY <2>2, <2>3, <3>1, Zenon
    <3>2. CASE t # p.from
      BY <2>2, <2>4, <3>2, Zenon DEF Kept
    <3> QED BY <3>1, <3>2, Zenon
  <2> QED BY <1>1, <2>2, <2>4, Zenon DEF Kept
<1>5. CASE p.round = 3
  <2>1. y = [x EXCEPT !.keys[p.from] = p.key, !.group = IF @ = None THEN p.key ELSE @]
    BY <1>1, <1>5 DEF Taken
  <2>2. y.round2 = x.round2 /\ y.group = (IF x.group = None THEN p.key ELSE x.group)
    BY <2>1, Zenon DEF DkgSession
  <2>3. y.keys[p.from] = p.key /\ \A t \in Signers : t # p.from => y.keys[t] = x.keys[t]
    BY <1>2, <2>1 DEF DkgSession
  <2>4. Reported(p.id, p.key)
    BY <1>5, Zenon DEF Reported
  <2>5. y.group # None => Reported(p.id, y.group)
    BY <2>2, <2>4, Zenon DEF Kept
  <2>6. ASSUME NEW t \in Signers, y.keys[t] # None
        PROVE  Reported(p.id, y.keys[t]) /\ y.group # None
    <3>1. CASE t = p.from
      BY <2>2, <2>3, <2>4, <2>6, <3>1, Zenon
    <3>2. CASE t # p.from
      BY <2>2, <2>3, <2>6, <3>2, Zenon DEF Kept
    <3> QED BY <3>1, <3>2, Zenon
  <2>7. \A t \in Signers : y.round2[t] # 0 => Shared(p.id, t, y.round2[t])
    BY <2>2, Zenon DEF Kept
  <2> QED BY <1>1, <2>5, <2>6, <2>7, Zenon DEF Kept
<1> QED BY <1>2, <1>3, <1>4, <1>5

LEMMA SubmitGood ==
  ASSUME TypeOK, DkgGood, NEW p \in posted, SubmitDkgPackage(p) PROVE DkgGood'
<1>1. p \in Package /\ p.id \in Ids /\ dkg[p.id] \in DkgSession
      /\ dkg' = [dkg EXCEPT ![p.id] = Accept(dkg[p.id], p)]
  BY SubmitTyped, Zenon
<1>2. local' = local /\ posted' = posted /\ dkg[p.id] # None
  BY Zenon DEF SubmitDkgPackage
<1>3. PICK x \in DkgSession : x = dkg[p.id]
  BY <1>1, Zenon
<1>4. Kept(p.id, x)
  BY <1>1, <1>2, <1>3, Zenon DEF DkgGood
<1>5. Kept(p.id, Taken(x, p))
  BY <1>1, <1>4, TakenGood, Zenon
<1>6. Kept(p.id, Accept(x, p))
  BY <1>1, <1>5, AcceptTyped, Zenon DEF Kept
<1>7. PICK y : y = Accept(x, p)
  BY Zenon
<1>8. \A i \in Ids : dkg'[i] = IF i = p.id THEN y ELSE dkg[i]
  BY <1>1, <1>3, <1>7, Zenon DEF TypeOK
<1>9. \A i \in Ids : dkg'[i] # None => Kept(i, dkg'[i])
  BY <1>6, <1>7, <1>8, Zenon DEF DkgGood
<1> QED BY <1>2, <1>9, DkgWritten, Zenon

\* evictStaleSessions: a session is dropped or left as it is.
LEMMA KeptDkgGood ==
  ASSUME DkgGood
  PROVE  \A i \in Ids : KeptDkg[i] # None => Kept(i, KeptDkg[i])
  BY Zenon DEF DkgGood, KeptDkg

LEMMA DkgInitGood == ASSUME TypeOK, DkgGood, PostDkgInit PROVE DkgGood'
<1>1. PICK id : id = started["dkg"] + 1
  BY Zenon
<1> DEFINE x == [round |-> 0, round1 |-> [s \in Signers |-> 0], round2 |-> [s \in Signers |-> 0],
      keys |-> [s \in Signers |-> None], group |-> None, created |-> now]
<1>2. dkg' = [KeptDkg EXCEPT ![id] = x] /\ local' = local /\ posted' = posted
  BY <1>1, Zenon DEF PostDkgInit, InitDkg
<1>3. Kept(id, x)
  BY Zenon DEF Kept
<1> HIDE DEF x
<1>4. KeptDkg \in [Ids -> DkgSession \union {None}]
  BY TypesTogether, KeptTyped, Zenon
<1>5. \A i \in Ids : dkg'[i] = IF i = id THEN x ELSE KeptDkg[i]
  BY <1>2, <1>4, Zenon
<1>6. \A i \in Ids : dkg'[i] # None => Kept(i, dkg'[i])
  BY <1>3, <1>5, KeptDkgGood, Zenon
<1> QED BY <1>2, <1>6, DkgWritten, Zenon

LEMMA KeysStep == TypeOK /\ Begun /\ DkgGood /\ [Next]_vars => DkgGood'
<1> SUFFICES ASSUME TypeOK, Begun, DkgGood, [Next]_vars PROVE DkgGood'
  BY Zenon
<1>1. ASSUME UNCHANGED dkgVars PROVE DkgGood'
  <2>1. dkg' = dkg /\ local' = local /\ posted' = posted
    BY <1>1, Zenon DEF dkgVars
  <2>2. \A i \in Ids : dkg'[i] # None => Kept(i, dkg'[i])
    BY <2>1, Zenon DEF DkgGood
  <2> QED BY <2>1, <2>2, DkgWritten, Zenon
<1>2. ASSUME Tick \/ SignerStep \/ UNCHANGED vars PROVE UNCHANGED dkgVars
  BY <1>2, Zenon DEF Tick, SignerStep, Verify, VerifyAndSign, Verified, Committed, Signed, vars, dkgVars
<1>3. ASSUME NEW q \in scene.queries, NEW m \in scene.messages, PostSign(q, m) PROVE DkgGood'
  <2>1. dkg' = KeptDkg /\ local' = local /\ posted' = posted
    BY <1>3, Zenon DEF PostSign, StartSigning
  <2>2. \A i \in Ids : dkg'[i] # None => Kept(i, dkg'[i])
    BY <2>1, KeptDkgGood, Zenon
  <2> QED BY <2>1, <2>2, DkgWritten, Zenon
<1>4. ASSUME SessionStep PROVE DkgGood'
  BY <1>1, <1>3, <1>4, Zenon DEF SessionStep, PostCommitment, TryAggregate, PostShare, Aggregated
<1>5. ASSUME DkgStep PROVE DkgGood'
  BY <1>5, DkgRound1Good, DkgRound2Good, DkgRound3Good, SubmitGood, Zenon DEF DkgStep
<1> QED BY <1>1, <1>2, <1>4, <1>5, DkgInitGood, NextIs, Zenon

\* Two keys reported in a session rest on the same attempts.
LEMMA OneKey ==
  ASSUME DkgGood, NEW i, NEW a, NEW b, Reported(i, a), Reported(i, b) PROVE a = b
<1>1. /\ a \in Key /\ \A t \in Signers : Shared(i, t, a[t])
      /\ b \in Key /\ \A t \in Signers : Shared(i, t, b[t])
  BY Zenon DEF DkgGood, KeysPosted, Reported
<1>2. ASSUME NEW t \in Signers PROVE a[t] = b[t]
  <2>1. Shared(i, t, a[t]) /\ Shared(i, t, b[t])
    BY <1>1, Zenon
  <2> QED BY <2>1, Zenon DEF DkgGood, OneAttempt, Shared
<1> QED BY <1>1, <1>2 DEF Key

\* dkgRound, submitDkgPackage: once every signer of a session has its key, all
\* have the same one and the session reports it, for every group and however
\* packages are delayed, repeated and begun again.
THEOREM KeysSafe == Spec => []KeysAgree
<1>1. Init => DkgGood
  <2> SUFFICES ASSUME Init PROVE DkgGood
    BY Zenon
  <2>1. OneAttempt /\ KeysPosted /\ \A i \in Ids : dkg[i] # None => Kept(i, dkg[i])
    BY Zenon DEF Init, OneAttempt, KeysPosted
  <2>2. Locals
    BY DEF Init, Locals
  <2> QED BY <2>1, <2>2, Zenon DEF DkgGood
<1>2. DkgGood => KeysAgree
  <2> SUFFICES ASSUME DkgGood, NEW i \in Ids, dkg[i] # None, AllIn(dkg[i].keys, None), NEW s \in Signers
               PROVE  dkg[i].keys[s] = dkg[i].group
    BY Zenon DEF KeysAgree
  <2>1. dkg[i].keys[s] # None /\ Kept(i, dkg[i])
    BY Zenon DEF AllIn, DkgGood
  <2>2. Reported(i, dkg[i].keys[s]) /\ Reported(i, dkg[i].group)
    BY <2>1, Zenon DEF Kept
  <2> QED BY <2>2, OneKey, Zenon
<1> QED BY <1>1, <1>2, KeysStep, SessionsTyped, PTL DEF Spec
=============================================================================
