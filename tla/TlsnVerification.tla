-------------------------- MODULE TlsnVerification --------------------------
(***************************************************************************)
(* TLSNotary evidence: validateTlsn and its verifier process               *)
(* (proofs/tlsn-validation.ts), the bounded replay guard                   *)
(* (proofs/replay-guard.ts) and the TLSNotary check of verifyProof         *)
(* (proofs/verification/checks/tlsn.ts).  A validation is suspended while  *)
(* the verifier process runs; others run meanwhile.                        *)
(***************************************************************************)
EXTENDS VerifierHost, Sequences, FiniteSets

CONSTANTS
  Presentations,
  Retention,    \* retentionMs of the replay guard
  MaxEntries    \* maxEntries of the replay guard

VARIABLES
  seen,         \* the guard's map, in insertion order
  validations,  \* validateTlsn calls waiting for the verifier process
  used          \* history: signed presentations, in the order they were marked

tlsnVars == <<seen, validations, used>>

ASSUME GuardAssumption ==
  IsFiniteSet(Presentations) /\ Retention \in Nat /\ MaxEntries \in Nat \ {0}

\* What a condition asks of the revealed body, and what the body has: does it
\* include the text, match the pattern, parse as JSON, and what is at the path?
Condition == [type : {"contains", "regex", "jsonpath", "other"},
              pattern : {"plain", "long", "suspicious", "malformed"}, expected : BOOLEAN]
Body == [includes : BOOLEAN, matches : BOOLEAN, json : BOOLEAN,
         value : {"absent", "right", "wrong"}]

\* A presentation: is it signed, and what it proves about which session.
Proof == [signed : BOOLEAN, server : {"target", "other"}, time : Clock \union {None}, body : Body]

\* host: domain_hint or the host of target_url, None when that has none.
Requirement == [host : {"target", None}, maxAge : Nat, conditions : SUBSET Condition]

Evidence == {"attestation", "extension", "extension without presentation", "malformed", "missing"}

Validation == [p : Presentations, need : Requirement, since : Nat]

TlsnTypeOK ==
  /\ seen \in Seq([key : Presentations, at : Clock]) /\ Len(seen) <= MaxEntries
  /\ validations \in [Slots -> Validation \union {None}]
  /\ used \in Seq([p : Presentations, need : Requirement, since : Nat, at : Clock,
                   passed : BOOLEAN])

TlsnInit == seen = <<>> /\ validations = [c \in Slots |-> None] /\ used = <<>>

-----------------------------------------------------------------------------
(* The replay guard.                                                       *)

\* The entries from the first one that is young enough.
Aged(map) ==
  LET young == {i \in 1..Len(map) : map[i].at + Retention >= now}
  IN IF young = {} THEN <<>>
     ELSE SubSeq(map, CHOOSE i \in young : \A j \in young : i <= j, Len(map))

\* The foremost entries above the cap go.
Capped(map, cap) ==
  IF Len(map) > cap THEN SubSeq(map, Len(map) - cap + 1, Len(map)) ELSE map

\* Mutant of Evict: an entry goes when the map is full, not when it overflows.
EvictEarly(map) == Capped(Aged(map), MaxEntries - 1)

\* evict
Evict(map) == Capped(Aged(map), MaxEntries)

Has(map, p) == \E i \in 1..Len(map) : map[i].key = p

\* seen.set: a key that is there keeps its place and gets a new time.
Remember(map, p) ==
  IF Has(map, p)
  THEN [i \in 1..Len(map) |-> IF map[i].key = p THEN [map[i] EXCEPT !.at = now] ELSE map[i]]
  ELSE Append(map, [key |-> p, at |-> now])

-----------------------------------------------------------------------------
(* What is asked of a verified presentation.                               *)

\* isSuspiciousRegex and the limit on length: such patterns are not tried, and
\* malformed ones cannot be.
Tried(pattern) == pattern \notin {"long", "suspicious", "malformed"}

\* Mutant of EvaluateCondition: a value at the path is enough.
EvaluateConditionPresent(condition, body) ==
  CASE condition.type = "contains" -> body.includes
    [] condition.type = "regex" -> Tried(condition.pattern) /\ body.matches
    [] condition.type = "jsonpath" -> body.json /\ body.value # "absent"
    [] OTHER -> FALSE

\* evaluateCondition: text that is not JSON has no path.
EvaluateCondition(condition, body) ==
  CASE condition.type = "contains" -> body.includes
    [] condition.type = "regex" -> Tried(condition.pattern) /\ body.matches
    [] condition.type = "jsonpath" ->
         body.json /\ body.value # "absent" /\ (condition.expected => body.value = "right")
    [] OTHER -> FALSE

\* The server name matches; a requirement without a host is not held against it.
ServerMatches(proof, need) == need.host = None \/ proof.server = need.host

\* An attestation with no time, from the future, or as old as the limit is stale.
Fresh(time, need) == time # None /\ time <= now /\ now - time < need.maxAge

\* No failure is added.
Satisfies(proof, need) ==
  /\ ServerMatches(proof, need)
  /\ Fresh(proof.time, need)
  /\ \A condition \in need.conditions : EvaluateCondition(condition, proof.body)

-----------------------------------------------------------------------------
(* Validation.                                                             *)

\* setup.uses bounds the presentations that get past the signature check.

\* verifyTlsn: the evidence has a presentation that goes to validateTlsn.
Presented(evidence) == evidence \in {"attestation", "extension"}

\* The TLSNotary check up to the verifier process.  Evidence without a
\* presentation, a replay, and a host without the verifier binary all fail here.
ValidateTlsn(c, p, need, evidence) ==
  /\ validations[c] = None /\ Len(used) < setup.uses
  /\ IF Presented(evidence)
     THEN /\ seen' = Evict(seen)
          /\ validations' =
               IF Has(seen', p) \/ ~setup.verifier THEN validations
               ELSE [validations EXCEPT ![c] = [p |-> p, need |-> need, since |-> Len(used)]]
     ELSE UNCHANGED <<seen, validations>>
  /\ UNCHANGED <<setup, now, used>>

\* The verifier process reports a valid signature; whatever else is wrong with
\* it, the presentation is marked as used.
VerifierExits(c) ==
  /\ validations[c] # None /\ Len(used) < setup.uses
  /\ LET v == validations[c] IN
       /\ setup.proof[v.p].signed
       /\ used' = Append(used, [p |-> v.p, need |-> v.need, since |-> v.since, at |-> now,
                                passed |-> Satisfies(setup.proof[v.p], v.need)])
       /\ seen' = Evict(Remember(seen, v.p))
  /\ validations' = [validations EXCEPT ![c] = None]
  /\ UNCHANGED <<setup, now>>

\* The signature is invalid, or the process exits with an error, prints nothing
\* readable, cannot be started, or is killed after 60 seconds: the check fails.
VerifierFails(c) ==
  /\ validations[c] # None
  /\ validations' = [validations EXCEPT ![c] = None]
  /\ UNCHANGED <<setup, now, seen, used>>

TlsnNext ==
  \E c \in Slots :
    \/ VerifierExits(c) \/ VerifierFails(c)
    \/ \E p \in Presentations, need \in setup.needs, evidence \in Evidence :
         ValidateTlsn(c, p, need, evidence)

-----------------------------------------------------------------------------
(* Properties.                                                             *)

\* validateTlsn: whatever passes was signed, is from the host the requirement
\* names, was of the right age when it was judged (not when it was received),
\* and its body shows what every condition asks for.
AcceptedIsSound ==
  \A i \in 1..Len(used) : used[i].passed =>
    LET proof == setup.proof[used[i].p]  need == used[i].need IN
      /\ proof.signed
      /\ need.host # None => proof.server = need.host
      /\ proof.time # None /\ used[i].at - proof.time \in 0..(need.maxAge - 1)
      /\ \A q \in need.conditions :
           \/ q.type = "contains" /\ proof.body.includes
           \/ q.type = "regex" /\ q.pattern = "plain" /\ proof.body.matches
           \/ q.type = "jsonpath" /\ proof.body.json
              /\ proof.body.value \in IF q.expected THEN {"right"} ELSE {"right", "wrong"}

\* replay-guard.ts: "once an entry ages out, the freshness check is what rejects
\* the replayed proof".  A presentation passes a second time only if the two
\* validations overlapped, the maximal age exceeds the guard's retention, or so
\* many others were used meanwhile that the guard dropped it.
PresentationPassesOnce ==
  \A i, j \in 1..Len(used) :
    /\ i < j /\ used[i].p = used[j].p /\ used[i].passed /\ used[j].passed
    /\ used[j].since >= i /\ used[j].need.maxAge <= Retention
    => Cardinality({used[k].p : k \in 1..used[j].since} \ {used[j].p}) >= MaxEntries
=============================================================================
