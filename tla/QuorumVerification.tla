------------------------- MODULE QuorumVerification -------------------------
(***************************************************************************)
(* Oracle resolution and verdicts: adapters/oracle-client/registry.ts and  *)
(* requests/application/query-verification.ts.  An oracle's own answer is  *)
(* any Boolean; what is modelled is which oracles are asked and how their  *)
(* answers become one verdict.  An attestation list is the set of its      *)
(* entries, each with the position (at) of the oracle in the list walked.  *)
(***************************************************************************)
EXTENDS Naturals, FiniteSets, Sequences

CONSTANTS Registry,   \* registered oracle ids, in registration order
          None        \* the absent optional value

Registered == {Registry[i] : i \in 1..Len(Registry)}

Lookup(o) == IF o \in Registered THEN o ELSE None

Mentions(list, o) == \E i \in 1..Len(list) : list[i] = o

\* registry.resolve(oracleId, acceptableIds).
Resolve(oracleId, acceptable) ==
  CASE oracleId # None /\ acceptable # <<>> /\ ~Mentions(acceptable, oracleId) -> None
    [] oracleId # None /\ (acceptable = <<>> \/ Mentions(acceptable, oracleId)) ->
         Lookup(oracleId)
    [] oracleId = None /\ Len(acceptable) = 1 -> Lookup(acceptable[1])
    [] OTHER -> None

\* The positions resolveMultiple keeps: the registered ones, until count.
AskedAt(list, count) ==
  LET known(n) == {i \in 1..n : list[i] \in Registered}
  IN  {i \in known(Len(list)) : Cardinality(known(i)) <= count}

NoAttestation == [passed |-> FALSE, attestations |-> {}]

Attestation(i, o, p) == [at |-> i, oracle |-> o, passed |-> p]

\* verifySingleOracle: no oracle resolved means failed, with no attestation.
SingleVerdicts(acceptable, oracleId) ==
  LET o == Resolve(IF acceptable # <<>> THEN oracleId ELSE None, acceptable)
  IN  IF o = None
      THEN {NoAttestation}
      ELSE {[passed |-> p, attestations |-> {Attestation(1, o, p)}] : p \in BOOLEAN}

Approvals(attestations) == Cardinality({a \in attestations : a.passed})

\* Mutant of QuorumOutcome: one approval is enough.
QuorumOutcomeAny(attestations, minApprovals) ==
  [passed |-> Approvals(attestations) > 0, attestations |-> attestations]

QuorumOutcome(attestations, minApprovals) ==
  [passed |-> Approvals(attestations) >= minApprovals, attestations |-> attestations]

\* verifyQuorum: asks two oracles more than needed, and counts who passed.
QuorumVerdicts(acceptable, minApprovals) ==
  LET list == IF acceptable # <<>> THEN acceptable ELSE Registry
      asked == AskedAt(list, minApprovals + 2)
  IN  IF Cardinality(asked) < minApprovals
      THEN {NoAttestation}
      ELSE { QuorumOutcome({Attestation(i, list[i], i \in pass) : i \in asked},
                           minApprovals) : pass \in SUBSET asked }

\* verifyWithQuorum: every verdict the oracles' answers can produce.
Verdicts(quorum, acceptable, oracleId) ==
  IF quorum = None
  THEN SingleVerdicts(acceptable, oracleId)
  ELSE QuorumVerdicts(acceptable, quorum)
=============================================================================
