------------------------- MODULE ProofVerification --------------------------
(***************************************************************************)
(* verifyProof (proofs/verification/verifier.ts) in one process: TLSNotary *)
(* and photo evidence, dispatched by the schema of the requirement; and    *)
(* the provers that make the TLSNotary presentations.                      *)
(***************************************************************************)
EXTENDS TlsnVerification, PhotoEvidence, TlsnNotary

vars == <<setup, now, tlsnVars, photoVars, notaryVars>>

\* about: the schema whose evidence is verified, or the making of presentations.
\* The rest is described where it is used.
Setup == [about : {"tlsn", "photo", "notary"}, until : Clock, uses : Nat,
          verifier : BOOLEAN, proof : [Presentations -> Proof], needs : SUBSET Requirement,
          photo : [Photos -> Photo], offered : SUBSET Photos, external : SUBSET Photos, servers : SUBSET Servers,
          schema : {"c2pa", "generic", "unknown"}, tool : BOOLEAN, keys : BOOLEAN,
          expected : BOOLEAN, hint : BOOLEAN, uri : Uri, localhost : BOOLEAN,
          transport : [Provers -> {"tcp", "ws", "local"}], length : Nat \ {0}, redact : SUBSET SUBSET ByteRange(MaxLength)]

ASSUME SetupAssumption == Setups \subseteq Setup

TypeOK == now \in Clock /\ TlsnTypeOK /\ PhotoTypeOK /\ NotaryTypeOK

Init == setup \in Setups /\ now = 0 /\ TlsnInit /\ PhotoInit /\ NotaryInit

\* A registered bundle's checks run over the evidence.
VerifyProof ==
  \/ setup.about = "tlsn" /\ TlsnNext /\ UNCHANGED <<photoVars, notaryVars>>
  \/ setup.about = "photo" /\ PhotoNext /\ UNCHANGED <<tlsnVars, notaryVars>>

MakeProof == setup.about = "notary" /\ NotaryNext /\ UNCHANGED <<setup, now, tlsnVars, photoVars>>

Next ==
  \/ VerifyProof \/ MakeProof
  \/ Tick /\ UNCHANGED <<setup, tlsnVars, photoVars, notaryVars>>

Spec == Init /\ [][Next]_vars
=============================================================================
