------------------------ MODULE MCProofVerification -------------------------
(* Small situations for proof verification: constants only.                *)
EXTENDS ProofVerification, TLC

CONSTANTS p1, p2, p3, x, y, s1, s2, c1, c2, r1, r2, t1, t2

Symmetry == Permutations({c1, c2}) \union Permutations({s1, s2}) \union Permutations({r1, r2})

Shown == [includes |-> TRUE, matches |-> TRUE, json |-> TRUE, value |-> "wrong"]
Genuine == [signed |-> TRUE, server |-> "target", time |-> 0, body |-> Shown]
Recent == [host |-> "target", maxAge |-> 2, conditions |-> {}]
Asks(type, pattern, expected) == [type |-> type, pattern |-> pattern, expected |-> expected]

Good == [image |-> TRUE, zip |-> FALSE, manifest |-> "valid", gps |-> "near", exif |-> "absent",
         json |-> "absent", jsonGps |-> "none", pgp |-> "absent"]
Signed == [Good EXCEPT !.zip = TRUE, !.json = "matches", !.pgp = "good"]
Https == [parses |-> TRUE, credentials |-> FALSE, loopback |-> FALSE, scheme |-> "https",
          private |-> FALSE]

Base == [about |-> "tlsn", until |-> 3, uses |-> 2, verifier |-> TRUE, proof |-> [p \in Presentations |-> Genuine],
         needs |-> {Recent},
         photo |-> [p \in Photos |-> Good], offered |-> Photos, external |-> {}, servers |-> Servers,
         schema |-> "c2pa", tool |-> TRUE, keys |-> TRUE, expected |-> TRUE, hint |-> TRUE,
         uri |-> Https, localhost |-> FALSE,
         transport |-> [p \in Provers |-> "local"], length |-> MaxLength, redact |-> {{}}]

\* Replays; presentations with one thing wrong; conditions.
TlsnSetups ==
  {[Base EXCEPT !.uses = 4],
   [Base EXCEPT !.verifier = FALSE],
   [Base EXCEPT !.proof = p1 :> [Genuine EXCEPT !.signed = FALSE]
                          @@ p2 :> [Genuine EXCEPT !.server = "other"]
                          @@ p3 :> [Genuine EXCEPT !.time = None],
                !.needs = {Recent, [Recent EXCEPT !.host = None]}],
   [Base EXCEPT !.proof = [p \in Presentations |->
                             [Genuine EXCEPT !.body.value = IF p = p1 THEN "wrong" ELSE "right",
                                             !.body.json = p # p3]],
                !.needs = {[Recent EXCEPT !.conditions = {q}] :
                             q \in {Asks("jsonpath", "plain", TRUE), Asks("regex", "long", TRUE),
                                    Asks("contains", "plain", TRUE), Asks("other", "plain", TRUE)}}]}

Photographs(a, b) == x :> a @@ y :> b
Photo0 == [Base EXCEPT !.about = "photo", !.until = 1, !.uses = 1, !.servers = {s1}]

\* Photos of every quality, given by URI or uploaded; blobs on two servers;
\* overlapping uploads of bundles; a host without tool or keys; other schemas.
PhotoSetups ==
  {[Photo0 EXCEPT !.photo = Photographs(Good, bad), !.expected = bad.manifest # "tampered"] :
     bad \in {[Good EXCEPT !.gps = "far", !.exif = "far"], [Good EXCEPT !.manifest = "tampered"],
              [Good EXCEPT !.image = FALSE, !.manifest = "none"]}}
  \union
  {[Photo0 EXCEPT !.servers = Servers, !.offered = {x}],
   [Photo0 EXCEPT !.uses = 2, !.schema = "unknown",
                  !.photo = Photographs(Signed, [Signed EXCEPT !.pgp = "bad"])],
   [Photo0 EXCEPT !.photo = Photographs([Good EXCEPT !.zip = TRUE, !.json = "differs"],
                                        [Good EXCEPT !.zip = TRUE, !.jsonGps = "far"])],
   [Photo0 EXCEPT !.tool = FALSE, !.offered = {x}, !.photo[x].manifest = "none"],
   [Photo0 EXCEPT !.keys = FALSE, !.offered = {x}],
   [Photo0 EXCEPT !.external = {x, y}, !.servers = {},
                  !.photo = Photographs([Good EXCEPT !.manifest = "inactive"],
                                        [Good EXCEPT !.manifest = "unsigned"])],
   [Photo0 EXCEPT !.external = {x}, !.servers = {}, !.uri.loopback = TRUE],
   [Photo0 EXCEPT !.schema = "generic", !.external = {x}, !.servers = {}],
   [Photo0 EXCEPT !.schema = "unknown", !.external = {x}, !.servers = {}]}

Notary0 == [Base EXCEPT !.about = "notary", !.until = 0]
HeaderValues == {r \in ByteRange(MaxLength) : 0 < r.start /\ r.start < r.end /\ r.end < MaxLength}

\* Two provers, whatever connects them; requests with any headers redacted.
NotarySetups ==
  {[Notary0 EXCEPT !.transport = t] : t \in [Provers -> {"tcp", "ws", "local"}]}
  \union
  {[Notary0 EXCEPT !.redact = {redact \in SUBSET HeaderValues : \A r, o \in redact :
                                 r = o \/ r.end < o.start \/ o.end < r.start}]}

MCSetups == TlsnSetups \union PhotoSetups \union NotarySetups
=============================================================================
