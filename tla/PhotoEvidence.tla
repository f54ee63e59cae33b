--------------------------- MODULE PhotoEvidence ----------------------------
(***************************************************************************)
(* Photo evidence: upload of an attachment to Blossom servers with its     *)
(* integrity record (attachments/upload.ts, provider-upload.ts,            *)
(* blossom.ts, proofs/integrity-store.ts), ProofMode bundles               *)
(* (proofs/proofmode-validation.ts), and the photo check of verifyProof    *)
(* over C2PA, EXIF and ProofMode results                                   *)
(* (proofs/verification/checks/photo-integrity.ts, c2pa-validation.ts,     *)
(* exif-validation.ts, attachments/fetch-attachment.ts).  Uploads and      *)
(* verifications are suspended at process runs and server requests.        *)
(***************************************************************************)
EXTENDS VerifierHost, FiniteSets

CONSTANTS
  Photos,
  Requests,
  Servers,      \* Blossom servers
  MaxUploads,   \* blobs made (a bound)
  MaxRetries,   \* maxRetries of downloadFromBlossom
  PurgeAge      \* maxAgeMs of purgeStale

VARIABLES
  uploads,   \* uploadAttachment calls under way
  pgpDir,    \* /tmp/pgp-verify-<time>: files, gpg home and imported key
  made,      \* blobs encrypted so far
  blobs,     \* what each server stores
  refs,      \* attachment references handed to the uploader
  records,   \* the integrity store
  check,     \* the photo-integrity check fetching attachments, if any
  passed     \* history: the last verification, if it passed

photoVars == <<uploads, pgpDir, made, blobs, refs, records, check, passed>>

ASSUME PhotoAssumption ==
  /\ IsFiniteSet(Photos) /\ IsFiniteSet(Servers) /\ Photos \intersect Nat = {}
  /\ MaxUploads \in Nat /\ MaxRetries \in Nat \ {0} /\ PurgeAge \in Nat

Ids == 1..MaxUploads
Place == {"none", "near", "far"}

\* A photo file, alone or in a ProofMode zip: the manifest c2patool finds in it
\* (not the active one, its claim not validated, or validated with other
\* failures reported) and the place that asserts; the place in its EXIF data ("absent": no EXIF);
\* and of the bundle whether proof.json has the photo's hash and which place,
\* and whether the detached PGP signature is good.
Photo == [image : BOOLEAN, zip : BOOLEAN,
          manifest : {"none", "inactive", "unsigned", "tampered", "valid"}, gps : Place,
          exif : Place \union {"absent"},
          json : {"absent", "matches", "differs"}, jsonGps : Place,
          pgp : {"absent", "good", "bad"}]

\* A URI of an attachment, as validateAttachmentUri sees it.
Uri == [parses : BOOLEAN, credentials : BOOLEAN, loopback : BOOLEAN,
        scheme : {"https", "http", "other"}, private : BOOLEAN]

\* What validateC2pa returns.
C2pa == [available : BOOLEAN, manifest : BOOLEAN, signature : BOOLEAN, gps : Place]

\* What parseProofModeZip returns: failures, proof.json's place, pgpValid.
ProofMode == [failed : BOOLEAN, gps : Place, pgp : BOOLEAN \union {None}]

\* exif: gpsNearHint.
\* alone: no other signature check had the same directory (history).
Record == [request : Requests, at : Clock, c2pa : C2pa, exif : BOOLEAN \union {None},
           proofmode : ProofMode \union {None}, alone : BOOLEAN]

Ref == [photo : Photos, request : Requests, servers : SUBSET Servers]

\* A directory of verifyPgpSignature: what was written to it last, whether it has
\* a gpg home, and the key imported there.
Home == [files : Photos, home : BOOLEAN, key : Photos \union {None}]

ASSUME AbsentAssumption == None \notin Ref \union Home

\* at: what the upload waits for; left, ok: servers to answer, that took the blob.
Upload == [at : {"import", "verify", "put"}, request : Requests, photo : Photos,
           stamp : Clock, pgp : BOOLEAN \union {None}, alone : BOOLEAN,
           id : 0..MaxUploads, left : SUBSET Servers, ok : SUBSET Servers]

Attachments == Ids \union Photos

\* todo: image attachments not yet judged; a photo: given by its URI only.
Check == [at : {"blob", "uri", "tool"}, request : Requests, attachments : SUBSET Attachments,
          todo : SUBSET Attachments, now : Attachments, attempt : 1..MaxRetries,
          left : SUBSET Servers, failed : BOOLEAN, validated : BOOLEAN]

PhotoTypeOK ==
  /\ uploads \in [Slots -> Upload \union {None}]
  /\ pgpDir \in [Clock -> Home \union {None}]
  /\ made \in 0..MaxUploads
  /\ blobs \in [Servers -> SUBSET Ids]
  /\ refs \in [Ids -> Ref \union {None}]
  /\ records \in [Ids -> Record \union {None}]
  /\ check \in Check \union {None}
  /\ passed \subseteq [request : Requests, attachments : SUBSET Attachments]

PhotoInit ==
  /\ uploads = [c \in Slots |-> None] /\ pgpDir = [t \in Clock |-> None] /\ made = 0
  /\ blobs = [s \in Servers |-> {}]
  /\ refs = [i \in Ids |-> None] /\ records = [i \in Ids |-> None]
  /\ check = None /\ passed = {}

-----------------------------------------------------------------------------
(* Judging a photo.                                                        *)

PhotoOf(a) == IF a \in Photos THEN a ELSE refs[a].photo
Facts(p) == setup.photo[p]

\* runC2paTool: there is no report without a claim, after a tool error, and when
\* the output cannot be read.
RunC2paTool(p) == {None} \union {report \in {Facts(p)} : report.manifest # "none"}

\* parseActiveManifest finds one.
HasActiveManifest(report) == report # None /\ report.manifest # "inactive"

\* Mutant of EvaluateSignature: failures reported beside a good signature are
\* ignored.
EvaluateSignatureOnly(report) == report.manifest # "unsigned"

\* evaluateSignature: the claim is validated and no failure is reported.
EvaluateSignature(report) == report.manifest \notin {"unsigned", "tampered"}

\* validateC2pa: noToolResult; noManifestResult, also for formats it does not
\* know; or the manifest with its signature and place.
ValidateC2pa(p) ==
  LET none == [available |-> setup.tool, manifest |-> FALSE, signature |-> FALSE, gps |-> "none"] IN
  {none} \union
  {[available |-> TRUE, manifest |-> TRUE, signature |-> EvaluateSignature(report),
    gps |-> report.gps] : report \in {m \in RunC2paTool(p) : setup.tool /\ HasActiveManifest(m)}}

\* evaluateC2paGpsProximity has no failure for a place that is known.
EvaluateC2paGpsProximity(gps) == setup.expected => gps = "near"

\* verifyC2paGpsBinding: a valid signature and a signed place near the expected one.
VerifyC2paGpsBinding(c2pa) ==
  /\ c2pa.available /\ c2pa.manifest /\ c2pa.signature
  /\ c2pa.gps # "none" /\ EvaluateC2paGpsProximity(c2pa.gps)

CheckC2paSignature(c2pa) == c2pa.available /\ c2pa.manifest /\ c2pa.signature

\* checkC2paGpsBinding adds no failure.
CheckC2paGpsBinding(c2pa) ==
  IF setup.expected THEN VerifyC2paGpsBinding(c2pa) ELSE CheckC2paSignature(c2pa)

\* validateGps and validateExif: gpsNearHint, unless there is no place or no hint.
ValidateExif(p) ==
  IF setup.hint /\ Facts(p).exif \in {"near", "far"} THEN Facts(p).exif = "near" ELSE None

\* checkExifRecord adds no failure: missing data, camera and age do not count.
CheckExifRecord(near) == near # FALSE

\* validateProofJson: the hash in proof.json is not that of the photo.
ProofJsonFails(p) == Facts(p).json = "differs"

\* validatePgp: only a signature gpg found bad is a failure.
PgpFails(pgp) == pgp = FALSE

\* parseProofModeZip, once gpg is done.
ParseProofModeZip(p, pgp) ==
  [failed |-> ProofJsonFails(p) \/ PgpFails(pgp), pgp |-> pgp,
   gps |-> IF Facts(p).json = "absent" THEN "none" ELSE Facts(p).jsonGps]

\* checkProofModeRecord adds no failure; a bundle without place is not judged by it.
CheckProofModeRecord(proofmode) ==
  proofmode # None => /\ ~proofmode.failed
                      /\ proofmode.gps # "none" => EvaluateC2paGpsProximity(proofmode.gps)

\* The checks verifyPhotoIntegrity makes on a stored record add no failure.
CheckRecord(record) ==
  /\ CheckC2paGpsBinding(record.c2pa)
  /\ CheckProofModeRecord(record.proofmode)
  /\ CheckExifRecord(record.exif)

\* resolveC2paRequirement, resolveC2paEvidence: something readable, or nothing.
EvidenceResolves(evidence) == evidence # "malformed"

\* checkSchemaEvidenceGps adds no failure.
CheckSchemaEvidenceGps(evidence) == evidence # "none" => EvaluateC2paGpsProximity(evidence)

\* validateAttachmentUri finds nothing wrong.
UriAllowed(uri) ==
  /\ uri.parses /\ ~uri.credentials
  /\ uri.loopback => setup.localhost
  /\ uri.scheme = "https" \/ (uri.scheme = "http" /\ uri.loopback)
  /\ ~uri.loopback => ~uri.private

-----------------------------------------------------------------------------
(* Upload.                                                                 *)

\* encryptBlob: a random key makes every upload a new blob.
EncryptBlob == made + 1

\* uploadToBlossom: the blob is sent to every server at once.
UploadToBlossom(c, call) ==
  /\ made < MaxUploads
  /\ made' = made + 1
  /\ uploads' = [uploads EXCEPT ![c] = [call EXCEPT !.at = "put", !.id = EncryptBlob,
                                                    !.left = setup.servers]]

\* Mutant of Dir: one directory for all.
DirShared(stamp) == 0

\* tmpDir of verifyPgpSignature.
Dir(stamp) == stamp

\* verifyPgpSignature up to gpg --import: the files are written to a directory
\* named after the time.  If its gpg home is there already, mkdir throws, after
\* the files were overwritten, and the signature counts as not checked.
BeginPgp(c, call) ==
  LET d == Dir(now)
      sharing == {o \in Slots : uploads[o] # None /\ uploads[o].stamp = now /\ uploads[o].at # "put"}
  IN IF pgpDir[d] # None /\ pgpDir[d].home
     THEN /\ pgpDir' = [pgpDir EXCEPT ![d].files = call.photo]
          /\ made < MaxUploads /\ made' = made + 1
          /\ uploads' = [o \in Slots |->
               IF o = c THEN [call EXCEPT !.alone = sharing = {}, !.id = EncryptBlob,
                                          !.left = setup.servers]
               ELSE IF o \in sharing THEN [uploads[o] EXCEPT !.alone = FALSE] ELSE uploads[o]]
     ELSE /\ pgpDir' = [pgpDir EXCEPT ![d] = [files |-> call.photo, home |-> TRUE, key |-> None]]
          /\ uploads' = [uploads EXCEPT ![c] = [call EXCEPT !.at = "import"]]
          /\ UNCHANGED made

\* extractPhotoData: a plain photo, or a bundle, with signature and key or not.
ExtractPhotoData(c, call) ==
  IF Facts(call.photo).zip /\ Facts(call.photo).pgp # "absent" THEN BeginPgp(c, call)
  ELSE UploadToBlossom(c, call) /\ UNCHANGED pgpDir

\* uploadAttachment; it throws when no server is configured or a zip has no
\* photo.  setup.uses bounds the uploads under way, setup.offered says of what.
UploadAttachment(c, r, p) ==
  /\ uploads[c] = None /\ setup.servers # {} /\ p \in setup.offered
  /\ Cardinality({o \in Slots : uploads[o] # None}) < setup.uses
  /\ ExtractPhotoData(c, [at |-> "put", request |-> r, photo |-> p, stamp |-> now, pgp |-> None,
                          alone |-> TRUE, id |-> 0, left |-> {}, ok |-> {}])
  /\ UNCHANGED <<setup, now, blobs, refs, records, check, passed>>

\* gpg --import: the key in the directory now; or it fails and the directory is
\* removed.
GpgImports(c) ==
  /\ uploads[c] # None /\ uploads[c].at = "import"
  /\ LET d == Dir(uploads[c].stamp) IN
       \/ /\ pgpDir[d] # None
          /\ pgpDir' = [pgpDir EXCEPT ![d].key = pgpDir[d].files]
          /\ uploads' = [uploads EXCEPT ![c].at = "verify"]
          /\ UNCHANGED made
       \/ pgpDir' = [pgpDir EXCEPT ![d] = None] /\ UploadToBlossom(c, uploads[c])
  /\ UNCHANGED <<setup, now, blobs, refs, records, check, passed>>

\* gpg --verify: the files in the directory now against the key imported.
GpgVerifies(c) ==
  /\ uploads[c] # None /\ uploads[c].at = "verify"
  /\ LET d == Dir(uploads[c].stamp)
         good == /\ pgpDir[d] # None /\ pgpDir[d].key = pgpDir[d].files
                 /\ Facts(pgpDir[d].files).pgp = "good"
     IN pgpDir' = [pgpDir EXCEPT ![d] = None] /\ UploadToBlossom(c, [uploads[c] EXCEPT !.pgp = good])
  /\ UNCHANGED <<setup, now, blobs, refs, records, check, passed>>

\* A server takes the blob, or refuses it; either way its answer may be lost.
ServerAnswers(c, s) ==
  /\ uploads[c] # None /\ uploads[c].at = "put" /\ s \in uploads[c].left
  /\ \E stores, answers \in BOOLEAN :
       /\ blobs' = IF stores THEN [blobs EXCEPT ![s] = @ \union {uploads[c].id}] ELSE blobs
       /\ uploads' = [uploads EXCEPT ![c].left = @ \ {s},
                                     ![c].ok = IF stores /\ answers THEN @ \union {s} ELSE @]
  /\ UNCHANGED <<setup, now, pgpDir, made, refs, records, check, passed>>

\* Mutant of NamedServers: the reference names every server configured.
NamedServersAll(upload) == setup.servers

\* buildAttachmentRef: blossom_servers.
NamedServers(upload) == upload.ok

\* All servers answered: without a success uploadAttachment throws, otherwise it
\* stores what was found out about the photo and returns the reference.  (What
\* the tools find depends on the photo only, not on when they run.)
UploadEnds(c) ==
  /\ uploads[c] # None /\ uploads[c].at = "put" /\ uploads[c].left = {}
  /\ LET u == uploads[c] IN
       IF u.ok = {} THEN UNCHANGED <<refs, records>>
       ELSE /\ refs' = [refs EXCEPT ![u.id] = [photo |-> u.photo, request |-> u.request,
                                              servers |-> NamedServers(u)]]
            /\ \E c2pa \in ValidateC2pa(u.photo) :
                 records' = [records EXCEPT ![u.id] =
                   [request |-> u.request, at |-> now, c2pa |-> c2pa,
                    exif |-> ValidateExif(u.photo), alone |-> u.alone,
                    proofmode |-> IF Facts(u.photo).zip
                                  THEN ParseProofModeZip(u.photo, u.pgp) ELSE None]]
  /\ uploads' = [uploads EXCEPT ![c] = None]
  /\ UNCHANGED <<setup, now, pgpDir, made, blobs, check, passed>>

\* purgeStale, called by the host.
PurgeStale ==
  /\ records' = [i \in Ids |-> IF records[i] # None /\ records[i].at + PurgeAge < now
                               THEN None ELSE records[i]]
  /\ UNCHANGED <<setup, now, uploads, pgpDir, made, blobs, refs, check, passed>>

-----------------------------------------------------------------------------
(* Verification.                                                           *)

Verdict(r, attachments, ok) ==
  passed' = IF ok THEN {[request |-> r, attachments |-> attachments]} ELSE {}

\* fetchBlossomAttachment needs a Blossom reference and its keys.
OnBlossom(a) == a \notin Photos /\ setup.keys

\* fetchAttachmentData: the next image, from Blossom first.
Fetch(k) ==
  LET a == CHOOSE i \in k.todo : TRUE IN
    [k EXCEPT !.now = a, !.attempt = 1, !.todo = @ \ {a},
              !.at = IF OnBlossom(a) THEN "blob" ELSE "uri",
              !.left = IF a \in Photos THEN {} ELSE refs[a].servers]

\* The loop over the images goes on, or ends with the verdict.
Continue(k) ==
  IF k.todo # {} THEN check' = Fetch(k) /\ UNCHANGED passed
  ELSE check' = None /\ Verdict(k.request, k.attachments, ~k.failed /\ k.validated)

\* Records of the attachments, or else of the request.
RecordsFor(r, attachments) ==
  LET own == {i \in attachments \intersect Ids : records[i] # None}
  IN IF own # {} THEN own ELSE {i \in Ids : records[i] # None /\ records[i].request = r}

\* createEmptySubmissionCheck: does it add a failure?  C2PA always needs media,
\* generic media only for a requirement or for non-empty evidence.
EmptySubmissionFails(schema, attachments, required, evidence) ==
  attachments = {} /\ (schema = "c2pa" \/ required \/ evidence)

\* verifyPhotoIntegrity and verifyC2paFromAttachments up to the first fetch; the
\* verdict is the whole verification's, nothing else of which can fail now.
VerifyPhotoIntegrity(r, attachments, failed) ==
  LET found == RecordsFor(r, attachments)
      images == {a \in attachments : Facts(PhotoOf(a)).image}
  IN IF found # {}
     THEN /\ Verdict(r, attachments, ~failed /\ \A i \in found : CheckRecord(records[i]))
          /\ UNCHANGED check
     ELSE IF images = {} THEN Verdict(r, attachments, FALSE) /\ UNCHANGED check
     ELSE /\ check' = Fetch([at |-> "uri", request |-> r, attachments |-> attachments,
                            todo |-> images, now |-> CHOOSE a \in images : TRUE, attempt |-> 1,
                            left |-> {}, failed |-> failed, validated |-> FALSE])
          /\ UNCHANGED passed

\* The photo-integrity check: evidence is the place in schema_evidence.
PhotoIntegrityCheck(r, attachments, evidence) ==
  IF EvidenceResolves(evidence) /\ attachments # {}
  THEN VerifyPhotoIntegrity(r, attachments, ~CheckSchemaEvidenceGps(evidence))
  ELSE Verdict(r, attachments, FALSE) /\ UNCHANGED check

\* verifyProof for photos, up to the first fetch.  One at a time: a verification
\* changes nothing another one reads.
VerifyPhotos(r, attachments, evidence) ==
  /\ check = None
  /\ \A a \in attachments : a \in setup.external \/ (a \in Ids /\ refs[a] # None)
  /\ CASE setup.schema = "c2pa" -> PhotoIntegrityCheck(r, attachments, evidence)
       [] setup.schema = "generic" ->
            /\ Verdict(r, attachments,
                 ~EmptySubmissionFails("generic", attachments, setup.expected, evidence # "none"))
            /\ UNCHANGED check
       [] OTHER -> Verdict(r, attachments, FALSE) /\ UNCHANGED check
  /\ UNCHANGED <<setup, now, uploads, pgpDir, made, blobs, refs, records>>

Waits(await) == check # None /\ check.at = await

\* downloadFromBlossom asks the next server: it has the blob and the blob
\* decrypts; or not, and the next server, the next attempt, the URI follow.
AskServer(s) ==
  /\ Waits("blob") /\ s \in check.left
  /\ LET others == check.left \ {s} IN
       \/ check.now \in blobs[s] /\ check' = [check EXCEPT !.at = "tool"]
       \/ check' =
            IF others # {} THEN [check EXCEPT !.left = others]
            ELSE IF check.attempt < MaxRetries
            THEN [check EXCEPT !.attempt = @ + 1, !.left = refs[check.now].servers]
            ELSE [check EXCEPT !.at = "uri", !.left = {}]
  /\ UNCHANGED <<setup, now, uploads, pgpDir, made, blobs, refs, records, passed>>

\* fetchAttachmentData's second try, the URI.  An uploaded attachment's URI has
\* the encrypted blob, in which c2patool finds nothing.
FetchUri ==
  /\ Waits("uri")
  /\ \/ /\ check.now \in Photos /\ UriAllowed(setup.uri)
        /\ check' = [check EXCEPT !.at = "tool"] /\ UNCHANGED passed
     \/ Continue([check EXCEPT !.failed = TRUE])
  /\ UNCHANGED <<setup, now, uploads, pgpDir, made, blobs, refs, records>>

\* c2patool on the bytes fetched.
ToolExits ==
  /\ Waits("tool")
  /\ \E c2pa \in ValidateC2pa(PhotoOf(check.now)) :
       Continue([check EXCEPT !.failed = @ \/ ~CheckC2paGpsBinding(c2pa), !.validated = TRUE])
  /\ UNCHANGED <<setup, now, uploads, pgpDir, made, blobs, refs, records>>

PhotoNext ==
  \/ PurgeStale \/ FetchUri \/ ToolExits
  \/ \E s \in Servers : AskServer(s)
  \/ \E c \in Slots :
       \/ GpgImports(c) \/ GpgVerifies(c) \/ UploadEnds(c)
       \/ \E s \in Servers : ServerAnswers(c, s)
       \/ \E r \in Requests, p \in Photos : UploadAttachment(c, r, p)
  \/ \E r \in Requests, attachments \in SUBSET Attachments,
        evidence \in Place \union {"malformed"} : VerifyPhotos(r, attachments, evidence)

-----------------------------------------------------------------------------
(* Properties.                                                             *)

\* verifyPhotoIntegrity: a C2PA verification that passes rests on a photo with
\* a valid manifest, near the expected place if there is one, that was
\* submitted or was uploaded for this request; whichever records were purged,
\* servers failed, or uploads overlapped meanwhile.
PassIsBacked ==
  setup.schema = "c2pa" =>
    \A v \in passed : \E a \in v.attachments \union {i \in Ids : refs[i] # None} :
      /\ a \in v.attachments \/ refs[a].request = v.request
      /\ Facts(PhotoOf(a)).manifest = "valid"
      /\ setup.expected => Facts(PhotoOf(a)).gps = "near"

\* uploadToBlossom, buildAttachmentRef: a reference handed out names at least
\* one server, and every server it names stores the blob.
ReferenceIsStored ==
  \A i \in Ids : refs[i] # None =>
    refs[i].servers # {} /\ \A s \in refs[i].servers : i \in blobs[s]

\* verifyPgpSignature: a verdict on a bundle's signature is about that bundle,
\* whatever other bundles are checked meanwhile, unless two checks began in the
\* same millisecond and so had one directory.
PgpVerdictIsOwn ==
  \A i \in Ids : records[i] # None /\ records[i].alone /\ records[i].proofmode # None =>
    records[i].proofmode.pgp \in {None, Facts(refs[i].photo).pgp = "good"}
=============================================================================
