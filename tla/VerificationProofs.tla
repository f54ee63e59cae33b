------------------------- MODULE VerificationProofs -------------------------
(***************************************************************************)
(* Evidence verification is safe for every number of presentations,        *)
(* photos, servers, provers, concurrent validations and uploads, every     *)
(* retention and capacity of the replay guard, and every situation.        *)
(***************************************************************************)
EXTENDS ProofVerification, FiniteSetTheorems, WellFoundedInduction, TLAPS

-----------------------------------------------------------------------------
(* The inductive invariants.                                               *)

\* TLSNotary.  The presentations of the first n marks; a presentation that was
\* pushed out by others; an entry that has aged out.
Marked(marks, n) == {marks[k].p : k \in 1..n}
Crowded(marks, p, n) == Cardinality(Marked(marks, n) \ {p}) >= MaxEntries
Expired(at, time) == at + Retention < time

\* The guard's map (map) against the history of marks.  Only age and crowding
\* take a presentation out of it, and its time is that of the latest mark.
Accounted(map, marks, time) ==
  /\ \A i, j \in 1..Len(map) : map[i].key = map[j].key => i = j
  /\ \A i \in 1..Len(map) : map[i].key \in Marked(marks, Len(marks))
  /\ \A k \in 1..Len(marks) : marks[k].at <= time
  /\ \A i \in 1..Len(map), k \in 1..Len(marks) :
       map[i].key = marks[k].p => marks[k].at <= map[i].at
  /\ \A k \in 1..Len(marks) :
       \/ Has(map, marks[k].p)
       \/ Expired(marks[k].at, time)
       \/ Crowded(marks, marks[k].p, Len(marks))

\* What let a validation of p past the guard, after so many marks.
Excused(marks, p, since, time) ==
  /\ since <= Len(marks)
  /\ \A k \in 1..since : marks[k].p = p => Expired(marks[k].at, time) \/ Crowded(marks, p, since)

GuardInv ==
  /\ Accounted(seen, used, now)
  /\ \A c \in Slots : validations[c] # None =>
       Excused(used, validations[c].p, validations[c].since, now)
  /\ \A k \in 1..Len(used) : used[k].since < k

TlsnInv ==
  /\ setup \in Setup /\ now \in Clock /\ TlsnTypeOK
  /\ GuardInv /\ AcceptedIsSound /\ PresentationPassesOnce

\* Photos.  A signature check has a gpg home, and its own files and key if no
\* other check shared the directory.
OwnDir(u, home) ==
  /\ home # None /\ home.home
  /\ u.alone => home.files = u.photo /\ (u.at = "verify" => home.key = u.photo)

\* The verdict (pgp) is about the photo.
OwnVerdict(pgp, photo) == pgp \in {None, Facts(photo).pgp = "good"}

\* An upload under way, when n blobs were made, the servers store (store), these
\* references (given) are out and these directories (dirs) are there.
UploadGood(u, n, store, given, dirs) ==
  /\ u.at = "put" => /\ u.id \in 1..n /\ given[u.id] = None
                     /\ \A s \in u.ok : u.id \in store[s]
                     /\ u.alone => OwnVerdict(u.pgp, u.photo)
  /\ u.at # "put" => u.ok = {} /\ u.pgp = None /\ OwnDir(u, dirs[u.stamp])

\* Two uploads under way have neither the blob nor the directory in common.
Separate(u, w) ==
  /\ u.at = "put" /\ w.at = "put" => u.id # w.id
  /\ u.at # "put" /\ w.at # "put" => u.stamp # w.stamp

UploadsGood(calls, n, store, given, dirs) ==
  /\ \A c \in Slots : calls[c] # None => UploadGood(calls[c], n, store, given, dirs)
  /\ \A c, o \in Slots : calls[c] # None /\ calls[o] # None /\ c # o => Separate(calls[c], calls[o])

\* What is stored about an attachment is about its photo.
RecordGood(record, ref) ==
  /\ ref # None /\ record.request = ref.request
  /\ record.c2pa \in ValidateC2pa(ref.photo)
  /\ record.alone /\ record.proofmode # None => OwnVerdict(record.proofmode.pgp, ref.photo)

RecordsGood(facts, given) == \A i \in Ids : facts[i] # None => RecordGood(facts[i], given[i])

\* A reference is to a blob that was made, and is stored.
RefsGood(n, store, given) ==
  \A i \in Ids : given[i] # None =>
    i <= n /\ given[i].servers # {} /\ \A s \in given[i].servers : i \in store[s]

Known(attachments, given) == \A a \in attachments : a \in Photos \/ (a \in Ids /\ given[a] # None)

\* A photo that backs a verification.
Backs(a, given) ==
  LET photo == IF a \in Photos THEN a ELSE given[a].photo IN
    Facts(photo).manifest = "valid" /\ (setup.expected => Facts(photo).gps = "near")

\* A check under way: some attachment backs it unless it is bound to fail.
CheckGood(k, given) ==
  /\ k.now \in k.attachments /\ k.todo \subseteq k.attachments /\ Known(k.attachments, given)
  /\ k.at = "blob" => k.now \notin Photos
  /\ k.validated /\ ~k.failed => \E a \in k.attachments : Backs(a, given)

VerdictGood(v, given) ==
  /\ Known(v.attachments, given)
  /\ setup.schema = "c2pa" =>
       \E a \in v.attachments \union {i \in Ids : given[i] # None} :
         (a \in v.attachments \/ given[a].request = v.request) /\ Backs(a, given)

PhotoInv ==
  /\ setup \in Setup /\ now \in Clock /\ PhotoTypeOK
  /\ UploadsGood(uploads, made, blobs, refs, pgpDir)
  /\ RefsGood(made, blobs, refs) /\ RecordsGood(records, refs)
  /\ check # None => CheckGood(check, refs)
  /\ \A v \in passed : VerdictGood(v, refs)

\* Provers.  Whatever leads to a good answer comes after the verifier's side.
Vouched ==
  /\ stored \subseteq verified /\ results \subseteq verified
  /\ \A p \in Provers :
       \/ p \in verified
       \/ /\ answer[p] \notin {"attestation", "completed"} /\ session[p] # "reveal"
          /\ task[p] # "request" /\ prover[p] # "done"

\* Who will answer, from the moment on that a prover depends on it.
Attended(p) ==
  /\ prover[p] \in {"register", "connect"} => Over(p, "ws")
  /\ answer[p] = None =>
       /\ Over(p, "tcp") /\ prover[p] = "waits" => polls[p] # None
       /\ Over(p, "ws") /\ prover[p] \in {"connect", "mpc", "proved", "waits"} =>
            session[p] \in {"result", "reveal"}
       /\ Over(p, "local") /\ prover[p] \in {"proved", "waits"} => task[p] \in {"closing", "request"}

NotaryInv ==
  /\ setup \in Setup /\ NotaryTypeOK
  /\ Vouched /\ (\A p \in Provers : Attended(p)) /\ RevealIsExact

\* Most steps below are first-order reasoning about sets and functions; those that
\* need arithmetic, records or sequences cite SMTT.
USE ZenonT(30)

Below == {x \in Nat \X Nat : x[1] < x[2]}

LEMMA BelowWellFounded == IsWellFoundedOn(Below, Nat)
BY NatLessThanWellFounded DEF OpToRel, Below

\* Numbers have a least member.
LEMMA Least ==
  ASSUME NEW T \in SUBSET Nat, T # {}
  PROVE  \E x \in T : \A y \in T : x <= y
<1>1. PICK x \in T : \A y \in T : ~(<<y, x>> \in Below)
  BY BelowWellFounded, WFMin
<1>2. ASSUME NEW y \in T PROVE x <= y
  <2>1. ~(<<y, x>> \in Below)
    BY <1>1
  <2> QED BY <2>1, SMTT(30) DEF Below
<1> QED BY <1>2

-----------------------------------------------------------------------------
(* A step is about one part of the system, and never changes the situation. *)

LEMMA TlsnFixes == TlsnNext => UNCHANGED <<setup, now>>
BY DEF TlsnNext, ValidateTlsn, VerifierExits, VerifierFails

LEMMA PhotoFixes == PhotoNext => UNCHANGED <<setup, now>>
BY DEF PhotoNext, PurgeStale, FetchUri, ToolExits, AskServer, GpgImports, GpgVerifies,
   UploadEnds, ServerAnswers, UploadAttachment, VerifyPhotos

LEMMA StepIs ==
  ASSUME [Next]_vars
  PROVE  /\ setup' = setup
         /\ \/ TlsnNext /\ now' = now /\ UNCHANGED <<photoVars, notaryVars>>
            \/ PhotoNext /\ now' = now /\ UNCHANGED <<tlsnVars, notaryVars>>
            \/ NotaryNext /\ now' = now /\ UNCHANGED <<tlsnVars, photoVars>>
            \/ (Tick \/ now' = now) /\ UNCHANGED <<tlsnVars, photoVars, notaryVars>>
<1>1. CASE VerifyProof
  BY <1>1, TlsnFixes, PhotoFixes DEF VerifyProof
<1>2. CASE MakeProof
  BY <1>2 DEF MakeProof
<1>3. CASE Tick /\ UNCHANGED <<setup, tlsnVars, photoVars, notaryVars>>
  BY <1>3
<1>4. CASE UNCHANGED vars
  BY <1>4 DEF vars
<1> QED BY <1>1, <1>2, <1>3, <1>4 DEF Next

-----------------------------------------------------------------------------
(* Arithmetic.                                                             *)

LEMMA ExpiredEarlier ==
  ASSUME NEW at \in Nat, NEW later \in Nat, NEW time \in Nat, at <= later, Expired(later, time)
  PROVE  Expired(at, time)
BY GuardAssumption, SMTT(30) DEF Expired

\* What was marked after the time of a proof that is still young enough has not expired.
LEMMA FreshIs ==
  ASSUME NEW at \in Nat, NEW time \in Nat, NEW age \in Nat, NEW until \in Nat,
         time <= at, until - time < age, age <= Retention
  PROVE  ~Expired(at, until)
BY GuardAssumption, SMTT(30) DEF Expired

LEMMA ClockGoesOn == now \in Clock /\ setup.until \in Clock /\ Tick => now' \in Clock
BY HostAssumption, SMTT(30) DEF Clock, Tick

-----------------------------------------------------------------------------
(* The replay guard and the validation of a presentation.                  *)

Entry == [key : Presentations, at : Clock]

Mark == [p : Presentations, need : Requirement, since : Nat, at : Clock, passed : BOOLEAN]

\* kept is map without its first k entries.
Drops(map, kept, k) ==
  /\ k \in 0..Len(map) /\ kept \in Seq(Entry) /\ Len(kept) = Len(map) - k
  /\ \A i \in 1..Len(kept) : kept[i] = map[i + k]

\* What AcceptedIsSound says of a mark (e).
SoundMark(e) ==
  e.passed =>
    LET proof == setup.proof[e.p]  need == e.need IN
      /\ proof.signed
      /\ need.host # None => proof.server = need.host
      /\ proof.time # None /\ e.at - proof.time \in 0..(need.maxAge - 1)
      /\ \A q \in need.conditions :
           \/ q.type = "contains" /\ proof.body.includes
           \/ q.type = "regex" /\ q.pattern = "plain" /\ proof.body.matches
           \/ q.type = "jsonpath" /\ proof.body.json
              /\ proof.body.value \in IF q.expected THEN {"right"} ELSE {"right", "wrong"}

\* What PresentationPassesOnce says of two marks.
OnceMarks(marks, i, j) ==
  /\ i < j /\ marks[i].p = marks[j].p /\ marks[i].passed /\ marks[j].passed
  /\ marks[j].since >= i /\ marks[j].need.maxAge <= Retention
  => Crowded(marks, marks[j].p, marks[j].since)

\* The mark of a validation (v) that the verifier process confirmed.
MarkOf(v) == [p |-> v.p, need |-> v.need, since |-> v.since, at |-> now,
              passed |-> Satisfies(setup.proof[v.p], v.need)]

\* What each operation on the map does to the account of the marks, then one step
\* for each action of validateTlsn, then the induction.
LEMMA TlsnAlways == Spec => []TlsnInv
<1>EntryIs.
    ASSUME NEW map \in Seq(Entry), NEW i \in 1..Len(map)
    PROVE  map[i] \in Entry /\ map[i].key \in Presentations /\ map[i].at \in Nat
  <2> USE <1>EntryIs
  <2>1. map[i] \in Entry
    BY SMTT(30)
  <2>2. map[i].key \in Presentations /\ map[i].at \in Clock
    BY <2>1 DEF Entry
  <2> QED BY <2>1, <2>2, HostAssumption, SMTT(30) DEF Clock

<1>MarkIs.
    ASSUME NEW marks \in Seq(Mark), NEW k \in 1..Len(marks)
    PROVE  /\ marks[k] \in Mark /\ marks[k].p \in Presentations /\ marks[k].at \in Nat
           /\ marks[k].since \in Nat /\ marks[k].need \in Requirement
  <2> USE <1>MarkIs
  <2>1. marks[k] \in Mark
    BY SMTT(30)
  <2>2. /\ marks[k].p \in Presentations /\ marks[k].at \in Clock
        /\ marks[k].since \in Nat /\ marks[k].need \in Requirement
    BY <2>1 DEF Mark
  <2> QED BY <2>1, <2>2, HostAssumption, SMTT(30) DEF Clock

<1>SuffixDrops.
    ASSUME NEW map \in Seq(Entry), NEW x \in 1..Len(map)
    PROVE  Drops(map, SubSeq(map, x, Len(map)), x - 1)
  <2> USE <1>SuffixDrops
  <2> DEFINE kept == SubSeq(map, x, Len(map))
  <2>1. \A i \in x..Len(map) : map[i] \in Entry
    BY SMTT(30)
  <2>2. /\ kept \in Seq(Entry)
        /\ Len(kept) = Len(map) - x + 1
        /\ \A i \in 1..(Len(map) - x + 1) : kept[i] = map[x + i - 1]
    BY <2>1, SMTT(30)
  <2> HIDE DEF kept
  <2>3. Drops(map, kept, x - 1)
    BY <2>2, SMTT(30) DEF Drops
  <2> QED BY <2>3 DEF kept

\* Entries that are dropped for their age are old.
<1>AgedIs.
    ASSUME NEW map \in Seq(Entry), now \in Clock
    PROVE  \E k \in 0..Len(map) : /\ Drops(map, Aged(map), k)
                                  /\ \A i \in 1..k : Expired(map[i].at, now)
  <2> USE <1>AgedIs
  <2> DEFINE young == {i \in 1..Len(map) : map[i].at + Retention >= now}
  <2>1. ASSUME NEW i \in 1..Len(map), i \notin young PROVE Expired(map[i].at, now)
    <3>1. map[i].at \in Nat
      BY <1>EntryIs
    <3>2. ~(map[i].at + Retention >= now)
      BY <2>1
    <3>3. Retention \in Nat /\ now \in Nat
      BY GuardAssumption, HostAssumption, SMTT(30) DEF Clock
    <3> HIDE DEF young
    <3> QED BY <3>1, <3>2, <3>3, SMTT(30) DEF Expired
  <2>2. young \in SUBSET (1..Len(map)) /\ young \in SUBSET Nat
    BY SMTT(30)
  <2>3. Aged(map) = IF young = {} THEN <<>>
                    ELSE SubSeq(map, CHOOSE i \in young : \A j \in young : i <= j, Len(map))
    BY DEF Aged
  <2> HIDE DEF young
  <2>4. CASE young = {}
    <3>1. Drops(map, <<>>, Len(map))
      BY SMTT(30) DEF Drops
    <3>2. \A i \in 1..Len(map) : Expired(map[i].at, now)
      BY <2>1, <2>4
    <3>3. Len(map) \in 0..Len(map)
      BY SMTT(30)
    <3> QED BY <2>3, <2>4, <3>1, <3>2, <3>3
  <2>5. CASE young # {}
    <3> DEFINE x == CHOOSE i \in young : \A j \in young : i <= j
    <3>1. \E i \in young : \A j \in young : i <= j
      BY <2>2, <2>5, Least
    <3>2. x \in young /\ \A j \in young : x <= j
      BY <3>1
    <3>3. Aged(map) = SubSeq(map, x, Len(map))
      BY <2>3, <2>5
    <3> HIDE DEF x
    <3>4. x \in 1..Len(map) /\ x - 1 \in 0..Len(map)
      BY <2>2, <3>2, SMTT(30)
    <3>5. ASSUME NEW i \in 1..(x - 1) PROVE Expired(map[i].at, now)
      <4>1. i \in 1..Len(map) /\ ~(x <= i)
        BY <3>4, SMTT(30)
      <4>2. i \notin young
        BY <3>2, <4>1
      <4> QED BY <2>1, <4>1, <4>2
    <3> QED BY <3>3, <3>4, <3>5, <1>SuffixDrops
  <2> QED BY <2>4, <2>5

\* The others are dropped from a map that is full.
<1>CappedIs.
    ASSUME NEW map \in Seq(Entry)
    PROVE  \E k \in 0..Len(map) : /\ Drops(map, Capped(map, MaxEntries), k)
                                  /\ k = 0 \/ Len(Capped(map, MaxEntries)) = MaxEntries
                                  /\ Len(Capped(map, MaxEntries)) <= MaxEntries
  <2> USE <1>CappedIs
  <2>1. MaxEntries \in Nat \ {0} /\ Len(map) \in Nat
    BY GuardAssumption, SMTT(30)
  <2>2. CASE Len(map) > MaxEntries
    <3> DEFINE x == Len(map) - MaxEntries + 1
    <3>1. x \in 1..Len(map) /\ x - 1 \in 0..Len(map)
      BY <2>1, <2>2, SMTT(30)
    <3>2. Capped(map, MaxEntries) = SubSeq(map, x, Len(map))
      BY <2>2 DEF Capped
    <3>3. Drops(map, Capped(map, MaxEntries), x - 1)
      <4> HIDE DEF x
      <4> QED BY <3>1, <3>2, <1>SuffixDrops
    <3>4. Len(Capped(map, MaxEntries)) = MaxEntries
      BY <2>1, <3>3, SMTT(30) DEF Drops
    <3>5. Len(Capped(map, MaxEntries)) <= MaxEntries
      BY <2>1, <3>4, SMTT(30)
    <3> HIDE DEF x
    <3> QED BY <3>1, <3>3, <3>4, <3>5
  <2>3. CASE ~(Len(map) > MaxEntries)
    <3>1. Capped(map, MaxEntries) = map
      BY <2>3 DEF Capped
    <3>2. Drops(map, map, 0) /\ 0 \in 0..Len(map) /\ Len(map) <= MaxEntries
      BY <2>1, <2>3, SMTT(30) DEF Drops
    <3> QED BY <3>1, <3>2
  <2> QED BY <2>2, <2>3

<1>EvictIs.
    ASSUME NEW map \in Seq(Entry), now \in Clock
    PROVE  \E k \in 0..Len(map) :
             /\ Drops(map, Evict(map), k) /\ Len(Evict(map)) <= MaxEntries
             /\ \A i \in 1..k : Expired(map[i].at, now) \/ Len(Evict(map)) = MaxEntries
  <2> USE <1>EvictIs
  <2> DEFINE aged == Aged(map)
             kept == Capped(aged, MaxEntries)
  <2>1. PICK a \in 0..Len(map) : Drops(map, aged, a) /\ \A i \in 1..a : Expired(map[i].at, now)
    BY <1>AgedIs
  <2>2. aged \in Seq(Entry)
    BY <2>1 DEF Drops
  <2> HIDE DEF aged
  <2>3. PICK b \in 0..Len(aged) : /\ Drops(aged, kept, b) /\ Len(kept) <= MaxEntries
                                  /\ b = 0 \/ Len(kept) = MaxEntries
    BY <2>2, <1>CappedIs
  <2>4. kept = Evict(map)
    BY DEF Evict, aged
  <2> HIDE DEF kept
  <2>5. a + b \in 0..Len(map) /\ Drops(map, kept, a + b)
    <3>1. /\ a \in 0..Len(map) /\ Len(aged) = Len(map) - a
          /\ \A i \in 1..Len(aged) : aged[i] = map[i + a]
      BY <2>1 DEF Drops
    <3>2. /\ b \in 0..Len(aged) /\ Len(kept) = Len(aged) - b /\ kept \in Seq(Entry)
          /\ \A i \in 1..Len(kept) : kept[i] = aged[i + b]
      BY <2>3 DEF Drops
    <3>3. a + b \in 0..Len(map) /\ Len(kept) = Len(map) - (a + b)
      BY <3>1, <3>2, SMTT(30)
    <3>4. ASSUME NEW i \in 1..Len(kept) PROVE kept[i] = map[i + (a + b)]
      <4>1. i + b \in 1..Len(aged) /\ (i + b) + a = i + (a + b)
        BY <3>1, <3>2, SMTT(30)
      <4> QED BY <4>1, <3>1, <3>2
    <3> QED BY <3>2, <3>3, <3>4 DEF Drops
  <2>6. ASSUME NEW i \in 1..(a + b) PROVE Expired(map[i].at, now) \/ Len(kept) = MaxEntries
    <3>1. i \in 1..a \/ b # 0
      BY SMTT(30)
    <3> QED BY <3>1, <2>1, <2>3
  <2> QED BY <2>3, <2>4, <2>5, <2>6

<1>MarkedFinite.
    ASSUME NEW marks \in Seq(Mark), NEW n \in 0..Len(marks), NEW p
    PROVE  /\ Marked(marks, n) \ {p} \in SUBSET Presentations
           /\ IsFiniteSet(Marked(marks, n) \ {p}) /\ Cardinality(Marked(marks, n) \ {p}) \in Nat
  <2> USE <1>MarkedFinite
  <2>1. \A k \in 1..n : k \in 1..Len(marks)
    BY SMTT(30)
  <2>2. Marked(marks, n) \ {p} \in SUBSET Presentations
    BY <2>1, <1>MarkIs DEF Marked
  <2>3. IsFiniteSet(Marked(marks, n) \ {p})
    BY <2>2, GuardAssumption, FS_Subset
  <2> QED BY <2>2, <2>3, FS_CardinalityType

\* The presentations behind one in a full map crowd it out.
<1>FullCrowds.
    ASSUME NEW kept \in Seq(Entry), NEW marks \in Seq(Mark), NEW p, Len(kept) = MaxEntries,
           \A i, j \in 1..Len(kept) : kept[i].key = kept[j].key => i = j,
           \A i \in 1..Len(kept) : kept[i].key \in Marked(marks, Len(marks)) \ {p}
    PROVE  Crowded(marks, p, Len(marks))
  <2> USE <1>FullCrowds
  <2> DEFINE T == Marked(marks, Len(marks)) \ {p}
             D == 1..Len(kept)
             f == [i \in D |-> kept[i].key]
  <2>1. Len(marks) \in 0..Len(marks) /\ Len(kept) \in Nat
    BY SMTT(30)
  <2>2. IsFiniteSet(T) /\ Cardinality(T) \in Nat
    BY <2>1, <1>MarkedFinite
  <2>3. f \in [D -> T]
    OBVIOUS
  <2>4. f \in Injection(D, T)
    BY <2>3 DEF Injection, IsInjective
  <2>5. Cardinality(D) <= Cardinality(T)
    <3> HIDE DEF D, T, f
    <3> QED BY <2>2, <2>4, FS_Injection
  <2>6. Cardinality(D) = Len(kept)
    <3>1. Cardinality(D) = IF 1 > Len(kept) THEN 0 ELSE Len(kept) - 1 + 1
      <4>1. 1 \in Int /\ Len(kept) \in Int
        BY <2>1, SMTT(30)
      <4> QED BY <4>1, FS_Interval
    <3> HIDE DEF D
    <3> QED BY <3>1, <2>1, SMTT(30)
  <2>7. Cardinality(T) >= MaxEntries
    <3> HIDE DEF D, T
    <3> QED BY <2>1, <2>2, <2>5, <2>6
  <2> QED BY <2>7 DEF Crowded

\* Eviction keeps the account.
<1>DropKeeps.
    ASSUME NEW map \in Seq(Entry), NEW kept, NEW k \in 0..Len(map), Drops(map, kept, k),
           NEW marks \in Seq(Mark), NEW time \in Nat, Accounted(map, marks, time),
           \A i \in 1..k : Expired(map[i].at, time) \/ Len(kept) = MaxEntries
    PROVE  Accounted(kept, marks, time)
  <2> USE <1>DropKeeps
  <2>1. kept \in Seq(Entry) /\ Len(kept) = Len(map) - k /\ \A i \in 1..Len(kept) : kept[i] = map[i + k]
    BY DEF Drops
  <2>2. \A i \in 1..Len(kept) : i + k \in 1..Len(map)
    BY <2>1, SMTT(30)
  <2>3. ASSUME NEW i \in 1..Len(kept), NEW j \in 1..Len(kept), kept[i].key = kept[j].key
        PROVE  i = j
    <3>1. i + k = j + k
      BY <2>1, <2>2, <2>3 DEF Accounted
    <3> QED BY <2>1, <3>1, SMTT(30)
  <2>4. \A i \in 1..Len(kept) : kept[i].key \in Marked(marks, Len(marks))
    BY <2>1, <2>2 DEF Accounted
  <2>5. \A i \in 1..Len(kept), n \in 1..Len(marks) :
          kept[i].key = marks[n].p => marks[n].at <= kept[i].at
    BY <2>1, <2>2 DEF Accounted
  <2>6. ASSUME NEW n \in 1..Len(marks), Has(map, marks[n].p)
        PROVE  \/ Has(kept, marks[n].p) \/ Expired(marks[n].at, time)
               \/ Crowded(marks, marks[n].p, Len(marks))
    <3>1. PICK i \in 1..Len(map) : map[i].key = marks[n].p
      BY <2>6 DEF Has
    <3>2. CASE i > k
      <4>1. i - k \in 1..Len(kept) /\ (i - k) + k = i
        BY <2>1, <3>2, SMTT(30)
      <4> QED BY <2>1, <3>1, <4>1 DEF Has
    <3>3. CASE ~(i > k)
      <4>1. i \in 1..k
        BY <3>3, SMTT(30)
      <4>2. CASE Expired(map[i].at, time)
        <5>1. marks[n].at <= map[i].at
          BY <3>1 DEF Accounted
        <5>2. marks[n].at \in Nat /\ map[i].at \in Nat
          BY <1>MarkIs, <1>EntryIs
        <5> QED BY <4>2, <5>1, <5>2, ExpiredEarlier
      <4>3. CASE Len(kept) = MaxEntries
        <5>1. ASSUME NEW j \in 1..Len(kept) PROVE kept[j].key # marks[n].p
          <6>1. j + k # i
            BY <2>1, <4>1, SMTT(30)
          <6> QED BY <6>1, <2>1, <2>2, <3>1 DEF Accounted
        <5> QED BY <2>1, <2>3, <2>4, <4>3, <5>1, <1>FullCrowds
      <4> QED BY <4>1, <4>2, <4>3
    <3> QED BY <3>2, <3>3
  <2> QED BY <2>3, <2>4, <2>5, <2>6 DEF Accounted

\* A mark more.
<1>MarkedMore.
    ASSUME NEW marks \in Seq(Mark), NEW e \in Mark
    PROVE  /\ Append(marks, e) \in Seq(Mark) /\ Len(Append(marks, e)) = Len(marks) + 1
           /\ \A k \in 1..Len(marks) : Append(marks, e)[k] = marks[k]
           /\ Append(marks, e)[Len(marks) + 1] = e
           /\ \A n \in 0..Len(marks) : Marked(Append(marks, e), n) = Marked(marks, n)
           /\ Marked(Append(marks, e), Len(marks) + 1) = Marked(marks, Len(marks)) \union {e.p}
  <2> USE <1>MarkedMore
  <2> DEFINE more == Append(marks, e)
  <2>1. /\ more \in Seq(Mark) /\ Len(more) = Len(marks) + 1 /\ more[Len(marks) + 1] = e
        /\ \A k \in 1..Len(marks) : more[k] = marks[k]
    BY SMTT(30)
  <2> HIDE DEF more
  <2>2. ASSUME NEW n \in 0..Len(marks) PROVE Marked(more, n) = Marked(marks, n)
    <3>1. \A k \in 1..n : k \in 1..Len(marks)
      BY SMTT(30)
    <3>2. \A k \in 1..n : more[k] = marks[k]
      BY <2>1, <3>1
    <3> QED BY <3>2 DEF Marked
  <2>3. Marked(more, Len(marks) + 1) = Marked(marks, Len(marks)) \union {e.p}
    <3>1. \A k : k \in 1..(Len(marks) + 1) <=> k \in 1..Len(marks) \/ k = Len(marks) + 1
      BY SMTT(30)
    <3> QED BY <2>1, <3>1 DEF Marked
  <2> QED BY <2>1, <2>2, <2>3 DEF more

<1>CrowdedMore.
    ASSUME NEW marks \in Seq(Mark), NEW e \in Mark, NEW n \in 0..Len(marks), NEW p,
           Crowded(marks, p, n)
    PROVE  Crowded(Append(marks, e), p, n)
  <2> USE <1>CrowdedMore
  <2>1. Marked(Append(marks, e), n) = Marked(marks, n)
    BY <1>MarkedMore
  <2> QED BY <2>1 DEF Crowded

<1>CrowdedLast.
    ASSUME NEW marks \in Seq(Mark), NEW e \in Mark, NEW p, Crowded(marks, p, Len(marks))
    PROVE  Crowded(Append(marks, e), p, Len(marks) + 1)
  <2> USE <1>CrowdedLast
  <2> DEFINE S == Marked(Append(marks, e), Len(marks) + 1) \ {p}
             T == Marked(marks, Len(marks)) \ {p}
  <2>1. Len(marks) \in 0..Len(marks) /\ Len(marks) + 1 \in 0..(Len(marks) + 1)
    BY SMTT(30)
  <2>2. T \in SUBSET S
    BY <1>MarkedMore
  <2>3. IsFiniteSet(S) /\ Cardinality(S) \in Nat
    BY <2>1, <1>MarkedMore, <1>MarkedFinite
  <2>4. Cardinality(T) \in Nat
    BY <2>1, <1>MarkedFinite
  <2>5. Cardinality(T) >= MaxEntries
    BY DEF Crowded
  <2> HIDE DEF S, T
  <2>6. Cardinality(T) <= Cardinality(S)
    BY <2>2, <2>3, FS_Subset
  <2>7. Cardinality(S) >= MaxEntries
    BY <2>3, <2>4, <2>5, <2>6, GuardAssumption, SMTT(30)
  <2> QED BY <2>7 DEF Crowded, S

\* Remember changes the time of an entry, or adds one.
<1>RememberIs.
    ASSUME NEW map \in Seq(Entry), NEW p \in Presentations, now \in Clock
    PROVE  LET more == Remember(map, p) IN
           /\ more \in Seq(Entry) /\ Has(more, p)
           /\ Len(map) <= Len(more)
           /\ \A i \in 1..Len(map) : /\ more[i].key = map[i].key
                                     /\ more[i].at = IF map[i].key = p THEN now ELSE map[i].at
           /\ \A i \in 1..Len(more) : i \in 1..Len(map) \/ more[i] = [key |-> p, at |-> now]
           /\ Has(map, p) => Len(more) = Len(map)
           /\ Len(more) = Len(map) \/ Len(more) = Len(map) + 1
  <2> USE <1>RememberIs
  <2> DEFINE more == Remember(map, p)
  <2>1. CASE Has(map, p)
    <3>1. more = [i \in 1..Len(map) |-> IF map[i].key = p THEN [map[i] EXCEPT !.at = now] ELSE map[i]]
      BY <2>1 DEF Remember
    <3>2. ASSUME NEW i \in 1..Len(map)
          PROVE  /\ more[i] \in Entry /\ more[i].key = map[i].key
                 /\ more[i].at = IF map[i].key = p THEN now ELSE map[i].at
      <4>1. map[i] \in Entry
        BY <1>EntryIs
      <4>2. more[i] = IF map[i].key = p THEN [map[i] EXCEPT !.at = now] ELSE map[i]
        BY <3>1
      <4> HIDE DEF more
      <4> QED BY <4>1, <4>2 DEF Entry
    <3> HIDE DEF more
    <3>3. more \in Seq(Entry) /\ Len(more) = Len(map)
      <4>1. Len(map) \in Nat /\ more \in [1..Len(map) -> Entry]
        <5>1. Len(map) \in Nat
          BY SMTT(30)
        <5>2. more = [i \in 1..Len(map) |-> more[i]]
          BY <3>1
        <5> QED BY <3>2, <5>1, <5>2
      <4> QED BY <4>1, SMTT(30)
    <3>4. PICK i \in 1..Len(map) : map[i].key = p
      BY <2>1 DEF Has
    <3>5. Has(more, p)
      BY <3>2, <3>3, <3>4 DEF Has
    <3>6. Len(map) <= Len(map)
      BY SMTT(30)
    <3> QED BY <3>2, <3>3, <3>5, <3>6 DEF more
  <2>2. CASE ~Has(map, p)
    <3>1. more = Append(map, [key |-> p, at |-> now])
      BY <2>2 DEF Remember
    <3>2. [key |-> p, at |-> now] \in Entry
      BY DEF Entry
    <3> DEFINE e == [key |-> p, at |-> now]
    <3>3. e.key = p
      OBVIOUS
    <3> HIDE DEF e, more
    <3>4. /\ more \in Seq(Entry) /\ Len(more) = Len(map) + 1 /\ more[Len(map) + 1] = e
          /\ \A i \in 1..Len(map) : more[i] = map[i]
      BY <3>1, <3>2, SMTT(30) DEF e
    <3>5. /\ Len(map) <= Len(more) /\ Len(map) + 1 \in 1..Len(more)
          /\ \A i \in 1..Len(more) : i \in 1..Len(map) \/ i = Len(map) + 1
      BY <3>4, SMTT(30)
    <3>6. Has(more, p)
      BY <3>3, <3>4, <3>5 DEF Has
    <3>7. \A i \in 1..Len(map) : map[i].key # p
      BY <2>2 DEF Has
    <3>8. \A i \in 1..Len(map) : /\ more[i].key = map[i].key
                                 /\ more[i].at = IF map[i].key = p THEN now ELSE map[i].at
      BY <3>4, <3>7
    <3> QED BY <2>2, <3>4, <3>5, <3>6, <3>8 DEF more, e
  <2> QED BY <2>1, <2>2

\* Marking keeps the account.
<1>RememberKeeps.
    ASSUME NEW map \in Seq(Entry), NEW marks \in Seq(Mark), NEW e \in Mark, now \in Clock,
           e.at = now, Accounted(map, marks, now)
    PROVE  Accounted(Remember(map, e.p), Append(marks, e), now)
  <2> USE <1>RememberKeeps
  <2> DEFINE p == e.p
             map2 == Remember(map, p)
             marks2 == Append(marks, e)
  <2>1. p \in Presentations /\ now \in Nat
    BY HostAssumption, SMTT(30) DEF Mark, Clock
  <2>2. /\ Has(map2, p) /\ Len(map) <= Len(map2)
        /\ \A i \in 1..Len(map) : /\ map2[i].key = map[i].key
                                  /\ map2[i].at = IF map[i].key = p THEN now ELSE map[i].at
        /\ \A i \in 1..Len(map2) : i \in 1..Len(map) \/ map2[i] = [key |-> p, at |-> now]
        /\ Has(map, p) => Len(map2) = Len(map)
        /\ map2 \in Seq(Entry) /\ (Len(map2) = Len(map) \/ Len(map2) = Len(map) + 1)
    <3> HIDE DEF p
    <3> QED BY <2>1, <1>RememberIs
  <2>3. /\ marks2 \in Seq(Mark) /\ Len(marks2) = Len(marks) + 1
        /\ \A k \in 1..Len(marks) : marks2[k] = marks[k]
        /\ marks2[Len(marks) + 1] = e
        /\ Marked(marks2, Len(marks2)) = Marked(marks, Len(marks)) \union {p}
    BY <1>MarkedMore
  <2>4. \A k \in 1..Len(marks2) : k \in 1..Len(marks) \/ (k = Len(marks) + 1 /\ marks2[k] = e)
    <3>1. \A k \in 1..(Len(marks) + 1) : k \in 1..Len(marks) \/ k = Len(marks) + 1
      BY SMTT(30)
    <3> QED BY <2>3, <3>1
  <2>5. e.p = p
    OBVIOUS
  <2> HIDE DEF p, map2, marks2
  <2>6. ASSUME NEW i \in 1..Len(map2), i \notin 1..Len(map)
        PROVE  map2[i].key = p /\ map2[i].at = now /\ ~Has(map, p) /\ i = Len(map) + 1
    <3>1. map2[i] = [key |-> p, at |-> now]
      BY <2>2, <2>6
    <3>2. map2[i].key = p /\ map2[i].at = now
      BY <3>1, SMTT(30)
    <3>3. Len(map2) # Len(map)
      BY <2>6
    <3>4. ~Has(map, p) /\ Len(map2) = Len(map) + 1
      BY <2>2, <3>3
    <3>5. i = Len(map) + 1
      BY <2>6, <3>4, SMTT(30)
    <3> QED BY <3>2, <3>4, <3>5
  <2>7. ASSUME NEW i \in 1..Len(map2), NEW j \in 1..Len(map2), map2[i].key = map2[j].key
        PROVE  i = j
    <3>1. CASE i \in 1..Len(map) /\ j \in 1..Len(map)
      BY <3>1, <2>2, <2>7 DEF Accounted
    <3>2. CASE i \notin 1..Len(map) /\ j \notin 1..Len(map)
      BY <3>2, <2>6
    <3>3. CASE i \in 1..Len(map) /\ j \notin 1..Len(map)
      BY <3>3, <2>2, <2>6, <2>7 DEF Has
    <3>4. CASE i \notin 1..Len(map) /\ j \in 1..Len(map)
      BY <3>4, <2>2, <2>6, <2>7 DEF Has
    <3> QED BY <3>1, <3>2, <3>3, <3>4
  <2>8. ASSUME NEW i \in 1..Len(map2) PROVE map2[i].key \in Marked(marks2, Len(marks2))
    <3>1. CASE i \in 1..Len(map)
      BY <3>1, <2>2, <2>3 DEF Accounted
    <3>2. CASE i \notin 1..Len(map)
      BY <3>2, <2>3, <2>6
    <3> QED BY <3>1, <3>2
  <2>9. ASSUME NEW k \in 1..Len(marks2) PROVE marks2[k].at <= now
    <3>1. CASE k \in 1..Len(marks)
      BY <3>1, <2>3 DEF Accounted
    <3>2. CASE marks2[k] = e
      BY <3>2, <2>1, SMTT(30)
    <3> QED BY <3>1, <3>2, <2>4
  <2>10. ASSUME NEW i \in 1..Len(map2), NEW k \in 1..Len(marks2), map2[i].key = marks2[k].p
         PROVE  marks2[k].at <= map2[i].at
    <3>1. CASE map2[i].at = now
      BY <3>1, <2>9
    <3>2. CASE map2[i].at # now
      <4>1. i \in 1..Len(map) /\ map[i].key # p /\ map2[i].at = map[i].at /\ map2[i].key = map[i].key
        BY <3>2, <2>2, <2>6
      <4>2. k \in 1..Len(marks)
        BY <4>1, <2>4, <2>5, <2>10
      <4> QED BY <4>1, <4>2, <2>3, <2>10 DEF Accounted
    <3> QED BY <3>1, <3>2
  <2>11. ASSUME NEW k \in 1..Len(marks2)
         PROVE  \/ Has(map2, marks2[k].p) \/ Expired(marks2[k].at, now)
                \/ Crowded(marks2, marks2[k].p, Len(marks2))
    <3>1. CASE marks2[k] = e
      BY <3>1, <2>2, <2>5
    <3>2. CASE k \in 1..Len(marks)
      <4>1. CASE Has(map, marks[k].p)
        <5>1. PICK i \in 1..Len(map) : map[i].key = marks[k].p
          BY <4>1 DEF Has
        <5>2. i \in 1..Len(map2)
          BY <2>2, SMTT(30)
        <5> QED BY <3>2, <5>1, <5>2, <2>2, <2>3 DEF Has
      <4>2. CASE Expired(marks[k].at, now)
        BY <3>2, <4>2, <2>3
      <4>3. CASE Crowded(marks, marks[k].p, Len(marks))
        <5>1. Crowded(marks2, marks[k].p, Len(marks) + 1)
          BY <4>3, <1>CrowdedLast DEF marks2
        <5> QED BY <5>1, <3>2, <2>3
      <4> QED BY <3>2, <4>1, <4>2, <4>3 DEF Accounted
    <3> QED BY <3>1, <3>2, <2>4
  <2>12. Accounted(map2, marks2, now)
    BY <2>7, <2>8, <2>9, <2>10, <2>11 DEF Accounted
  <2> QED BY <2>12 DEF map2, marks2, p

\* Time passes.
<1>LaterKeeps.
    ASSUME NEW map \in Seq(Entry), NEW marks \in Seq(Mark), NEW time \in Nat
    PROVE  /\ Accounted(map, marks, time) => Accounted(map, marks, time + 1)
           /\ \A p : \A since \in Nat :
                Excused(marks, p, since, time) => Excused(marks, p, since, time + 1)
  <2> USE <1>LaterKeeps
  <2>1. ASSUME NEW k \in 1..Len(marks)
        PROVE  /\ Expired(marks[k].at, time) => Expired(marks[k].at, time + 1)
               /\ marks[k].at <= time => marks[k].at <= time + 1
    <3>1. marks[k].at \in Nat
      BY <1>MarkIs
    <3> QED BY <3>1, GuardAssumption, SMTT(30) DEF Expired
  <2>2. Accounted(map, marks, time) => Accounted(map, marks, time + 1)
    BY <2>1 DEF Accounted
  <2>3. ASSUME NEW p, NEW since \in Nat, Excused(marks, p, since, time)
        PROVE  Excused(marks, p, since, time + 1)
    <3>1. since <= Len(marks)
      BY <2>3 DEF Excused
    <3>2. \A k \in 1..since : k \in 1..Len(marks)
      BY <3>1, SMTT(30)
    <3> QED BY <2>1, <2>3, <3>1, <3>2 DEF Excused
  <2> QED BY <2>2, <2>3

\* A presentation the guard does not know has an excuse.
<1>UnknownExcused.
    ASSUME NEW map \in Seq(Entry), NEW marks \in Seq(Mark), NEW time \in Nat, NEW p,
           Accounted(map, marks, time), ~Has(map, p)
    PROVE  Excused(marks, p, Len(marks), time)
  <2> USE <1>UnknownExcused
  <2>1. Len(marks) <= Len(marks)
    BY SMTT(30)
  <2> QED BY <2>1 DEF Accounted, Excused

<1>ExcusedMore.
    ASSUME NEW marks \in Seq(Mark), NEW e \in Mark, NEW time, NEW p, NEW since \in Nat,
           Excused(marks, p, since, time)
    PROVE  Excused(Append(marks, e), p, since, time)
  <2> USE <1>ExcusedMore
  <2>1. since \in 0..Len(marks) /\ since <= Len(marks) + 1
    BY SMTT(30) DEF Excused
  <2>2. \A k \in 1..since : k \in 1..Len(marks)
    BY <2>1, SMTT(30)
  <2>3. \A k \in 1..since : Append(marks, e)[k] = marks[k]
    BY <2>2, <1>MarkedMore
  <2>4. Crowded(marks, p, since) => Crowded(Append(marks, e), p, since)
    BY <2>1, <1>CrowdedMore
  <2> QED BY <2>1, <2>3, <2>4, <1>MarkedMore DEF Excused

<1>PropertiesAre.
    /\ AcceptedIsSound <=> \A i \in 1..Len(used) : SoundMark(used[i])
    /\ PresentationPassesOnce <=> \A i, j \in 1..Len(used) : OnceMarks(used, i, j)
  <2>1. AcceptedIsSound <=> \A i \in 1..Len(used) : SoundMark(used[i])
    BY DEF AcceptedIsSound, SoundMark
  <2>2. PresentationPassesOnce <=> \A i, j \in 1..Len(used) : OnceMarks(used, i, j)
    BY DEF PresentationPassesOnce, OnceMarks, Crowded, Marked
  <2> QED BY <2>1, <2>2

<1>TlsnParts.
    ASSUME TlsnInv
    PROVE  /\ setup \in Setup /\ now \in Clock /\ now \in Nat
           /\ seen \in Seq(Entry) /\ Len(seen) <= MaxEntries /\ used \in Seq(Mark)
           /\ validations \in [Slots -> Validation \union {None}]
           /\ Accounted(seen, used, now)
           /\ \A c \in Slots : validations[c] # None =>
                Excused(used, validations[c].p, validations[c].since, now)
           /\ \A k \in 1..Len(used) : used[k].since < k
           /\ \A i \in 1..Len(used) : SoundMark(used[i])
           /\ \A i, j \in 1..Len(used) : OnceMarks(used, i, j)
  <2> USE <1>TlsnParts
  <2>1. now \in Nat
    BY HostAssumption, SMTT(30) DEF TlsnInv, Clock
  <2> QED BY <2>1, <1>PropertiesAre DEF TlsnInv, TlsnTypeOK, GuardInv, Entry, Mark

\* Eviction, all in all.
<1>EvictKeeps.
    ASSUME NEW map \in Seq(Entry), NEW marks \in Seq(Mark), now \in Clock,
           Accounted(map, marks, now)
    PROVE  /\ Evict(map) \in Seq(Entry) /\ Len(Evict(map)) <= MaxEntries
           /\ Accounted(Evict(map), marks, now)
  <2> USE <1>EvictKeeps
  <2>1. PICK k \in 0..Len(map) :
          /\ Drops(map, Evict(map), k) /\ Len(Evict(map)) <= MaxEntries
          /\ \A i \in 1..k : Expired(map[i].at, now) \/ Len(Evict(map)) = MaxEntries
    BY <1>EvictIs
  <2>2. now \in Nat
    BY HostAssumption, SMTT(30) DEF Clock
  <2>3. Evict(map) \in Seq(Entry)
    BY <2>1 DEF Drops
  <2> QED BY <2>1, <2>2, <2>3, <1>DropKeeps

\* What passes is fresh, from the right host, and shows what was asked for.
<1>SatisfiesIs.
    ASSUME setup \in Setup, now \in Clock, NEW p \in Presentations, NEW need \in Requirement,
           Satisfies(setup.proof[p], need)
    PROVE  LET proof == setup.proof[p] IN
           /\ need.host # None => proof.server = need.host
           /\ proof.time # None /\ proof.time \in Nat /\ need.maxAge \in Nat
           /\ proof.time <= now /\ now - proof.time < need.maxAge
           /\ \A q \in need.conditions :
                \/ q.type = "contains" /\ proof.body.includes
                \/ q.type = "regex" /\ q.pattern = "plain" /\ proof.body.matches
                \/ q.type = "jsonpath" /\ proof.body.json
                   /\ proof.body.value \in IF q.expected THEN {"right"} ELSE {"right", "wrong"}
  <2> USE <1>SatisfiesIs
  <2> DEFINE proof == setup.proof[p]
  <2>1. setup.proof \in [Presentations -> Proof]
    BY DEF Setup
  <2>2. proof \in Proof
    BY <2>1
  <2>3. proof.time \in Clock \union {None} /\ proof.body \in Body
    BY <2>2 DEF Proof
  <2>4. ServerMatches(proof, need) /\ Fresh(proof.time, need)
        /\ \A q \in need.conditions : EvaluateCondition(q, proof.body)
    BY DEF Satisfies
  <2>5. need.maxAge \in Nat /\ need.conditions \in SUBSET Condition
    BY DEF Requirement
  <2> HIDE DEF proof
  <2>6. need.host # None => proof.server = need.host
    BY <2>4 DEF ServerMatches
  <2>7. proof.time # None /\ proof.time <= now /\ now - proof.time < need.maxAge
    BY <2>4 DEF Fresh
  <2>8. proof.time \in Nat
    BY <2>3, <2>7, HostAssumption, SMTT(30) DEF Clock
  <2>9. ASSUME NEW q \in need.conditions
        PROVE  \/ q.type = "contains" /\ proof.body.includes
               \/ q.type = "regex" /\ q.pattern = "plain" /\ proof.body.matches
               \/ q.type = "jsonpath" /\ proof.body.json
                  /\ proof.body.value \in IF q.expected THEN {"right"} ELSE {"right", "wrong"}
    <3> DEFINE body == proof.body
    <3>1. q \in Condition /\ EvaluateCondition(q, body)
      BY <2>4, <2>5
    <3>2. /\ q.type \in {"contains", "regex", "jsonpath", "other"}
          /\ q.pattern \in {"plain", "long", "suspicious", "malformed"}
      BY <3>1 DEF Condition
    <3>3. body.value \in {"absent", "right", "wrong"}
      BY <2>3 DEF Body
    <3> HIDE DEF body
    <3>4. CASE q.type = "contains"
      BY <3>1, <3>4 DEF EvaluateCondition, body
    <3>5. CASE q.type = "regex"
      BY <3>1, <3>2, <3>5 DEF EvaluateCondition, Tried, body
    <3>6. CASE q.type = "jsonpath"
      <4>1. body.json /\ body.value # "absent" /\ (q.expected => body.value = "right")
        BY <3>1, <3>6 DEF EvaluateCondition
      <4>2. body.value \in IF q.expected THEN {"right"} ELSE {"right", "wrong"}
        BY <4>1, <3>3
      <4> QED BY <4>1, <4>2, <3>6 DEF body
    <3>7. CASE q.type = "other"
      BY <3>1, <3>7 DEF EvaluateCondition
    <3> QED BY <3>2, <3>4, <3>5, <3>6, <3>7
  <2> QED BY <2>5, <2>6, <2>7, <2>8, <2>9 DEF proof

<1>TlsnAssembles.
    ASSUME setup \in Setup, setup' = setup, now' \in Clock,
           seen' \in Seq(Entry), Len(seen') <= MaxEntries, used' \in Seq(Mark),
           validations' \in [Slots -> Validation \union {None}],
           Accounted(seen', used', now'),
           \A c \in Slots : validations'[c] # None =>
             Excused(used', validations'[c].p, validations'[c].since, now'),
           \A k \in 1..Len(used') : used'[k].since < k,
           \A i \in 1..Len(used') : SoundMark(used'[i]),
           \A i, j \in 1..Len(used') : OnceMarks(used', i, j)
    PROVE  TlsnInv'
  <2> USE <1>TlsnAssembles
  <2>1. AcceptedIsSound'
    BY DEF AcceptedIsSound, SoundMark
  <2>2. PresentationPassesOnce'
    BY DEF PresentationPassesOnce, OnceMarks, Crowded, Marked
  <2>3. TlsnTypeOK'
    BY DEF TlsnTypeOK, Entry, Mark
  <2>4. GuardInv'
    BY DEF GuardInv, Accounted, Excused, Marked, Crowded, Expired, Has
  <2> QED BY <2>1, <2>2, <2>3, <2>4 DEF TlsnInv

<1>ValidateTlsnKeeps.
    ASSUME TlsnInv, NEW c \in Slots, NEW p \in Presentations, NEW need \in setup.needs,
           NEW evidence, ValidateTlsn(c, p, need, evidence)
    PROVE  TlsnInv'
  <2> USE <1>ValidateTlsnKeeps
  <2>1. setup' = setup /\ now' = now /\ used' = used
    BY DEF ValidateTlsn
  <2>2. /\ seen' \in Seq(Entry) /\ Len(seen') <= MaxEntries /\ Accounted(seen', used, now)
    <3>1. seen' = seen \/ seen' = Evict(seen)
      BY DEF ValidateTlsn
    <3> QED BY <3>1, <1>TlsnParts, <1>EvictKeeps
  <2> DEFINE v == [p |-> p, need |-> need, since |-> Len(used)]
  <2>3. \/ validations' = validations
        \/ validations' = [validations EXCEPT ![c] = v] /\ ~Has(seen', p)
    BY DEF ValidateTlsn
  <2>4. v \in Validation /\ v.p = p /\ v.since = Len(used)
    <3>1. need \in Requirement
      BY <1>TlsnParts DEF Setup
    <3>2. Len(used) \in Nat
      BY <1>TlsnParts, SMTT(30)
    <3> QED BY <3>1, <3>2 DEF Validation
  <2> HIDE DEF v
  <2>5. validations' \in [Slots -> Validation \union {None}]
    BY <2>3, <2>4, <1>TlsnParts
  <2>6. ASSUME NEW o \in Slots, validations'[o] # None
        PROVE  Excused(used, validations'[o].p, validations'[o].since, now)
    <3>1. CASE validations'[o] = validations[o]
      BY <3>1, <2>6, <1>TlsnParts
    <3>2. CASE validations'[o] = v /\ ~Has(seen', p)
      BY <3>2, <2>2, <2>4, <1>TlsnParts, <1>UnknownExcused
    <3>3. validations'[o] = validations[o] \/ (validations'[o] = v /\ ~Has(seen', p))
      BY <2>3, <1>TlsnParts
    <3> QED BY <3>1, <3>2, <3>3
  <2> QED BY <2>1, <2>2, <2>5, <2>6, <1>TlsnParts, <1>TlsnAssembles

<1>VerifierFailsKeeps.
    ASSUME TlsnInv, NEW c \in Slots, VerifierFails(c)
    PROVE  TlsnInv'
  <2> USE <1>VerifierFailsKeeps
  <2>1. setup' = setup /\ now' = now /\ used' = used /\ seen' = seen
        /\ validations' = [validations EXCEPT ![c] = None]
    BY DEF VerifierFails
  <2>2. validations' \in [Slots -> Validation \union {None}]
    BY <2>1, <1>TlsnParts
  <2>3. \A o \in Slots : validations'[o] = None \/ validations'[o] = validations[o]
    BY <2>1, <1>TlsnParts
  <2>4. \A o \in Slots : validations'[o] # None =>
          Excused(used', validations'[o].p, validations'[o].since, now')
    BY <2>1, <2>3, <1>TlsnParts
  <2> QED BY <2>1, <2>2, <2>4, <1>TlsnParts, <1>TlsnAssembles

\* A second pass of a presentation: if it had only aged out of the guard, it
\* would not be fresh any more.
<1>OnceMore.
    ASSUME TlsnInv, NEW v \in Validation, Excused(used, v.p, v.since, now),
           NEW e \in Mark, e = MarkOf(v), NEW i \in 1..Len(used),
           used[i].p = v.p, used[i].passed, e.passed, v.since >= i, v.need.maxAge <= Retention
    PROVE  Crowded(used, v.p, v.since)
  <2> USE <1>OnceMore
  <2> DEFINE time == setup.proof[v.p].time
  <2>1. v.p \in Presentations /\ v.need \in Requirement /\ v.since \in Nat
    BY DEF Validation
  <2>2. Satisfies(setup.proof[v.p], v.need)
    <3>1. e.passed = Satisfies(setup.proof[v.p], v.need)
      BY DEF MarkOf
    <3> QED BY <3>1
  <2>3. time \in Nat /\ v.need.maxAge \in Nat /\ now - time < v.need.maxAge
    BY <2>1, <2>2, <1>TlsnParts, <1>SatisfiesIs
  <2>4. SoundMark(used[i])
    BY <1>TlsnParts
  <2>5. used[i].at - time \in 0..(used[i].need.maxAge - 1)
    BY <2>4 DEF SoundMark
  <2> HIDE DEF time
  <2>6. used[i].at \in Nat /\ used[i].need \in Requirement
    BY <1>TlsnParts, <1>MarkIs
  <2>7. time <= used[i].at
    <3>1. used[i].need.maxAge \in Nat
      BY <2>6 DEF Requirement
    <3> QED BY <2>3, <2>5, <2>6, <3>1, SMTT(30)
  <2>8. ~Expired(used[i].at, now)
    <3>1. now \in Nat
      BY <1>TlsnParts
    <3> QED BY <3>1, <2>3, <2>6, <2>7, FreshIs
  <2>9. i \in 1..v.since
    BY <2>1, SMTT(30)
  <2> QED BY <2>8, <2>9 DEF Excused

<1>MarkOfIs.
    ASSUME TlsnInv, NEW v \in Validation
    PROVE  /\ MarkOf(v) \in Mark /\ MarkOf(v).p = v.p /\ MarkOf(v).need = v.need
           /\ MarkOf(v).since = v.since /\ MarkOf(v).at = now
           /\ MarkOf(v).passed = Satisfies(setup.proof[v.p], v.need)
  <2> USE <1>MarkOfIs
  <2>1. v.p \in Presentations /\ v.need \in Requirement /\ v.since \in Nat
    BY DEF Validation
  <2>2. Satisfies(setup.proof[v.p], v.need) \in BOOLEAN
    BY DEF Satisfies
  <2>3. MarkOf(v) \in Mark
    BY <2>1, <2>2, <1>TlsnParts DEF MarkOf, Mark
  <2> QED BY <2>3 DEF MarkOf

<1>VerifierExitsKeeps.
    ASSUME TlsnInv, NEW c \in Slots, VerifierExits(c)
    PROVE  TlsnInv'
  <2> USE <1>VerifierExitsKeeps
  <2> DEFINE v == validations[c]
             e == MarkOf(v)
             n == Len(used)
  <2>1. /\ setup' = setup /\ now' = now /\ validations[c] # None /\ setup.proof[v.p].signed
        /\ used' = Append(used, e) /\ seen' = Evict(Remember(seen, v.p))
        /\ validations' = [validations EXCEPT ![c] = None]
    BY DEF VerifierExits, MarkOf
  <2>2. v \in Validation /\ Excused(used, v.p, v.since, now)
    BY <2>1, <1>TlsnParts
  <2>3. v.p \in Presentations /\ v.need \in Requirement /\ v.since \in Nat
    BY <2>2 DEF Validation
  <2>4. /\ e \in Mark /\ e.p = v.p /\ e.need = v.need /\ e.since = v.since /\ e.at = now
        /\ e.passed = Satisfies(setup.proof[v.p], v.need)
    BY <2>2, <1>MarkOfIs
  <2>5. e = MarkOf(v)
    OBVIOUS
  <2>6. n \in Nat /\ n = Len(used)
    BY <1>TlsnParts, SMTT(30)
  <2> HIDE DEF v, e, n
  <2>7. /\ used' \in Seq(Mark) /\ Len(used') = n + 1 /\ used'[n + 1] = e
        /\ \A k \in 1..n : used'[k] = used[k]
    BY <2>1, <2>4, <2>6, <1>TlsnParts, <1>MarkedMore
  <2>8. \A k \in 1..Len(used') : k \in 1..n \/ k = n + 1
    BY <2>6, <2>7, SMTT(30)
  <2>9. /\ seen' \in Seq(Entry) /\ Len(seen') <= MaxEntries /\ Accounted(seen', used', now)
    <3>1. Accounted(Remember(seen, v.p), used', now)
      BY <2>1, <2>4, <1>TlsnParts, <1>RememberKeeps
    <3>2. Remember(seen, v.p) \in Seq(Entry)
      BY <2>3, <1>TlsnParts, <1>RememberIs
    <3> QED BY <2>1, <2>7, <3>1, <3>2, <1>TlsnParts, <1>EvictKeeps
  <2>10. validations' \in [Slots -> Validation \union {None}]
    BY <2>1, <1>TlsnParts
  <2>11. ASSUME NEW o \in Slots, validations'[o] # None
         PROVE  Excused(used', validations'[o].p, validations'[o].since, now)
    <3>1. validations'[o] = validations[o] /\ validations[o] \in Validation
      BY <2>1, <2>11, <1>TlsnParts
    <3>2. Excused(used, validations[o].p, validations[o].since, now) /\ validations[o].since \in Nat
      BY <2>11, <3>1, <1>TlsnParts DEF Validation
    <3> QED BY <2>1, <2>4, <3>1, <3>2, <1>TlsnParts, <1>ExcusedMore
  <2>12. v.since <= n
    BY <2>2, <2>6 DEF Excused
  <2>13. ASSUME NEW k \in 1..Len(used') PROVE used'[k].since < k
    <3>1. CASE k \in 1..n
      BY <3>1, <2>6, <2>7, <1>TlsnParts
    <3>2. CASE k = n + 1
      BY <3>2, <2>3, <2>4, <2>6, <2>7, <2>12, SMTT(30)
    <3> QED BY <3>1, <3>2, <2>8
  <2>14. SoundMark(e)
    <3> SUFFICES ASSUME e.passed PROVE SoundMark(e)
      BY DEF SoundMark
    <3> DEFINE proof == setup.proof[v.p]
    <3>1. Satisfies(proof, v.need)
      BY <2>4
    <3>2. /\ v.need.host # None => proof.server = v.need.host
          /\ proof.time # None /\ proof.time \in Nat /\ v.need.maxAge \in Nat
          /\ proof.time <= now /\ now - proof.time < v.need.maxAge
          /\ \A q \in v.need.conditions :
               \/ q.type = "contains" /\ proof.body.includes
               \/ q.type = "regex" /\ q.pattern = "plain" /\ proof.body.matches
               \/ q.type = "jsonpath" /\ proof.body.json
                  /\ proof.body.value \in IF q.expected THEN {"right"} ELSE {"right", "wrong"}
      BY <2>3, <3>1, <1>TlsnParts, <1>SatisfiesIs
    <3>3. now - proof.time \in 0..(v.need.maxAge - 1)
      <4>1. now \in Nat
        BY <1>TlsnParts
      <4> HIDE DEF proof
      <4> QED BY <3>2, <4>1, SMTT(30)
    <3> QED BY <2>1, <2>4, <3>2, <3>3 DEF SoundMark
  <2>15. \A i \in 1..Len(used') : SoundMark(used'[i])
    BY <2>6, <2>7, <2>8, <2>14, <1>TlsnParts
  <2>16. ASSUME NEW i \in 1..Len(used'), NEW j \in 1..Len(used') PROVE OnceMarks(used', i, j)
    <3> SUFFICES ASSUME i < j, used'[i].p = used'[j].p, used'[i].passed, used'[j].passed,
                        used'[j].since >= i, used'[j].need.maxAge <= Retention
                 PROVE  Crowded(used', used'[j].p, used'[j].since)
      BY DEF OnceMarks
    <3>1. i \in 1..n
      BY <2>6, <2>7, SMTT(30)
    <3>2. used'[i] = used[i]
      BY <2>7, <3>1
    <3>3. CASE j \in 1..n
      <4>1. used'[j] = used[j]
        BY <2>7, <3>3
      <4>2. Crowded(used, used[j].p, used[j].since)
        BY <2>6, <3>1, <3>2, <3>3, <4>1, <1>TlsnParts DEF OnceMarks
      <4>3. used[j].since \in 0..Len(used)
        <5>1. used[j].since \in Nat /\ used[j].since < j
          BY <2>6, <3>3, <1>TlsnParts, <1>MarkIs
        <5> QED BY <5>1, <2>6, <3>3, SMTT(30)
      <4> QED BY <2>1, <2>4, <4>1, <4>2, <4>3, <1>TlsnParts, <1>CrowdedMore
    <3>4. CASE j = n + 1
      <4>1. used'[j] = e
        BY <2>7, <3>4
      <4>2. Crowded(used, v.p, v.since)
        <5>1. i \in 1..Len(used) /\ used[i].p = v.p /\ used[i].passed /\ e.passed
              /\ v.since >= i /\ v.need.maxAge <= Retention
          BY <2>4, <2>6, <3>1, <3>2, <4>1
        <5> QED BY <2>2, <2>4, <2>5, <5>1, <1>OnceMore
      <4>3. v.since \in 0..Len(used)
        BY <2>3, <2>6, <2>12, SMTT(30)
      <4> QED BY <2>1, <2>4, <4>1, <4>2, <4>3, <1>TlsnParts, <1>CrowdedMore
    <3> QED BY <3>3, <3>4, <2>8
  <2> QED BY <2>1, <2>7, <2>9, <2>10, <2>11, <2>13, <2>15, <2>16, <1>TlsnParts, <1>TlsnAssembles

<1>TlsnNextKeeps. TlsnInv /\ TlsnNext => TlsnInv'
  BY <1>ValidateTlsnKeeps, <1>VerifierExitsKeeps, <1>VerifierFailsKeeps DEF TlsnNext

\* The clock moves on, or not.
<1>TlsnClockKeeps.
    ASSUME TlsnInv, setup' = setup, Tick \/ now' = now, UNCHANGED tlsnVars
    PROVE  TlsnInv'
  <2> USE <1>TlsnClockKeeps
  <2>1. seen' = seen /\ validations' = validations /\ used' = used
    BY DEF tlsnVars
  <2>2. now' = now \/ (now' = now + 1 /\ now + 1 \in Clock)
    <3>1. CASE Tick
      <4>1. setup.until \in Clock
        BY <1>TlsnParts DEF Setup
      <4> QED BY <3>1, <4>1, <1>TlsnParts, HostAssumption, SMTT(30) DEF Tick, Clock
    <3> QED BY <3>1
  <2>3. Accounted(seen, used, now')
    BY <2>2, <1>TlsnParts, <1>LaterKeeps
  <2>4. ASSUME NEW c \in Slots, validations[c] # None
        PROVE  Excused(used, validations[c].p, validations[c].since, now')
    <3>1. validations[c] \in Validation
      BY <2>4, <1>TlsnParts
    <3>2. validations[c].since \in Nat
      BY <3>1 DEF Validation
    <3> QED BY <2>2, <2>4, <3>2, <1>TlsnParts, <1>LaterKeeps
  <2>5. now' \in Clock
    BY <2>2, <1>TlsnParts
  <2> QED BY <2>1, <2>3, <2>4, <2>5, <1>TlsnParts, <1>TlsnAssembles

<1>TlsnInitInv. Init => TlsnInv
  <2> SUFFICES ASSUME Init PROVE TlsnInv
    OBVIOUS
  <2>1. setup \in Setup
    BY SetupAssumption DEF Init
  <2>2. now \in Clock
    BY HostAssumption, SMTT(30) DEF Init, Clock
  <2>3. seen = <<>> /\ used = <<>> /\ validations = [c \in Slots |-> None]
    BY DEF Init, TlsnInit
  <2>4. /\ seen \in Seq(Entry) /\ used \in Seq(Mark) /\ Len(seen) <= MaxEntries
        /\ 1..Len(seen) = {} /\ 1..Len(used) = {}
    BY <2>3, GuardAssumption, SMTT(30)
  <2>5. TlsnTypeOK
    BY <2>3, <2>4 DEF TlsnTypeOK, Entry, Mark
  <2>6. GuardInv
    <3>1. Accounted(seen, used, now)
      BY <2>4 DEF Accounted
    <3> QED BY <2>3, <2>4, <3>1 DEF GuardInv
  <2>7. AcceptedIsSound /\ PresentationPassesOnce
    BY <2>4 DEF AcceptedIsSound, PresentationPassesOnce
  <2> QED BY <2>1, <2>2, <2>5, <2>6, <2>7 DEF TlsnInv

<1>1. TlsnInv /\ [Next]_vars => TlsnInv'
  BY StepIs, <1>TlsnNextKeeps, <1>TlsnClockKeeps
<1> QED BY <1>1, <1>TlsnInitInv, PTL DEF Spec

-----------------------------------------------------------------------------
(* Subtracting ranges.                                                     *)

\* Numbers below a bound have a largest.
LEMMA Largest ==
  ASSUME NEW n \in Nat, NEW S \in SUBSET (0..n), S # {}
  PROVE  Max(S) \in S /\ \A y \in S : y <= Max(S)
<1> DEFINE T == {n - x : x \in S}
<1>1. T \in SUBSET Nat /\ T # {}
  <2>1. ASSUME NEW x \in S PROVE n - x \in Nat
    <3>1. x \in 0..n
      OBVIOUS
    <3> QED BY <3>1, SMTT(30)
  <2> QED BY <2>1
<1>2. PICK t \in T : \A y \in T : t <= y
  BY <1>1, Least
<1>3. PICK x \in S : t = n - x
  BY <1>2
<1>4. ASSUME NEW y \in S PROVE x >= y
  <2>1. t <= n - y
    BY <1>2
  <2> QED BY <2>1, <1>3, SMTT(30)
<1>5. Max(S) \in S /\ \A y \in S : Max(S) >= y
  BY <1>4 DEF Max
<1> QED BY <1>5

\* The cursor is where the ranges end.
LEMMA CursorIs ==
  ASSUME NEW n \in Nat, NEW ranges \in SUBSET ByteRange(n)
  PROVE  /\ Cursor(ranges) \in 0..n
         /\ Cursor(ranges) = 0 \/ \E r \in ranges : Cursor(ranges) = r.end
         /\ \A r \in ranges : r.end <= Cursor(ranges)
<1> DEFINE S == {0} \union {r.end : r \in ranges}
<1>1. S \in SUBSET (0..n) /\ S # {}
  BY SMTT(30) DEF ByteRange
<1>2. Max(S) \in S /\ \A y \in S : y <= Max(S)
  BY <1>1, Largest
<1>3. Cursor(ranges) = Max(S)
  BY DEF Cursor
<1>4. \A r \in ranges : r.end \in S
  OBVIOUS
<1> QED BY <1>1, <1>2, <1>3, <1>4

\* The gap before a range, or behind all of them, with the ranges before it.
GapBefore(redact, x) == {o \in redact : o.start < x}

LEMMA SubtractIs ==
  ASSUME NEW n \in Nat \ {0}, NEW redact \in SUBSET ByteRange(n), redact # {}, NEW g
  PROVE  g \in SubtractRanges(n, redact) <=>
           /\ g.start < g.end
           /\ \/ g = [start |-> Cursor(redact), end |-> n]
              \/ \E r \in redact : g = [start |-> Cursor(GapBefore(redact, r.start)), end |-> r.start]
BY DEF SubtractRanges, GapBefore

\* A gap starts behind every range that starts before the gap ends.
LEMMA GapIs ==
  ASSUME NEW n \in Nat \ {0}, NEW redact \in SUBSET ByteRange(n), redact # {},
         NEW g \in SubtractRanges(n, redact)
  PROVE  /\ g \in ByteRange(n) /\ g.start < g.end
         /\ \A o \in redact : o.start < g.end => o.end <= g.start
<1>1. CASE g = [start |-> Cursor(redact), end |-> n]
  <2>1. Cursor(redact) \in 0..n /\ \A r \in redact : r.end <= Cursor(redact)
    BY CursorIs
  <2>2. g.start < g.end
    BY SubtractIs
  <2> QED BY <1>1, <2>1, <2>2, SMTT(30) DEF ByteRange
<1>2. ASSUME NEW r \in redact, g = [start |-> Cursor(GapBefore(redact, r.start)), end |-> r.start]
      PROVE  /\ g \in ByteRange(n) /\ g.start < g.end
             /\ \A o \in redact : o.start < g.end => o.end <= g.start
  <2> DEFINE B == GapBefore(redact, r.start)
  <2>1. B \in SUBSET ByteRange(n) /\ \A o \in redact : o.start < r.start => o \in B
    BY DEF GapBefore
  <2>2. Cursor(B) \in 0..n /\ \A o \in B : o.end <= Cursor(B)
    <3> HIDE DEF B
    <3> QED BY <2>1, CursorIs
  <2>3. g.start < g.end
    BY SubtractIs
  <2>4. r.start \in 0..n
    BY DEF ByteRange
  <2>5. g.start = Cursor(B) /\ g.end = r.start
    BY <1>2
  <2>6. g \in ByteRange(n)
    BY <1>2, <2>2, <2>4 DEF ByteRange
  <2> HIDE DEF B
  <2> QED BY <2>1, <2>2, <2>3, <2>5, <2>6
<1>3. \/ g = [start |-> Cursor(redact), end |-> n]
      \/ \E r \in redact : g = [start |-> Cursor(GapBefore(redact, r.start)), end |-> r.start]
  BY DEF SubtractRanges, GapBefore
<1> QED BY <1>1, <1>2, <1>3

\* A byte that no range has lies in a gap.
LEMMA GapFound ==
  ASSUME NEW n \in Nat \ {0}, NEW redact \in SUBSET ByteRange(n), redact # {},
         NEW b \in 0..(n - 1), \A r \in redact : ~(r.start <= b /\ b < r.end)
  PROVE  \E g \in SubtractRanges(n, redact) : g.start <= b /\ b < g.end
<1> DEFINE after == {r.start : r \in {o \in redact : b < o.start}}
<1>1. \A r \in redact : r.start \in Nat /\ r.end \in Nat /\ (r.start <= b => r.end <= b)
  BY SMTT(30) DEF ByteRange
<1>2. CASE after = {}
  <2>0. \A r \in redact : ~(b < r.start)
    BY <1>2
  <2>1. \A r \in redact : r.end <= b
    <3> HIDE DEF after
    <3> QED BY <1>1, <2>0, SMTT(30)
  <2>2. Cursor(redact) \in 0..n /\ (Cursor(redact) = 0 \/ \E r \in redact : Cursor(redact) = r.end)
    BY CursorIs
  <2>3. Cursor(redact) <= b
    BY <2>1, <2>2, SMTT(30)
  <2> DEFINE g == [start |-> Cursor(redact), end |-> n]
  <2>4. g.start <= b /\ b < g.end /\ g.start < g.end
    BY <2>2, <2>3, SMTT(30)
  <2>5. g \in SubtractRanges(n, redact)
    BY <2>4, SubtractIs
  <2> QED BY <2>4, <2>5
<1>3. CASE after # {}
  <2>1. after \in SUBSET Nat
    BY <1>1
  <2>2. PICK x \in after : \A y \in after : x <= y
    BY <1>3, <2>1, Least
  <2>3. PICK r \in redact : b < r.start /\ x = r.start
    BY <2>2
  <2> DEFINE B == GapBefore(redact, r.start)
  <2>4. B \in SUBSET ByteRange(n) /\ \A o \in B : o \in redact /\ o.start < r.start
    BY DEF GapBefore
  <2>5. ASSUME NEW o \in B PROVE o.end <= b
    <3>1. o \in redact /\ o.start < r.start
      BY <2>4
    <3>2. CASE b < o.start
      <4>1. r.start <= o.start
        BY <3>1, <3>2, <2>2, <2>3
      <4> QED BY <4>1, <3>1, <1>1, SMTT(30)
    <3> QED BY <3>1, <3>2, <1>1, SMTT(30)
  <2> HIDE DEF B
  <2>6. Cursor(B) \in 0..n /\ (Cursor(B) = 0 \/ \E o \in B : Cursor(B) = o.end)
    BY <2>4, CursorIs
  <2>7. Cursor(B) <= b
    BY <2>5, <2>6, SMTT(30)
  <2> DEFINE g == [start |-> Cursor(B), end |-> r.start]
  <2>8. g.start <= b /\ b < g.end /\ g.start < g.end
    BY <2>3, <2>6, <2>7, <1>1, SMTT(30)
  <2>9. g \in SubtractRanges(n, redact)
    BY <2>8, SubtractIs DEF B
  <2> QED BY <2>8, <2>9
<1> QED BY <1>2, <1>3

LEMMA BytesAre ==
  ASSUME NEW n \in Nat, NEW ranges \in SUBSET ByteRange(n), NEW b
  PROVE  b \in Bytes(ranges) <=> b \in 0..(n - 1) /\ \E r \in ranges : r.start <= b /\ b < r.end
<1>1. ASSUME NEW r \in ranges
      PROVE  b \in r.start..(r.end - 1) <=> b \in 0..(n - 1) /\ r.start <= b /\ b < r.end
  BY SMTT(30) DEF ByteRange
<1> QED BY <1>1 DEF Bytes

\* subtract_ranges: the ranges it returns are not empty and cover exactly the
\* bytes in none of the ranges given, whether those overlap, are nested or are
\* empty.
THEOREM SubtractExact ==
  ASSUME NEW n \in Nat \ {0}, NEW redact \in SUBSET ByteRange(n)
  PROVE  /\ SubtractRanges(n, redact) \subseteq ByteRange(n)
         /\ Bytes(SubtractRanges(n, redact)) = (0..(n - 1)) \ Bytes(redact)
         /\ \A r \in SubtractRanges(n, redact) : r.start < r.end
<1> DEFINE R == SubtractRanges(n, redact)
<1>1. CASE redact = {}
  <2>1. R = {Span(n)} /\ Span(n).start = 0 /\ Span(n).end = n
    BY <1>1 DEF SubtractRanges, Span
  <2>2. Span(n) \in ByteRange(n)
    BY SMTT(30) DEF Span, ByteRange
  <2>3. Bytes(R) = 0..(n - 1) /\ Bytes(redact) = {}
    <3>1. \A b : b \in Bytes(R) <=> b \in 0..(n - 1)
      <4> TAKE b
      <4>1. b \in Bytes(R) <=> b \in 0..(n - 1) /\ \E r \in R : r.start <= b /\ b < r.end
        BY <2>1, <2>2, BytesAre
      <4> HIDE DEF R
      <4> QED BY <4>1, <2>1, SMTT(30)
    <3>2. Bytes(redact) = {}
      BY <1>1 DEF Bytes
    <3> HIDE DEF R
    <3> QED BY <3>1, <3>2
  <2> HIDE DEF R
  <2>4. \A r \in R : r.start < r.end
    BY <2>1, SMTT(30)
  <2>5. Bytes(R) = (0..(n - 1)) \ Bytes(redact)
    BY <2>3
  <2> QED BY <2>1, <2>2, <2>4, <2>5 DEF R
<1>2. CASE redact # {}
  <2>1. \A g \in R : /\ g \in ByteRange(n) /\ g.start < g.end
                     /\ \A o \in redact : o.start < g.end => o.end <= g.start
    BY <1>2, GapIs
  <2>2. \A b \in 0..(n - 1) : (\A r \in redact : ~(r.start <= b /\ b < r.end)) =>
          \E g \in R : g.start <= b /\ b < g.end
    BY <1>2, GapFound
  <2> HIDE DEF R
  <2>3. ASSUME NEW b \in 0..(n - 1), NEW g \in R, g.start <= b, b < g.end, NEW o \in redact
        PROVE  ~(o.start <= b /\ b < o.end)
    <3>1. g \in ByteRange(n) /\ (o.start < g.end => o.end <= g.start)
      BY <2>1
    <3> QED BY <3>1, <2>3, SMTT(30) DEF ByteRange
  <2>4. \A b : b \in Bytes(R) <=> b \in 0..(n - 1) /\ \E r \in R : r.start <= b /\ b < r.end
    BY <2>1, BytesAre
  <2>5. \A b : b \in Bytes(redact) <=>
               b \in 0..(n - 1) /\ \E r \in redact : r.start <= b /\ b < r.end
    BY BytesAre
  <2>6. \A b : b \in Bytes(R) <=> b \in 0..(n - 1) /\ b \notin Bytes(redact)
    BY <2>2, <2>3, <2>4, <2>5
  <2>7. Bytes(R) = (0..(n - 1)) \ Bytes(redact)
    BY <2>6
  <2> QED BY <2>1, <2>7 DEF R
<1> QED BY <1>1, <1>2

-----------------------------------------------------------------------------
(* Making a presentation: no step of a prover, of its verifier or of the   *)



\* One step for each action, then the induction.
LEMMA NotaryAlways == Spec => []NotaryInv
<1>NotaryParts.
    ASSUME NotaryInv
    PROVE  /\ NotaryTypeOK /\ Vouched /\ (\A q \in Provers : Attended(q)) /\ RevealIsExact
           /\ setup.transport \in [Provers -> {"tcp", "ws", "local"}]
  <2> USE <1>NotaryParts
  <2> QED BY DEF NotaryInv, Setup

<1>NotaryRest.
    ASSUME NotaryInv, setup' = setup, shown' = shown, NotaryTypeOK', Vouched',
           \A q \in Provers : Attended(q)'
    PROVE  NotaryInv'
  <2> USE <1>NotaryRest
  <2>1. RevealIsExact'
    BY DEF NotaryInv, RevealIsExact
  <2> QED BY <2>1 DEF NotaryInv

<1>StartProverKeeps.
    ASSUME NotaryInv, setup' = setup, NEW p \in Provers, StartProver(p)
    PROVE  NotaryInv'
  <2> USE <1>StartProverKeeps
  <2>1. NotaryTypeOK'
    BY <1>NotaryParts, NotaryAssumption DEF NotaryTypeOK, Answers, Tasks, Sessions,
       StartProver, Moves, Task, Over
  <2>2. Vouched'
    BY <1>NotaryParts, NotaryAssumption DEF NotaryTypeOK, Vouched, Answers, Tasks,
       Sessions, StartProver, Moves, Task, Over
  <2>3. ASSUME NEW q \in Provers PROVE Attended(q)'
    BY <1>NotaryParts, NotaryAssumption, SMTT(30) DEF NotaryTypeOK, Attended, Answers, Tasks,
       Sessions, StartProver, Moves, Task, Over
  <2> QED BY <2>1, <2>2, <2>3, <1>NotaryRest DEF StartProver

<1>RegisterSessionKeeps.
    ASSUME NotaryInv, setup' = setup, NEW p \in Provers, RegisterSession(p)
    PROVE  NotaryInv'
  <2> USE <1>RegisterSessionKeeps
  <2>1. NotaryTypeOK'
    BY <1>NotaryParts, NotaryAssumption, SMTT(30) DEF NotaryTypeOK, Answers, Tasks, Sessions,
       RegisterSession, Moves
  <2>2. Vouched'
    BY <1>NotaryParts, NotaryAssumption, SMTT(30) DEF NotaryTypeOK, Vouched, Answers, Tasks,
       Sessions, RegisterSession, Moves
  <2>3. ASSUME NEW q \in Provers PROVE Attended(q)'
    BY <1>NotaryParts, NotaryAssumption, SMTT(30) DEF NotaryTypeOK, Attended, Answers, Tasks,
       Sessions, RegisterSession, Moves, Over
  <2> QED BY <2>1, <2>2, <2>3, <1>NotaryRest DEF RegisterSession

<1>ConnectVerifierKeeps.
    ASSUME NotaryInv, setup' = setup, NEW p \in Provers, ConnectVerifier(p)
    PROVE  NotaryInv'
  <2> USE <1>ConnectVerifierKeeps
  <2>1. NotaryTypeOK'
    BY <1>NotaryParts, NotaryAssumption, SMTT(30) DEF NotaryTypeOK, Answers, Tasks, Sessions,
       ConnectVerifier, Moves, Task
  <2>2. Vouched'
    BY <1>NotaryParts, NotaryAssumption DEF NotaryTypeOK, Vouched, Answers, Tasks,
       Sessions, ConnectVerifier, Moves, Task
  <2>3. ASSUME NEW q \in Provers PROVE Attended(q)'
    BY <1>NotaryParts, NotaryAssumption DEF NotaryTypeOK, Attended, Answers, Tasks,
       Sessions, ConnectVerifier, Moves, Task, Over
  <2> QED BY <2>1, <2>2, <2>3, <1>NotaryRest DEF ConnectVerifier

<1>ProvesKeeps.
    ASSUME NotaryInv, setup' = setup, NEW p \in Provers, Proves(p)
    PROVE  NotaryInv'
  <2> USE <1>ProvesKeeps
  <2>1. NotaryTypeOK'
    BY <1>NotaryParts, NotaryAssumption DEF NotaryTypeOK, Answers, Tasks, Sessions,
       Proves, Moves, Task, Over
  <2>2. Vouched'
    BY <1>NotaryParts, NotaryAssumption DEF NotaryTypeOK, Vouched, Answers, Tasks,
       Sessions, Proves, Moves, Task, Over
  <2>3. ASSUME NEW q \in Provers PROVE Attended(q)'
    BY <1>NotaryParts, NotaryAssumption DEF NotaryTypeOK, Attended, Answers, Tasks,
       Sessions, Proves, Moves, Task, Over
  <2> QED BY <2>1, <2>2, <2>3, <1>NotaryRest DEF Proves

<1>HandleTcpMpcKeeps.
    ASSUME NotaryInv, setup' = setup, NEW p \in Provers, HandleTcpMpc(p)
    PROVE  NotaryInv'
  <2> USE <1>HandleTcpMpcKeeps
  <2>1. NotaryTypeOK'
    BY <1>NotaryParts, NotaryAssumption, SMTT(30) DEF NotaryTypeOK, Answers, Tasks, Sessions,
       HandleTcpMpc, Task, Over, Verified
  <2>2. Vouched'
    BY <1>NotaryParts, NotaryAssumption DEF NotaryTypeOK, Vouched, Answers, Tasks,
       Sessions, HandleTcpMpc, Task, Over, Verified
  <2>3. ASSUME NEW q \in Provers PROVE Attended(q)'
    BY <1>NotaryParts, NotaryAssumption DEF NotaryTypeOK, Attended, Answers, Tasks,
       Sessions, HandleTcpMpc, Task, Over, Verified
  <2> QED BY <2>1, <2>2, <2>3, <1>NotaryRest DEF HandleTcpMpc

<1>SendResultKeeps.
    ASSUME NotaryInv, setup' = setup, NEW p \in Provers, SendResult(p)
    PROVE  NotaryInv'
  <2> USE <1>SendResultKeeps
  <2>1. NotaryTypeOK'
    BY <1>NotaryParts, NotaryAssumption, SMTT(30) DEF NotaryTypeOK, Answers, Tasks, Sessions,
       SendResult, Task, Over, Verified
  <2>2. Vouched'
    BY <1>NotaryParts, NotaryAssumption DEF NotaryTypeOK, Vouched, Answers, Tasks,
       Sessions, SendResult, Task, Over, Verified
  <2>3. ASSUME NEW q \in Provers PROVE Attended(q)'
    BY <1>NotaryParts, NotaryAssumption DEF NotaryTypeOK, Attended, Answers, Tasks,
       Sessions, SendResult, Task, Over, Verified
  <2> QED BY <2>1, <2>2, <2>3, <1>NotaryRest DEF SendResult

<1>AwaitRequestKeeps.
    ASSUME NotaryInv, setup' = setup, NEW p \in Provers, AwaitRequest(p)
    PROVE  NotaryInv'
  <2> USE <1>AwaitRequestKeeps
  <2>1. NotaryTypeOK'
    BY <1>NotaryParts, NotaryAssumption, SMTT(30) DEF NotaryTypeOK, Answers, Tasks, Sessions,
       AwaitRequest, Task, Over, Verified
  <2>2. Vouched'
    BY <1>NotaryParts, NotaryAssumption DEF NotaryTypeOK, Vouched, Answers, Tasks,
       Sessions, AwaitRequest, Task, Over, Verified
  <2>3. ASSUME NEW q \in Provers PROVE Attended(q)'
    BY <1>NotaryParts, NotaryAssumption DEF NotaryTypeOK, Attended, Answers, Tasks,
       Sessions, AwaitRequest, Task, Over, Verified
  <2> QED BY <2>1, <2>2, <2>3, <1>NotaryRest DEF AwaitRequest

<1>VerifierStopsKeeps.
    ASSUME NotaryInv, setup' = setup, NEW p \in Provers, VerifierStops(p)
    PROVE  NotaryInv'
  <2> USE <1>VerifierStopsKeeps
  <2>1. NotaryTypeOK'
    BY <1>NotaryParts, NotaryAssumption DEF NotaryTypeOK, Answers, Tasks, Sessions,
       VerifierStops, Task, Says, Over
  <2>2. Vouched'
    BY <1>NotaryParts, NotaryAssumption DEF NotaryTypeOK, Vouched, Answers, Tasks,
       Sessions, VerifierStops, Task, Says, Over
  <2>3. ASSUME NEW q \in Provers PROVE Attended(q)'
    BY <1>NotaryParts, NotaryAssumption DEF NotaryTypeOK, Attended, Answers, Tasks,
       Sessions, VerifierStops, Task, Says, Over
  <2> QED BY <2>1, <2>2, <2>3, <1>NotaryRest DEF VerifierStops

<1>RequestAttestationKeeps.
    ASSUME NotaryInv, setup' = setup, NEW p \in Provers, RequestAttestation(p)
    PROVE  NotaryInv'
  <2> USE <1>RequestAttestationKeeps
  <2>1. NotaryTypeOK'
    BY <1>NotaryParts, NotaryAssumption, SMTT(30) DEF NotaryTypeOK, Answers, Tasks, Sessions,
       RequestAttestation, Moves, Over
  <2>2. Vouched'
    BY <1>NotaryParts, NotaryAssumption DEF NotaryTypeOK, Vouched, Answers, Tasks,
       Sessions, RequestAttestation, Moves, Over
  <2>3. ASSUME NEW q \in Provers PROVE Attended(q)'
    BY <1>NotaryParts, NotaryAssumption, SMTT(30) DEF NotaryTypeOK, Attended, Answers, Tasks,
       Sessions, RequestAttestation, Moves, Over
  <2> QED BY <2>1, <2>2, <2>3, <1>NotaryRest DEF RequestAttestation

<1>AwaitResultKeeps.
    ASSUME NotaryInv, setup' = setup, NEW p \in Provers, AwaitResult(p)
    PROVE  NotaryInv'
  <2> USE <1>AwaitResultKeeps
  <2>1. NotaryTypeOK'
    BY <1>NotaryParts, NotaryAssumption DEF NotaryTypeOK, Answers, Tasks, Sessions,
       AwaitResult, Moves, Over
  <2>2. Vouched'
    BY <1>NotaryParts, NotaryAssumption DEF NotaryTypeOK, Vouched, Answers, Tasks,
       Sessions, AwaitResult, Moves, Over
  <2>3. ASSUME NEW q \in Provers PROVE Attended(q)'
    BY <1>NotaryParts, NotaryAssumption DEF NotaryTypeOK, Attended, Answers, Tasks,
       Sessions, AwaitResult, Moves, Over
  <2> QED BY <2>1, <2>2, <2>3, <1>NotaryRest DEF AwaitResult

<1>AttestationProtocolKeeps.
    ASSUME NotaryInv, setup' = setup, NEW p \in Provers, AttestationProtocol(p)
    PROVE  NotaryInv'
  <2> USE <1>AttestationProtocolKeeps
  <2>1. NotaryTypeOK'
    BY <1>NotaryParts, NotaryAssumption DEF NotaryTypeOK, Answers, Tasks, Sessions,
       AttestationProtocol, Moves, Over
  <2>2. Vouched'
    BY <1>NotaryParts, NotaryAssumption DEF NotaryTypeOK, Vouched, Answers, Tasks,
       Sessions, AttestationProtocol, Moves, Over
  <2>3. ASSUME NEW q \in Provers PROVE Attended(q)'
    BY <1>NotaryParts, NotaryAssumption DEF NotaryTypeOK, Attended, Answers, Tasks,
       Sessions, AttestationProtocol, Moves, Over
  <2> QED BY <2>1, <2>2, <2>3, <1>NotaryRest DEF AttestationProtocol

<1>HandleTcpAttestKeeps.
    ASSUME NotaryInv, setup' = setup, NEW p \in Provers, HandleTcpAttest(p)
    PROVE  NotaryInv'
  <2> USE <1>HandleTcpAttestKeeps
  <2>1. NotaryTypeOK'
    BY <1>NotaryParts, NotaryAssumption, SMTT(30) DEF NotaryTypeOK, Answers, Tasks, Sessions,
       HandleTcpAttest, Says
  <2>2. Vouched'
    BY <1>NotaryParts, NotaryAssumption, SMTT(30) DEF NotaryTypeOK, Vouched, Answers, Tasks,
       Sessions, HandleTcpAttest, Says
  <2>3. ASSUME NEW q \in Provers PROVE Attended(q)'
    BY <1>NotaryParts, NotaryAssumption, SMTT(30) DEF NotaryTypeOK, Attended, Answers, Tasks,
       Sessions, HandleTcpAttest, Says, Over
  <2> QED BY <2>1, <2>2, <2>3, <1>NotaryRest DEF HandleTcpAttest

<1>RunVerifierKeeps.
    ASSUME NotaryInv, setup' = setup, NEW p \in Provers, RunVerifier(p)
    PROVE  NotaryInv'
  <2> USE <1>RunVerifierKeeps
  <2>1. NotaryTypeOK'
    BY <1>NotaryParts, NotaryAssumption DEF NotaryTypeOK, Answers, Tasks, Sessions,
       RunVerifier, Task, Says
  <2>2. Vouched'
    BY <1>NotaryParts, NotaryAssumption DEF NotaryTypeOK, Vouched, Answers, Tasks,
       Sessions, RunVerifier, Task, Says
  <2>3. ASSUME NEW q \in Provers PROVE Attended(q)'
    <3>1. CASE q = p
      <4>1. answer'[p] \in Answers
        BY <1>NotaryParts DEF NotaryTypeOK, Answers, RunVerifier, Says
      <4>2. prover'[p] = "waits"
        BY DEF RunVerifier
      <4> QED BY <3>1, <4>1, <4>2, NotaryAssumption DEF Attended
    <3>2. CASE q # p
      <4>1. answer'[q] = answer[q] /\ task'[q] = task[q]
        BY <3>2, <1>NotaryParts DEF NotaryTypeOK, RunVerifier, Task, Says
      <4>2. prover' = prover /\ polls' = polls /\ session' = session
        BY DEF RunVerifier
      <4> QED BY <4>1, <4>2, <1>NotaryParts DEF Attended, Over
    <3> QED BY <3>1, <3>2
  <2> QED BY <2>1, <2>2, <2>3, <1>NotaryRest DEF RunVerifier

<1>SessionResultKeeps.
    ASSUME NotaryInv, setup' = setup, NEW p \in Provers, SessionResult(p)
    PROVE  NotaryInv'
  <2> USE <1>SessionResultKeeps
  <2>1. NotaryTypeOK'
    BY <1>NotaryParts, NotaryAssumption, SMTT(30) DEF NotaryTypeOK, Answers, Tasks, Sessions,
       SessionResult
  <2>2. Vouched'
    BY <1>NotaryParts, NotaryAssumption DEF NotaryTypeOK, Vouched, Answers, Tasks,
       Sessions, SessionResult
  <2>3. ASSUME NEW q \in Provers PROVE Attended(q)'
    BY <1>NotaryParts, NotaryAssumption DEF NotaryTypeOK, Attended, Answers, Tasks,
       Sessions, SessionResult, Over
  <2> QED BY <2>1, <2>2, <2>3, <1>NotaryRest DEF SessionResult

<1>SessionTimesOutKeeps.
    ASSUME NotaryInv, setup' = setup, NEW p \in Provers, SessionTimesOut(p)
    PROVE  NotaryInv'
  <2> USE <1>SessionTimesOutKeeps
  <2>1. NotaryTypeOK'
    BY <1>NotaryParts, NotaryAssumption DEF NotaryTypeOK, Answers, Tasks, Sessions,
       SessionTimesOut, Says
  <2>2. Vouched'
    BY <1>NotaryParts, NotaryAssumption DEF NotaryTypeOK, Vouched, Answers, Tasks,
       Sessions, SessionTimesOut, Says
  <2>3. ASSUME NEW q \in Provers PROVE Attended(q)'
    BY <1>NotaryParts, NotaryAssumption DEF NotaryTypeOK, Attended, Answers, Tasks,
       Sessions, SessionTimesOut, Says, Over
  <2> QED BY <2>1, <2>2, <2>3, <1>NotaryRest DEF SessionTimesOut

<1>SessionCompletesKeeps.
    ASSUME NotaryInv, setup' = setup, NEW p \in Provers, SessionCompletes(p)
    PROVE  NotaryInv'
  <2> USE <1>SessionCompletesKeeps
  <2>1. NotaryTypeOK'
    BY <1>NotaryParts, NotaryAssumption DEF NotaryTypeOK, Answers, Tasks, Sessions,
       SessionCompletes, Says
  <2>2. Vouched'
    BY <1>NotaryParts, NotaryAssumption DEF NotaryTypeOK, Vouched, Answers, Tasks,
       Sessions, SessionCompletes, Says
  <2>3. ASSUME NEW q \in Provers PROVE Attended(q)'
    BY <1>NotaryParts, NotaryAssumption DEF NotaryTypeOK, Attended, Answers, Tasks,
       Sessions, SessionCompletes, Says, Over
  <2> QED BY <2>1, <2>2, <2>3, <1>NotaryRest DEF SessionCompletes

<1>ProverFailsKeeps.
    ASSUME NotaryInv, setup' = setup, NEW p \in Provers, ProverFails(p)
    PROVE  NotaryInv'
  <2> USE <1>ProverFailsKeeps
  <2>1. NotaryTypeOK'
    BY <1>NotaryParts, NotaryAssumption DEF NotaryTypeOK, Answers, Tasks, Sessions,
       ProverFails
  <2>2. Vouched'
    BY <1>NotaryParts, NotaryAssumption DEF NotaryTypeOK, Vouched, Answers, Tasks,
       Sessions, ProverFails
  <2>3. ASSUME NEW q \in Provers PROVE Attended(q)'
    BY <1>NotaryParts, NotaryAssumption DEF NotaryTypeOK, Attended, Answers, Tasks,
       Sessions, ProverFails, Over
  <2> QED BY <2>1, <2>2, <2>3, <1>NotaryRest DEF ProverFails

\* The presentation reveals what is not redacted.
<1>ProverAnsweredKeeps.
    ASSUME NotaryInv, setup' = setup, NEW p \in Provers, NEW redact, ProverAnswered(p, redact)
    PROVE  NotaryInv'
  <2> USE <1>ProverAnsweredKeeps
  <2> DEFINE n == setup.length
             made1 == [redact |-> redact, reveal |-> SubtractRanges(n, redact)]
  <2>1. setup \in Setup /\ n \in Nat \ {0} /\ redact \in SUBSET ByteRange(n)
    BY DEF NotaryInv, Setup, ProverAnswered, HeaderValueRanges
  <2>2. /\ SubtractRanges(n, redact) \subseteq ByteRange(n)
        /\ Bytes(SubtractRanges(n, redact)) = (0..(n - 1)) \ Bytes(redact)
        /\ \A r \in SubtractRanges(n, redact) : r.start < r.end
    <3> HIDE DEF n
    <3> QED BY <2>1, SubtractExact
  <2>3. shown' = shown \/ shown' = [shown EXCEPT ![p] = made1]
    BY DEF ProverAnswered, BuildPresentation
  <2>4. made1 \in [redact : SUBSET ByteRange(n), reveal : SUBSET ByteRange(n)]
    BY <2>1, <2>2
  <2>5. made1.redact = redact /\ made1.reveal = SubtractRanges(n, redact)
    OBVIOUS
  <2> HIDE DEF made1, n
  <2>6. \A q \in Provers : shown'[q] = shown[q] \/ shown'[q] = made1
    BY <2>3, <1>NotaryParts DEF NotaryTypeOK
  <2>7. shown' \in [Provers -> {None} \union [redact : SUBSET ByteRange(n), reveal : SUBSET ByteRange(n)]]
    <3> DEFINE R == [redact : SUBSET ByteRange(n), reveal : SUBSET ByteRange(n)]
    <3>1. shown \in [Provers -> {None} \union R]
      BY <1>NotaryParts DEF NotaryTypeOK, n
    <3>2. made1 \in R
      BY <2>4
    <3> HIDE DEF R
    <3>3. shown' \in [Provers -> {None} \union R]
      BY <2>3, <3>1, <3>2
    <3> QED BY <3>3 DEF R
  <2>8. prover' \in [Provers -> {"idle", "register", "connect", "mpc", "proved", "waits", "done", "failed"}]
    BY <1>NotaryParts, SMTT(30) DEF NotaryTypeOK, ProverAnswered, Moves
  <2>9. NotaryTypeOK'
    BY <2>7, <2>8, <1>NotaryParts DEF NotaryTypeOK, ProverAnswered, n
  <2>10. Vouched'
    BY <1>NotaryParts DEF NotaryTypeOK, Vouched, ProverAnswered, Moves
  <2>11. ASSUME NEW q \in Provers PROVE Attended(q)'
    BY <1>NotaryParts DEF NotaryTypeOK, Attended, Over, ProverAnswered, Moves
  <2>12. RevealIsExact'
    <3> SUFFICES ASSUME NEW q \in Provers, shown'[q] # None
                 PROVE  /\ Bytes(shown'[q].reveal) = (0..(n - 1)) \ Bytes(shown'[q].redact)
                        /\ \A r \in shown'[q].reveal : r.start < r.end
      BY DEF RevealIsExact, n
    <3>1. CASE shown'[q] = shown[q]
      BY <3>1, <1>NotaryParts DEF RevealIsExact, n
    <3>2. CASE shown'[q] = made1
      BY <3>2, <2>2, <2>5
    <3> QED BY <3>1, <3>2, <2>6
  <2> QED BY <2>1, <2>9, <2>10, <2>11, <2>12 DEF NotaryInv

<1>NotaryNextKeeps. NotaryInv /\ NotaryNext /\ setup' = setup => NotaryInv'
  <2> SUFFICES ASSUME NotaryInv, setup' = setup, NEW p \in Provers,
                      \/ StartProver(p) \/ RegisterSession(p) \/ ConnectVerifier(p)
                      \/ RunProverMpc(p) \/ RunProverMpcFuturesStream(p) \/ RunProver(p)
                      \/ HandleTcpMpc(p) \/ SendResult(p) \/ AwaitRequest(p) \/ VerifierStops(p)
                      \/ RequestAttestation(p) \/ AwaitResult(p) \/ AttestationProtocol(p)
                      \/ HandleTcpAttest(p) \/ RunVerifier(p)
                      \/ SessionResult(p) \/ SessionTimesOut(p) \/ SessionCompletes(p)
                      \/ \E redact \in setup.redact : ProverAnswered(p, redact)
                      \/ ProverFails(p)
               PROVE  NotaryInv'
    BY DEF NotaryNext
  <2>1. RunProverMpc(p) \/ RunProverMpcFuturesStream(p) \/ RunProver(p) => Proves(p)
    BY DEF RunProverMpc, RunProverMpcFuturesStream, RunProver
  <2> QED BY <2>1, <1>StartProverKeeps, <1>RegisterSessionKeeps, <1>ConnectVerifierKeeps,
             <1>ProvesKeeps,
             <1>HandleTcpMpcKeeps, <1>SendResultKeeps, <1>AwaitRequestKeeps, <1>VerifierStopsKeeps,
             <1>RequestAttestationKeeps, <1>AwaitResultKeeps, <1>AttestationProtocolKeeps,
             <1>HandleTcpAttestKeeps, <1>RunVerifierKeeps, <1>SessionResultKeeps,
             <1>SessionTimesOutKeeps,
             <1>SessionCompletesKeeps, <1>ProverAnsweredKeeps, <1>ProverFailsKeeps

<1>NotaryInitInv. Init => NotaryInv
  <2> SUFFICES ASSUME Init PROVE NotaryInv
    OBVIOUS
  <2>1. setup \in Setup
    BY SetupAssumption DEF Init
  <2>2. NotaryTypeOK
    BY NotaryAssumption DEF Init, NotaryInit, NotaryTypeOK
  <2>3. Vouched /\ (\A p \in Provers : Attended(p)) /\ RevealIsExact
    <3>1. /\ \A p \in Provers : prover[p] = "idle" /\ task[p] = None /\ session[p] = None
                                /\ answer[p] = None /\ shown[p] = None
          /\ stored = {} /\ results = {}
      BY DEF Init, NotaryInit
    <3>2. Vouched
      BY <3>1, NotaryAssumption DEF Vouched, Answers, Tasks, Sessions
    <3>3. ASSUME NEW p \in Provers PROVE Attended(p)
      BY <3>1 DEF Attended
    <3>4. RevealIsExact
      BY <3>1 DEF RevealIsExact
    <3> QED BY <3>2, <3>3, <3>4
  <2> QED BY <2>1, <2>2, <2>3 DEF NotaryInv

<1>NotarySame. NotaryInv /\ setup' = setup /\ UNCHANGED notaryVars => NotaryInv'
  <2> SUFFICES ASSUME NotaryInv, setup' = setup, UNCHANGED notaryVars PROVE NotaryInv'
    OBVIOUS
  <2>1. NotaryTypeOK'
    BY <1>NotaryParts DEF NotaryTypeOK, notaryVars
  <2>2. Vouched'
    BY <1>NotaryParts DEF Vouched, notaryVars
  <2>3. \A q \in Provers : Attended(q)'
    BY <1>NotaryParts DEF Attended, Over, notaryVars
  <2> QED BY <2>1, <2>2, <2>3, <1>NotaryRest DEF notaryVars

<1>1. NotaryInv /\ [Next]_vars => NotaryInv'
  BY StepIs, <1>NotarySame, <1>NotaryNextKeeps
<1> QED BY <1>1, <1>NotaryInitInv, PTL DEF Spec
-----------------------------------------------------------------------------
(* Uploads.                                                                *)

\* One upload (of slot c) changes, and what the others depend on does not.
Leaves(c, calls, calls2, store, store2, dirs, dirs2) ==
  \A o \in Slots \ {c} :
    /\ calls2[o] = calls[o]
    /\ calls[o] # None /\ calls[o].at = "put" =>
         \A s \in calls[o].ok : calls[o].id \in store[s] => calls[o].id \in store2[s]
    /\ calls[o] # None /\ calls[o].at # "put" => dirs2[calls[o].stamp] = dirs[calls[o].stamp]

\* The changed one is good and has nothing in common with the others.
Joins(c, calls, calls2, n, store, given, dirs) ==
  calls2[c] # None =>
    /\ UploadGood(calls2[c], n, store, given, dirs)
    /\ \A o \in Slots \ {c} : calls[o] # None => Separate(calls2[c], calls[o])

\* uploadToBlossom begins.
PutGood(w, n) ==
  w.at = "put" /\ w.id = n + 1 /\ w.ok = {} /\ (w.alone => OwnVerdict(w.pgp, w.photo))

\* The call that waits for the servers.
Put(call) == [call EXCEPT !.at = "put", !.id = EncryptBlob, !.left = setup.servers]

\* uploadAttachment is called.
Called(r, p) == [at |-> "put", request |-> r, photo |-> p, stamp |-> now, pgp |-> None,
                 alone |-> TRUE, id |-> 0, left |-> {}, ok |-> {}]

\* verifyPgpSignature begins.  The directory is there: mkdir throws, and who
\* had it is no longer alone.
Sharing == {o \in Slots : uploads[o] # None /\ uploads[o].stamp = now /\ uploads[o].at # "put"}

Shared == [o \in Slots |-> IF o \in Sharing THEN [uploads[o] EXCEPT !.alone = FALSE] ELSE uploads[o]]

Refused(call, b) == [call EXCEPT !.alone = b, !.id = EncryptBlob, !.left = setup.servers]

\* References are only added.
Grows(given, given2) == \A i \in Ids : given[i] # None => given2[i] = given[i]

\* No upload under way is about a reference that is given out.
Elsewhere(calls, i) == \A o \in Slots : calls[o] # None /\ calls[o].at = "put" => calls[o].id # i

SameBut(n, i, given, given2) == \A j \in 1..n : j # i => given2[j] = given[j]

LEMMA OneMoreUpload ==
  ASSUME NEW n \in Nat, n < MaxUploads
  PROVE  n + 1 \in 0..MaxUploads /\ n <= n + 1
BY PhotoAssumption, SMTT(30)

LEMMA PhotoParts ==
  ASSUME PhotoInv
  PROVE  /\ setup \in Setup /\ now \in Clock /\ now \in Nat /\ PhotoTypeOK
         /\ UploadsGood(uploads, made, blobs, refs, pgpDir)
         /\ RefsGood(made, blobs, refs) /\ RecordsGood(records, refs)
         /\ check # None => CheckGood(check, refs)
         /\ \A v \in passed : VerdictGood(v, refs)
<1>1. now \in Nat
  BY HostAssumption, SMTT(30) DEF PhotoInv, Clock
<1> QED BY <1>1 DEF PhotoInv

LEMMA PhotoAssembles ==
  ASSUME setup \in Setup, setup' = setup, now' \in Clock, PhotoTypeOK',
         UploadsGood(uploads', made', blobs', refs', pgpDir'),
         RefsGood(made', blobs', refs'), RecordsGood(records', refs'),
         check' # None => CheckGood(check', refs'),
         \A v \in passed' : VerdictGood(v, refs')
  PROVE  PhotoInv'
<1>1. UploadsGood(uploads, made, blobs, refs, pgpDir)'
  BY DEF UploadsGood, UploadGood, Separate, OwnDir, OwnVerdict, Facts
<1>2. RefsGood(made, blobs, refs)'
  BY DEF RefsGood
<1>3. RecordsGood(records, refs)'
  BY DEF RecordsGood, RecordGood, OwnVerdict, Facts, ValidateC2pa, RunC2paTool
<1>4. (check # None => CheckGood(check, refs))'
  BY DEF CheckGood, Known, Backs, Facts
<1>5. (\A v \in passed : VerdictGood(v, refs))'
  BY DEF VerdictGood, Known, Backs, Facts
<1> QED BY <1>1, <1>2, <1>3, <1>4, <1>5 DEF PhotoInv

\* Uploads, the signature checks they wait for, and purging: what a change of one
\* upload leaves alone, then one step for each action.
LEMMA UploadStep ==
  /\ PhotoInv
  /\ \/ PurgeStale
     \/ \E c \in Slots : GpgImports(c) \/ GpgVerifies(c) \/ UploadEnds(c)
     \/ \E c \in Slots, s \in Servers : ServerAnswers(c, s)
     \/ \E c \in Slots, r \in Requests, p \in Photos : UploadAttachment(c, r, p)
  => PhotoInv'
<1>OneChanges.
    ASSUME NEW calls, NEW calls2, NEW c \in Slots, NEW n \in Nat, NEW n2 \in Nat, n <= n2,
           NEW store, NEW store2, NEW given, NEW dirs, NEW dirs2,
           UploadsGood(calls, n, store, given, dirs),
           Leaves(c, calls, calls2, store, store2, dirs, dirs2),
           Joins(c, calls, calls2, n2, store2, given, dirs2)
    PROVE  UploadsGood(calls2, n2, store2, given, dirs2)
  <2> USE <1>OneChanges
  <2>1. \A i : i \in 1..n => i \in 1..n2
    BY SMTT(30)
  <2>2. ASSUME NEW o \in Slots \ {c}, calls2[o] # None
        PROVE  UploadGood(calls2[o], n2, store2, given, dirs2)
    <3>1. calls2[o] = calls[o] /\ UploadGood(calls[o], n, store, given, dirs)
      BY <2>2 DEF UploadsGood, Leaves
    <3>2. CASE calls[o].at = "put"
      BY <2>1, <2>2, <3>1, <3>2 DEF UploadGood, Leaves
    <3>3. CASE calls[o].at # "put"
      BY <2>2, <3>1, <3>3 DEF UploadGood, Leaves
    <3> QED BY <3>2, <3>3
  <2>3. \A u, w : Separate(u, w) => Separate(w, u)
    BY DEF Separate
  <2>4. ASSUME NEW a \in Slots, NEW b \in Slots, calls2[a] # None, calls2[b] # None, a # b
        PROVE  Separate(calls2[a], calls2[b])
    <3>1. CASE a # c /\ b # c
      BY <2>4, <3>1 DEF UploadsGood, Leaves
    <3>2. CASE a = c
      BY <2>4, <3>2 DEF Leaves, Joins
    <3>3. CASE b = c
      BY <2>3, <2>4, <3>3 DEF Leaves, Joins
    <3> QED BY <3>1, <3>2, <3>3
  <2>5. ASSUME NEW a \in Slots, calls2[a] # None PROVE UploadGood(calls2[a], n2, store2, given, dirs2)
    BY <2>2, <2>5 DEF Joins
  <2> QED BY <2>4, <2>5 DEF UploadsGood

\* The blob of an upload is the next one.
<1>NextBlob.
    ASSUME NEW calls, NEW n \in Nat, NEW store, NEW given, NEW dirs, NEW o \in Slots, NEW w,
           UploadsGood(calls, n, store, given, dirs), calls[o] # None,
           w.at = "put", w.id = n + 1
    PROVE  Separate(w, calls[o])
  <2> USE <1>NextBlob
  <2>1. UploadGood(calls[o], n, store, given, dirs)
    BY DEF UploadsGood
  <2>2. calls[o].at = "put" => calls[o].id \in 1..n
    BY <2>1 DEF UploadGood
  <2>3. calls[o].at = "put" => w.id # calls[o].id
    BY <2>2, SMTT(30)
  <2> QED BY <2>3 DEF Separate

<1>PutBegins.
    ASSUME NEW calls, NEW calls2, NEW c \in Slots, NEW n \in Nat, NEW store, NEW given,
           NEW dirs, NEW dirs2,
           UploadsGood(calls, n, store, given, dirs), RefsGood(n, store, given), n + 1 \in Ids,
           Leaves(c, calls, calls2, store, store, dirs, dirs2), PutGood(calls2[c], n)
    PROVE  UploadsGood(calls2, n + 1, store, given, dirs2)
  <2> USE <1>PutBegins
  <2>1. n + 1 \in Nat /\ n <= n + 1 /\ n + 1 \in 1..(n + 1)
    BY SMTT(30)
  <2>2. given[n + 1] = None
    <3>1. ~(n + 1 <= n)
      BY SMTT(30)
    <3> QED BY <3>1 DEF RefsGood
  <2>3. UploadGood(calls2[c], n + 1, store, given, dirs2)
    BY <2>1, <2>2 DEF UploadGood, PutGood
  <2>4. \A o \in Slots \ {c} : calls[o] # None => Separate(calls2[c], calls[o])
    BY <1>NextBlob DEF PutGood
  <2>5. Joins(c, calls, calls2, n + 1, store, given, dirs2)
    BY <2>3, <2>4 DEF Joins
  <2> QED BY <2>1, <2>5, <1>OneChanges

\* The variables of uploads change and nothing else.
<1>UploadsChange.
    ASSUME PhotoInv, UNCHANGED <<setup, now, blobs, refs, records, check, passed>>,
           uploads' \in [Slots -> Upload \union {None}], pgpDir' \in [Clock -> Home \union {None}],
           made' \in 0..MaxUploads, made <= made',
           UploadsGood(uploads', made', blobs, refs, pgpDir')
    PROVE  PhotoInv'
  <2> USE <1>UploadsChange
  <2>1. PhotoTypeOK'
    BY PhotoParts DEF PhotoTypeOK
  <2>2. RefsGood(made', blobs, refs)
    <3>1. made \in Nat /\ made' \in Nat
      BY PhotoParts, PhotoAssumption, SMTT(30) DEF PhotoTypeOK
    <3>2. \A i \in Ids : i <= made => i <= made'
      BY <3>1, SMTT(30) DEF Ids
    <3> QED BY <3>2, PhotoParts DEF RefsGood
  <2> QED BY <2>1, <2>2, PhotoParts, PhotoAssembles

<1>PutTyped.
    ASSUME NEW call \in Upload, NEW i \in 0..MaxUploads, NEW l \in SUBSET Servers
    PROVE  [call EXCEPT !.at = "put", !.id = i, !.left = l] \in Upload
  <2> USE <1>PutTyped
  <2> DEFINE u1 == [call EXCEPT !.at = "put"]
             u2 == [u1 EXCEPT !.id = i]
  <2>1. u1 \in Upload
    BY DEF Upload
  <2> HIDE DEF u1
  <2>2. u2 \in Upload
    BY <2>1 DEF Upload
  <2> HIDE DEF u2
  <2>3. [u2 EXCEPT !.left = l] \in Upload
    BY <2>2 DEF Upload
  <2> QED BY <2>3 DEF u1, u2

<1>PutIs.
    ASSUME PhotoInv, NEW call \in Upload, made < MaxUploads
    PROVE  /\ made + 1 \in Ids /\ made \in Nat
           /\ Put(call) \in Upload /\ Put(call).at = "put" /\ Put(call).id = made + 1
           /\ Put(call).ok = call.ok /\ Put(call).pgp = call.pgp /\ Put(call).alone = call.alone
           /\ Put(call).photo = call.photo
  <2> USE <1>PutIs
  <2>1. made \in 0..MaxUploads
    BY PhotoParts DEF PhotoTypeOK
  <2>2. made + 1 \in Ids /\ made + 1 \in 0..MaxUploads /\ made \in Nat
    BY <2>1, PhotoAssumption, SMTT(30) DEF Ids
  <2>3. setup.servers \in SUBSET Servers
    BY PhotoParts DEF Setup
  <2>4. Put(call) \in Upload
    BY <2>2, <2>3, <1>PutTyped DEF Put, EncryptBlob
  <2>5. /\ Put(call).at = "put" /\ Put(call).id = made + 1
        /\ Put(call).ok = call.ok /\ Put(call).pgp = call.pgp /\ Put(call).alone = call.alone
        /\ Put(call).photo = call.photo
    BY DEF Put, EncryptBlob, Upload
  <2> QED BY <2>2, <2>4, <2>5

\* uploadToBlossom, from wherever the call was.
<1>BlossomKeeps.
    ASSUME PhotoInv, UNCHANGED <<setup, now, blobs, refs, records, check, passed>>,
           NEW c \in Slots, NEW call \in Upload, UploadToBlossom(c, call),
           call.ok = {}, call.alone => OwnVerdict(call.pgp, call.photo),
           pgpDir' \in [Clock -> Home \union {None}],
           \A o \in Slots \ {c} : uploads[o] # None /\ uploads[o].at # "put" =>
             pgpDir'[uploads[o].stamp] = pgpDir[uploads[o].stamp]
    PROVE  PhotoInv'
  <2> USE <1>BlossomKeeps
  <2>1. made < MaxUploads /\ made' = made + 1 /\ uploads' = [uploads EXCEPT ![c] = Put(call)]
    BY DEF UploadToBlossom, Put
  <2> DEFINE w == Put(call)
  <2>2. made + 1 \in Ids /\ made \in Nat /\ w \in Upload /\ PutGood(w, made)
    BY <2>1, <1>PutIs DEF PutGood
  <2>3. uploads \in [Slots -> Upload \union {None}]
    BY PhotoParts DEF PhotoTypeOK
  <2>4. uploads'[c] = w /\ \A o \in Slots \ {c} : uploads'[o] = uploads[o]
    BY <2>1, <2>3
  <2>8. uploads' = [uploads EXCEPT ![c] = w]
    BY <2>1
  <2> HIDE DEF w
  <2>5. UploadsGood(uploads', made + 1, blobs, refs, pgpDir')
    <3>1. Leaves(c, uploads, uploads', blobs, blobs, pgpDir, pgpDir')
      BY <2>4 DEF Leaves
    <3> QED BY <2>2, <2>4, <3>1, PhotoParts, <1>PutBegins
  <2>6. uploads' \in [Slots -> Upload \union {None}]
    BY <2>2, <2>3, <2>8
  <2>7. made' \in 0..MaxUploads /\ made <= made'
    BY <2>1, <2>2, OneMoreUpload
  <2> QED BY <2>1, <2>5, <2>6, <2>7, <1>UploadsChange

\* Uploads that check a signature have a directory with a gpg home.
<1>CheckingIs.
    ASSUME PhotoInv, NEW o \in Slots, uploads[o] # None
    PROVE  /\ uploads[o] \in Upload /\ uploads[o].stamp \in Clock /\ uploads[o].alone \in BOOLEAN
           /\ uploads[o].photo \in Photos
           /\ uploads[o].at \in {"import", "verify", "put"}
           /\ UploadGood(uploads[o], made, blobs, refs, pgpDir)
           /\ uploads[o].at # "put" =>
                /\ uploads[o].ok = {} /\ uploads[o].pgp = None
                /\ OwnDir(uploads[o], pgpDir[uploads[o].stamp])
                /\ pgpDir[uploads[o].stamp] \in Home
  <2> USE <1>CheckingIs
  <2>1. uploads[o] \in Upload
    BY PhotoParts DEF PhotoTypeOK
  <2>2. /\ uploads[o].stamp \in Clock /\ uploads[o].alone \in BOOLEAN
        /\ uploads[o].at \in {"import", "verify", "put"} /\ uploads[o].photo \in Photos
    BY <2>1 DEF Upload
  <2>3. UploadGood(uploads[o], made, blobs, refs, pgpDir)
    BY PhotoParts DEF UploadsGood
  <2>4. pgpDir \in [Clock -> Home \union {None}]
    BY PhotoParts DEF PhotoTypeOK
  <2>5. pgpDir[uploads[o].stamp] # None => pgpDir[uploads[o].stamp] \in Home
    BY <2>2, <2>4
  <2> QED BY <2>1, <2>2, <2>3, <2>5 DEF UploadGood, OwnDir

\* gpg --import: done, or failed.
<1>GpgImportsKeeps.
    ASSUME PhotoInv, NEW c \in Slots, GpgImports(c)
    PROVE  PhotoInv'
  <2> USE <1>GpgImportsKeeps
  <2> DEFINE u == uploads[c]
             d == u.stamp
  <2>1. /\ u # None /\ u.at = "import"
        /\ UNCHANGED <<setup, now, blobs, refs, records, check, passed>>
    BY DEF GpgImports
  <2>2. /\ u \in Upload /\ d \in Clock /\ u.ok = {} /\ u.pgp = None /\ OwnDir(u, pgpDir[d])
        /\ pgpDir[d] \in Home /\ u.photo \in Photos /\ u.alone \in BOOLEAN
    BY <2>1, <1>CheckingIs
  <2>3. /\ uploads \in [Slots -> Upload \union {None}]
        /\ pgpDir \in [Clock -> Home \union {None}] /\ made \in 0..MaxUploads
    BY PhotoParts DEF PhotoTypeOK
  <2>4. \/ /\ pgpDir' = [pgpDir EXCEPT ![d].key = pgpDir[d].files]
           /\ uploads' = [uploads EXCEPT ![c].at = "verify"] /\ made' = made
        \/ pgpDir' = [pgpDir EXCEPT ![d] = None] /\ UploadToBlossom(c, u)
    BY DEF GpgImports, Dir
  <2>5. \A o \in Slots \ {c} : uploads[o] # None /\ uploads[o].at # "put" => uploads[o].stamp # d
    BY <2>1, PhotoParts DEF UploadsGood, Separate
  <2>6. u = uploads[c] /\ d = u.stamp
    OBVIOUS
  <2> HIDE DEF u, d
  <2>7. CASE pgpDir' = [pgpDir EXCEPT ![d] = None] /\ UploadToBlossom(c, u)
    <3>1. pgpDir' \in [Clock -> Home \union {None}]
      BY <2>2, <2>3, <2>7
    <3>2. \A o \in Slots \ {c} : uploads[o] # None /\ uploads[o].at # "put" =>
            pgpDir'[uploads[o].stamp] = pgpDir[uploads[o].stamp]
      BY <2>3, <2>5, <2>7, <1>CheckingIs
    <3>3. OwnVerdict(u.pgp, u.photo)
      BY <2>2 DEF OwnVerdict
    <3> QED BY <2>1, <2>2, <2>7, <3>1, <3>2, <3>3, <1>BlossomKeeps
  <2>8. CASE /\ pgpDir' = [pgpDir EXCEPT ![d].key = pgpDir[d].files]
             /\ uploads' = [uploads EXCEPT ![c].at = "verify"] /\ made' = made
    <3> DEFINE w == [u EXCEPT !.at = "verify"]
               h == [pgpDir[d] EXCEPT !.key = pgpDir[d].files]
    <3>1. /\ w \in Upload /\ w.at = "verify" /\ w.ok = {} /\ w.pgp = None /\ w.stamp = d
          /\ w.alone = u.alone /\ w.photo = u.photo
      BY <2>2, <2>6 DEF Upload
    <3>2. /\ h \in Home /\ h.home = pgpDir[d].home /\ h.files = pgpDir[d].files
          /\ h.key = pgpDir[d].files
      BY <2>2 DEF Home
    <3>3. uploads' = [uploads EXCEPT ![c] = w] /\ pgpDir' = [pgpDir EXCEPT ![d] = h]
      BY <2>6, <2>8
    <3> HIDE DEF w, h
    <3>4. /\ uploads' \in [Slots -> Upload \union {None}] /\ pgpDir' \in [Clock -> Home \union {None}]
      BY <2>2, <2>3, <3>1, <3>2, <3>3
    <3>5. /\ uploads'[c] = w /\ pgpDir'[d] = h
          /\ \A o \in Slots \ {c} : uploads'[o] = uploads[o]
          /\ \A t \in Clock : t # d => pgpDir'[t] = pgpDir[t]
      BY <2>2, <2>3, <3>3
    <3>6. OwnDir(w, h)
      <4>1. h # None
        BY <3>2, AbsentAssumption
      <4> QED BY <4>1, <2>2, <3>1, <3>2 DEF OwnDir
    <3>7. UploadGood(w, made, blobs, refs, pgpDir')
      BY <3>1, <3>5, <3>6 DEF UploadGood
    <3>8. \A o \in Slots \ {c} : uploads[o] # None => Separate(w, uploads[o])
      BY <2>5, <3>1 DEF Separate
    <3>9. Leaves(c, uploads, uploads', blobs, blobs, pgpDir, pgpDir')
      BY <2>5, <3>5, <1>CheckingIs DEF Leaves
    <3>10. Joins(c, uploads, uploads', made, blobs, refs, pgpDir')
      BY <3>5, <3>7, <3>8 DEF Joins
    <3>11. made \in Nat /\ made <= made
      BY <2>3, PhotoAssumption, SMTT(30)
    <3>12. UploadsGood(uploads', made, blobs, refs, pgpDir')
      BY <3>9, <3>10, <3>11, PhotoParts, <1>OneChanges
    <3> QED BY <2>1, <2>3, <2>8, <3>4, <3>11, <3>12, <1>UploadsChange
  <2> QED BY <2>4, <2>7, <2>8

\* gpg --verify: in a directory nobody shares, the files and the key are the
\* upload's own.
<1>PgpTyped.
    ASSUME NEW u \in Upload, NEW g \in BOOLEAN
    PROVE  /\ [u EXCEPT !.pgp = g] \in Upload
           /\ [u EXCEPT !.pgp = g].pgp = g /\ [u EXCEPT !.pgp = g].ok = u.ok
           /\ [u EXCEPT !.pgp = g].alone = u.alone /\ [u EXCEPT !.pgp = g].photo = u.photo
  <2> USE <1>PgpTyped
  <2> DEFINE V == BOOLEAN \union {None}
             T == [at : {"import", "verify", "put"}, request : Requests, photo : Photos,
                   stamp : Clock, pgp : V, alone : BOOLEAN,
                   id : 0..MaxUploads, left : SUBSET Servers, ok : SUBSET Servers]
  <2>1. g \in V /\ Upload = T
    BY DEF Upload
  <2>2. u \in T
    BY <2>1
  <2> HIDE DEF V
  <2>3. /\ [u EXCEPT !.pgp = g] \in T
        /\ [u EXCEPT !.pgp = g].pgp = g /\ [u EXCEPT !.pgp = g].ok = u.ok
        /\ [u EXCEPT !.pgp = g].alone = u.alone /\ [u EXCEPT !.pgp = g].photo = u.photo
    BY <2>1, <2>2
  <2> QED BY <2>1, <2>3

<1>GpgVerifiesKeeps.
    ASSUME PhotoInv, NEW c \in Slots, GpgVerifies(c)
    PROVE  PhotoInv'
  <2> USE <1>GpgVerifiesKeeps
  <2> DEFINE u == uploads[c]
             d == u.stamp
             good == /\ pgpDir[d] # None /\ pgpDir[d].key = pgpDir[d].files
                     /\ Facts(pgpDir[d].files).pgp = "good"
             w == [u EXCEPT !.pgp = good]
  <2>1. /\ u # None /\ u.at = "verify"
        /\ UNCHANGED <<setup, now, blobs, refs, records, check, passed>>
        /\ pgpDir' = [pgpDir EXCEPT ![d] = None] /\ UploadToBlossom(c, w)
    BY DEF GpgVerifies, Dir
  <2>2. /\ u \in Upload /\ d \in Clock /\ u.ok = {} /\ OwnDir(u, pgpDir[d])
    BY <2>1, <1>CheckingIs
  <2>3. good \in BOOLEAN
    OBVIOUS
  <2>4. pgpDir \in [Clock -> Home \union {None}]
    BY PhotoParts DEF PhotoTypeOK
  <2>5. \A o \in Slots \ {c} : uploads[o] # None /\ uploads[o].at # "put" => uploads[o].stamp # d
    BY <2>1, PhotoParts DEF UploadsGood, Separate
  <2>6. u.alone => OwnVerdict(good, u.photo)
    <3>1. u.alone => /\ pgpDir[d] # None /\ pgpDir[d].key = u.photo /\ pgpDir[d].files = u.photo
      BY <2>1, <2>2 DEF OwnDir
    <3>2. u.alone => (good <=> Facts(u.photo).pgp = "good")
      BY <3>1
    <3>3. u.alone => good = (Facts(u.photo).pgp = "good")
      BY <3>2
    <3> QED BY <3>3 DEF OwnVerdict
  <2> HIDE DEF good
  <2>7. w \in Upload /\ w.ok = {} /\ (w.alone => OwnVerdict(w.pgp, w.photo))
    BY <2>2, <2>3, <2>6, <1>PgpTyped
  <2> HIDE DEF u, d, w
  <2>8. pgpDir' \in [Clock -> Home \union {None}]
    BY <2>1, <2>2, <2>4
  <2>9. \A o \in Slots \ {c} : uploads[o] # None /\ uploads[o].at # "put" =>
          pgpDir'[uploads[o].stamp] = pgpDir[uploads[o].stamp]
    BY <2>1, <2>4, <2>5, <1>CheckingIs
  <2> QED BY <2>1, <2>7, <2>8, <2>9, <1>BlossomKeeps

<1>CalledIs.
    ASSUME PhotoInv, NEW r \in Requests, NEW p \in Photos
    PROVE  /\ Called(r, p) \in Upload /\ Called(r, p).photo = p /\ Called(r, p).stamp = now
           /\ Called(r, p).pgp = None /\ Called(r, p).ok = {} /\ Called(r, p).at = "put"
  <2> USE <1>CalledIs
  <2> DEFINE V == BOOLEAN \union {None}
             N == 0..MaxUploads
             P == SUBSET Servers
             B == BOOLEAN
             yes == TRUE
  <2>1. None \in V /\ {} \in P /\ yes \in B /\ now \in Clock
    BY PhotoParts
  <2>2. 0 \in N
    BY PhotoAssumption, SMTT(30)
  <2>3. Upload = [at : {"import", "verify", "put"}, request : Requests, photo : Photos,
                  stamp : Clock, pgp : V, alone : B, id : N, left : P, ok : P]
    BY DEF Upload
  <2> HIDE DEF V, N, P, B, yes
  <2>4. [at |-> "put", request |-> r, photo |-> p, stamp |-> now, pgp |-> None,
         alone |-> yes, id |-> 0, left |-> {}, ok |-> {}] \in Upload
    BY <2>1, <2>2, <2>3
  <2>5. Called(r, p) \in Upload
    BY <2>4 DEF Called, yes
  <2> QED BY <2>5 DEF Called

<1>AloneTyped.
    ASSUME NEW u \in Upload, NEW b \in BOOLEAN
    PROVE  LET w == [u EXCEPT !.alone = b] IN
           /\ w \in Upload /\ w.alone = b /\ w.at = u.at /\ w.id = u.id /\ w.stamp = u.stamp
           /\ w.ok = u.ok /\ w.pgp = u.pgp /\ w.photo = u.photo
  <2> USE <1>AloneTyped
  <2> DEFINE B == BOOLEAN
             T == [at : {"import", "verify", "put"}, request : Requests, photo : Photos,
                   stamp : Clock, pgp : BOOLEAN \union {None}, alone : B,
                   id : 0..MaxUploads, left : SUBSET Servers, ok : SUBSET Servers]
             w == [u EXCEPT !.alone = b]
  <2>1. b \in B /\ Upload = T
    BY DEF Upload
  <2>2. u \in T
    BY <2>1
  <2> HIDE DEF B
  <2>3. /\ w \in T /\ w.alone = b /\ w.at = u.at /\ w.id = u.id /\ w.stamp = u.stamp
        /\ w.ok = u.ok /\ w.pgp = u.pgp /\ w.photo = u.photo
    BY <2>1, <2>2
  <2> QED BY <2>1, <2>3

<1>RefusedIs.
    ASSUME PhotoInv, NEW call \in Upload, made < MaxUploads, NEW b \in BOOLEAN
    PROVE  /\ Refused(call, b) \in Upload /\ Refused(call, b).at = call.at
           /\ Refused(call, b).id = made + 1 /\ Refused(call, b).ok = call.ok
           /\ Refused(call, b).pgp = call.pgp /\ Refused(call, b).photo = call.photo
  <2> USE <1>RefusedIs
  <2> DEFINE u1 == [call EXCEPT !.alone = b]
             u2 == [u1 EXCEPT !.id = made + 1]
             u3 == [u2 EXCEPT !.left = setup.servers]
  <2>1. /\ u1 \in Upload /\ u1.at = call.at /\ u1.ok = call.ok /\ u1.pgp = call.pgp
        /\ u1.photo = call.photo
    BY <1>AloneTyped
  <2>2. made + 1 \in 0..MaxUploads
    <3>1. made \in 0..MaxUploads
      BY PhotoParts DEF PhotoTypeOK
    <3> QED BY <3>1, PhotoAssumption, SMTT(30)
  <2>3. setup.servers \in SUBSET Servers
    BY PhotoParts DEF Setup
  <2>4. Refused(call, b) = u3
    BY DEF Refused, EncryptBlob
  <2> DEFINE m == made + 1
             l == setup.servers
  <2>5. m \in 0..MaxUploads /\ l \in SUBSET Servers /\ m = made + 1
    BY <2>2, <2>3
  <2>6. u2 = [u1 EXCEPT !.id = m] /\ u3 = [u2 EXCEPT !.left = l]
    OBVIOUS
  <2> HIDE DEF u1, m, l
  <2>7. /\ u2 \in Upload /\ u2.at = u1.at /\ u2.ok = u1.ok /\ u2.pgp = u1.pgp
        /\ u2.photo = u1.photo /\ u2.id = m
    BY <2>1, <2>5, <2>6 DEF Upload
  <2> HIDE DEF u2
  <2>8. /\ u3 \in Upload /\ u3.at = u2.at /\ u3.ok = u2.ok /\ u3.pgp = u2.pgp
        /\ u3.photo = u2.photo /\ u3.id = u2.id
    <3>1. [u2 EXCEPT !.left = l] \in Upload
      BY <2>5, <2>7 DEF Upload
    <3>2. LET w == [u2 EXCEPT !.left = l] IN
          w.at = u2.at /\ w.ok = u2.ok /\ w.pgp = u2.pgp /\ w.photo = u2.photo /\ w.id = u2.id
      BY <2>7 DEF Upload
    <3> QED BY <2>6, <3>1, <3>2
  <2> HIDE DEF u3
  <2> QED BY <2>1, <2>4, <2>5, <2>7, <2>8

<1>SharedGood.
    ASSUME PhotoInv, NEW p \in Photos, pgpDir[now] # None, pgpDir[now].home,
           pgpDir' = [pgpDir EXCEPT ![now].files = p]
    PROVE  /\ UploadsGood(Shared, made, blobs, refs, pgpDir')
           /\ Shared \in [Slots -> Upload \union {None}]
           /\ pgpDir' \in [Clock -> Home \union {None}]
  <2> USE <1>SharedGood
  <2> DEFINE h == [pgpDir[now] EXCEPT !.files = p]
  <2>1. pgpDir \in [Clock -> Home \union {None}] /\ now \in Clock
    BY PhotoParts DEF PhotoTypeOK
  <2>2. pgpDir[now] \in Home
    BY <2>1
  <2>3. h \in Home /\ h.home = pgpDir[now].home
    <3> DEFINE g == pgpDir[now]
    <3>1. g \in Home
      BY <2>2
    <3> HIDE DEF g
    <3>2. [g EXCEPT !.files = p] \in Home
      BY <3>1 DEF Home
    <3>3. [g EXCEPT !.files = p].home = g.home
      BY <3>1 DEF Home
    <3> QED BY <3>2, <3>3 DEF g
  <2>4. pgpDir' = [pgpDir EXCEPT ![now] = h]
    OBVIOUS
  <2> HIDE DEF h
  <2>5. h # None
    BY <2>3, AbsentAssumption
  <2>6. /\ pgpDir' \in [Clock -> Home \union {None}] /\ pgpDir'[now] = h
        /\ \A t \in Clock : t # now => pgpDir'[t] = pgpDir[t]
    BY <2>1, <2>3, <2>4
  <2>7. ASSUME NEW o \in Slots
        PROVE  /\ Shared[o] \in Upload \union {None} /\ (Shared[o] # None => uploads[o] # None)
               /\ Shared[o] # None =>
                    /\ UploadGood(Shared[o], made, blobs, refs, pgpDir')
                    /\ Shared[o].at = uploads[o].at /\ Shared[o].id = uploads[o].id
                    /\ Shared[o].stamp = uploads[o].stamp
    <3>1. CASE o \in Sharing
      <4> DEFINE u == uploads[o]
                 w == [u EXCEPT !.alone = FALSE]
      <4>1. Shared[o] = w /\ u # None /\ u.stamp = now /\ u.at # "put"
        BY <3>1 DEF Shared, Sharing
      <4>2. u \in Upload /\ UploadGood(u, made, blobs, refs, pgpDir)
        BY <4>1, <1>CheckingIs
      <4>3. /\ w \in Upload /\ w.alone = FALSE /\ w.at = u.at /\ w.id = u.id /\ w.stamp = u.stamp
            /\ w.ok = u.ok /\ w.pgp = u.pgp
        BY <4>2, <1>AloneTyped
      <4> HIDE DEF w
      <4>4. UploadGood(w, made, blobs, refs, pgpDir')
        BY <2>3, <2>5, <2>6, <4>1, <4>2, <4>3 DEF UploadGood, OwnDir
      <4> QED BY <4>1, <4>3, <4>4
    <3>2. CASE o \notin Sharing
      <4>1. Shared[o] = uploads[o] /\ uploads[o] \in Upload \union {None}
        BY <3>2, PhotoParts DEF Shared, PhotoTypeOK
      <4>2. ASSUME uploads[o] # None PROVE UploadGood(uploads[o], made, blobs, refs, pgpDir')
        <5>1. uploads[o].stamp \in Clock /\ UploadGood(uploads[o], made, blobs, refs, pgpDir)
          BY <4>2, <1>CheckingIs
        <5>2. uploads[o].at # "put" => uploads[o].stamp # now
          BY <3>2, <4>2 DEF Sharing
        <5> QED BY <2>6, <5>1, <5>2 DEF UploadGood
      <4> QED BY <4>1, <4>2
    <3> QED BY <3>1, <3>2
  <2>8. Shared \in [Slots -> Upload \union {None}]
    <3>1. Shared = [o \in Slots |-> Shared[o]]
      BY DEF Shared
    <3> QED BY <2>7, <3>1
  <2>9. \A a, b \in Slots : Shared[a] # None /\ Shared[b] # None /\ a # b => Separate(Shared[a], Shared[b])
    <3> SUFFICES ASSUME NEW a \in Slots, NEW b \in Slots, Shared[a] # None, Shared[b] # None, a # b
                 PROVE  Separate(Shared[a], Shared[b])
      OBVIOUS
    <3>1. uploads[a] # None /\ uploads[b] # None
      BY <2>7
    <3>2. Separate(uploads[a], uploads[b])
      BY <3>1, PhotoParts DEF UploadsGood
    <3>3. /\ Shared[a].at = uploads[a].at /\ Shared[a].id = uploads[a].id
          /\ Shared[a].stamp = uploads[a].stamp
          /\ Shared[b].at = uploads[b].at /\ Shared[b].id = uploads[b].id
          /\ Shared[b].stamp = uploads[b].stamp
      BY <2>7
    <3> QED BY <3>2, <3>3 DEF Separate
  <2> QED BY <2>6, <2>7, <2>8, <2>9 DEF UploadsGood

<1>RefusedKeeps.
    ASSUME PhotoInv, NEW c \in Slots, NEW call \in Upload, uploads[c] = None,
           call.at = "put", call.ok = {}, call.pgp = None,
           UNCHANGED <<setup, now, blobs, refs, records, check, passed>>,
           BeginPgp(c, call), pgpDir[now] # None /\ pgpDir[now].home
    PROVE  PhotoInv'
  <2> USE <1>RefusedKeeps
  <2> DEFINE b == (Sharing = {})
             w == Refused(call, b)
  <2>1. /\ pgpDir' = [pgpDir EXCEPT ![now].files = call.photo]
        /\ made < MaxUploads /\ made' = made + 1
        /\ uploads' = [o \in Slots |->
             IF o = c THEN w
             ELSE IF o \in Sharing THEN [uploads[o] EXCEPT !.alone = FALSE] ELSE uploads[o]]
    BY DEF BeginPgp, Dir, Sharing, Refused
  <2>2. b \in BOOLEAN /\ call.photo \in Photos
    BY DEF Upload
  <2> HIDE DEF b
  <2>3. /\ w \in Upload /\ w.at = "put" /\ w.id = made + 1 /\ w.ok = {} /\ w.pgp = None
    BY <2>1, <2>2, <1>RefusedIs
  <2>4. /\ UploadsGood(Shared, made, blobs, refs, pgpDir')
        /\ Shared \in [Slots -> Upload \union {None}]
        /\ pgpDir' \in [Clock -> Home \union {None}]
    BY <2>1, <2>2, <1>SharedGood
  <2>5. made \in 0..MaxUploads
    BY PhotoParts DEF PhotoTypeOK
  <2>6. made \in Nat /\ made + 1 \in Ids /\ made' \in 0..MaxUploads /\ made <= made'
    BY <2>1, <2>5, PhotoAssumption, SMTT(30) DEF Ids
  <2> HIDE DEF w
  <2>7. uploads'[c] = w /\ \A o \in Slots \ {c} : uploads'[o] = Shared[o]
    BY <2>1 DEF Shared
  <2>8. uploads' \in [Slots -> Upload \union {None}]
    <3>1. \A o \in Slots : uploads'[o] \in Upload \union {None}
      BY <2>3, <2>4, <2>7
    <3>2. uploads' = [o \in Slots |-> uploads'[o]]
      BY <2>1
    <3> QED BY <3>1, <3>2
  <2>9. Leaves(c, Shared, uploads', blobs, blobs, pgpDir', pgpDir')
    BY <2>7 DEF Leaves
  <2>10. PutGood(uploads'[c], made)
    BY <2>3, <2>7 DEF PutGood, OwnVerdict
  <2>11. UploadsGood(uploads', made + 1, blobs, refs, pgpDir')
    BY <2>4, <2>6, <2>9, <2>10, PhotoParts, <1>PutBegins
  <2> QED BY <2>1, <2>4, <2>6, <2>8, <2>11, <1>UploadsChange

\* The directory is new, or has no gpg home: nobody is using it.
<1>ImportBegins.
    ASSUME PhotoInv, NEW c \in Slots, NEW call \in Upload, uploads[c] = None,
           call.ok = {}, call.pgp = None, call.stamp = now,
           UNCHANGED <<setup, now, blobs, refs, records, check, passed>>,
           BeginPgp(c, call), ~(pgpDir[now] # None /\ pgpDir[now].home)
    PROVE  PhotoInv'
  <2> USE <1>ImportBegins
  <2> DEFINE w == [call EXCEPT !.at = "import"]
             h == [files |-> call.photo, home |-> TRUE, key |-> None]
  <2>1. /\ pgpDir' = [pgpDir EXCEPT ![now] = h]
        /\ uploads' = [uploads EXCEPT ![c] = w] /\ made' = made
    BY DEF BeginPgp, Dir
  <2>2. /\ w \in Upload /\ w.at = "import" /\ w.ok = {} /\ w.pgp = None /\ w.stamp = now
        /\ w.photo = call.photo
    BY DEF Upload
  <2>3. call.photo \in Photos
    BY DEF Upload
  <2>4. /\ h.home /\ h.files = call.photo
    OBVIOUS
  <2>5. h \in Home
    BY <2>3 DEF Home
  <2>6. /\ uploads \in [Slots -> Upload \union {None}]
        /\ pgpDir \in [Clock -> Home \union {None}] /\ made \in 0..MaxUploads /\ now \in Clock
    BY PhotoParts DEF PhotoTypeOK
  <2> HIDE DEF w, h
  <2>7. h # None
    BY <2>5, AbsentAssumption
  <2>8. /\ uploads' \in [Slots -> Upload \union {None}] /\ pgpDir' \in [Clock -> Home \union {None}]
    BY <2>1, <2>2, <2>5, <2>6
  <2>9. /\ uploads'[c] = w /\ pgpDir'[now] = h
        /\ \A o \in Slots \ {c} : uploads'[o] = uploads[o]
        /\ \A t \in Clock : t # now => pgpDir'[t] = pgpDir[t]
    BY <2>1, <2>6
  <2>10. \A o \in Slots : uploads[o] # None /\ uploads[o].at # "put" =>
           uploads[o].stamp # now /\ uploads[o].stamp \in Clock
    BY <1>CheckingIs DEF OwnDir
  <2>11. OwnDir(w, h)
    BY <2>2, <2>4, <2>7 DEF OwnDir
  <2>12. Joins(c, uploads, uploads', made, blobs, refs, pgpDir')
    <3>1. UploadGood(w, made, blobs, refs, pgpDir')
      BY <2>2, <2>9, <2>11 DEF UploadGood
    <3>2. \A o \in Slots \ {c} : uploads[o] # None => Separate(w, uploads[o])
      BY <2>2, <2>10 DEF Separate
    <3> QED BY <2>9, <3>1, <3>2 DEF Joins
  <2>13. Leaves(c, uploads, uploads', blobs, blobs, pgpDir, pgpDir')
    BY <2>9, <2>10 DEF Leaves
  <2>14. made \in Nat /\ made <= made
    BY <2>6, PhotoAssumption, SMTT(30)
  <2>15. UploadsGood(uploads', made, blobs, refs, pgpDir')
    BY <2>12, <2>13, <2>14, PhotoParts, <1>OneChanges
  <2> QED BY <2>1, <2>6, <2>8, <2>14, <2>15, <1>UploadsChange

<1>UploadAttachmentKeeps.
    ASSUME PhotoInv, NEW c \in Slots, NEW r \in Requests, NEW p \in Photos, UploadAttachment(c, r, p)
    PROVE  PhotoInv'
  <2> USE <1>UploadAttachmentKeeps
  <2> DEFINE call == Called(r, p)
  <2>1. /\ uploads[c] = None /\ ExtractPhotoData(c, call)
        /\ UNCHANGED <<setup, now, blobs, refs, records, check, passed>>
    BY DEF UploadAttachment, Called
  <2>2. /\ call \in Upload /\ call.stamp = now /\ call.pgp = None /\ call.ok = {}
        /\ call.at = "put"
    BY <1>CalledIs, SMTT(30)
  <2> HIDE DEF call
  <2>3. BeginPgp(c, call) \/ (UploadToBlossom(c, call) /\ UNCHANGED pgpDir)
    BY <2>1 DEF ExtractPhotoData
  <2>4. CASE BeginPgp(c, call)
    BY <2>1, <2>2, <2>4, <1>RefusedKeeps, <1>ImportBegins
  <2>5. CASE UploadToBlossom(c, call) /\ UNCHANGED pgpDir
    <3>1. pgpDir' \in [Clock -> Home \union {None}] /\ pgpDir' = pgpDir
      BY <2>5, PhotoParts DEF PhotoTypeOK
    <3>2. OwnVerdict(call.pgp, call.photo)
      BY <2>2 DEF OwnVerdict
    <3> QED BY <2>1, <2>2, <2>5, <3>1, <3>2, <1>BlossomKeeps
  <2> QED BY <2>3, <2>4, <2>5

\* A server answers: it stores the blob at most, and is counted only if it did.
<1>TwiceAt.
    ASSUME NEW S, NEW V, NEW f \in [S -> V], NEW c \in S, NEW v, NEW w
    PROVE  [[f EXCEPT ![c] = v] EXCEPT ![c] = w] = [f EXCEPT ![c] = w]
  <2> USE <1>TwiceAt
  <2> QED OBVIOUS

<1>StoreGrows.
    ASSUME PhotoInv, NEW c \in Slots, NEW s \in Servers, NEW w \in Upload, NEW u \in Upload,
           u = uploads[c], u # None, u.at = "put", w.at = "put", w.id = u.id, w.alone = u.alone,
           w.pgp = u.pgp, w.photo = u.photo,
           blobs' = blobs \/ blobs' = [blobs EXCEPT ![s] = @ \union {u.id}],
           \A t \in w.ok : u.id \in blobs'[t],
           uploads' = [uploads EXCEPT ![c] = w],
           UNCHANGED <<setup, now, pgpDir, made, refs, records, check, passed>>
    PROVE  PhotoInv'
  <2> USE <1>StoreGrows
  <2>1. /\ uploads \in [Slots -> Upload \union {None}] /\ made \in 0..MaxUploads
        /\ blobs \in [Servers -> SUBSET Ids] /\ refs \in [Ids -> Ref \union {None}]
    BY PhotoParts DEF PhotoTypeOK
  <2>2. UploadGood(u, made, blobs, refs, pgpDir)
    BY PhotoParts DEF UploadsGood
  <2>3. u.id \in Ids
    <3>1. u.id \in 1..made
      BY <2>2 DEF UploadGood
    <3> QED BY <2>1, <3>1, PhotoAssumption, SMTT(30) DEF Ids
  <2>4. /\ blobs' \in [Servers -> SUBSET Ids]
        /\ \A t \in Servers : blobs[t] \subseteq blobs'[t]
    BY <2>1, <2>3, SMTT(30)
  <2>5. \A t \in Servers, i \in Ids : i \in blobs[t] => i \in blobs'[t]
    BY <2>4
  <2>6. uploads'[c] = w /\ \A o \in Slots \ {c} : uploads'[o] = uploads[o]
    BY <2>1
  <2>7. uploads' \in [Slots -> Upload \union {None}]
    BY <2>1
  <2>8. PhotoTypeOK'
    BY <2>4, <2>7, PhotoParts DEF PhotoTypeOK
  <2>9. RefsGood(made, blobs', refs)
    <3>1. \A i \in Ids : refs[i] # None => refs[i].servers \subseteq Servers
      BY <2>1 DEF Ref
    <3> QED BY <2>5, <3>1, PhotoParts DEF RefsGood
  <2>10. Leaves(c, uploads, uploads', blobs, blobs', pgpDir, pgpDir)
    <3>1. ASSUME NEW o \in Slots, uploads[o] # None, uploads[o].at = "put", NEW t \in uploads[o].ok,
                 uploads[o].id \in blobs[t]
          PROVE  uploads[o].id \in blobs'[t]
      <4>1. uploads[o] \in Upload
        BY <2>1, <3>1
      <4>2. t \in Servers
        BY <3>1, <4>1 DEF Upload
      <4> QED BY <2>4, <3>1, <4>2
    <3> QED BY <2>6, <3>1 DEF Leaves
  <2>11. Joins(c, uploads, uploads', made, blobs', refs, pgpDir)
    <3>1. UploadGood(w, made, blobs', refs, pgpDir)
      BY <2>2 DEF UploadGood
    <3>2. \A o \in Slots \ {c} : uploads[o] # None => Separate(w, uploads[o])
      <4>1. \A o \in Slots \ {c} : uploads[o] # None => Separate(u, uploads[o])
        BY PhotoParts DEF UploadsGood
      <4> QED BY <4>1 DEF Separate
    <3> QED BY <2>6, <3>1, <3>2 DEF Joins
  <2>12. made \in Nat /\ made <= made
    BY <2>1, PhotoAssumption, SMTT(30)
  <2>13. UploadsGood(uploads', made, blobs', refs, pgpDir)
    BY <2>10, <2>11, <2>12, PhotoParts, <1>OneChanges
  <2> QED BY <2>8, <2>9, <2>13, PhotoParts, PhotoAssembles

<1>ServerAnswersKeeps.
    ASSUME PhotoInv, NEW c \in Slots, NEW s \in Servers, ServerAnswers(c, s)
    PROVE  PhotoInv'
  <2> USE <1>ServerAnswersKeeps
  <2>1. PICK stores \in BOOLEAN, answers \in BOOLEAN :
          /\ blobs' = IF stores THEN [blobs EXCEPT ![s] = @ \union {uploads[c].id}] ELSE blobs
          /\ uploads' = [uploads EXCEPT ![c].left = @ \ {s},
                                        ![c].ok = IF stores /\ answers THEN @ \union {s} ELSE @]
    BY DEF ServerAnswers
  <2> DEFINE u == uploads[c]
             k == IF stores /\ answers THEN u.ok \union {s} ELSE u.ok
             l == u.left \ {s}
             w == [u EXCEPT !.left = l, !.ok = k]
  <2>2. /\ u # None /\ u.at = "put"
        /\ UNCHANGED <<setup, now, pgpDir, made, refs, records, check, passed>>
    BY DEF ServerAnswers
  <2>3. u \in Upload /\ UploadGood(u, made, blobs, refs, pgpDir)
    BY <2>2, <1>CheckingIs
  <2>4. u.ok \in SUBSET Servers /\ u.left \in SUBSET Servers
    BY <2>3 DEF Upload
  <2>5. k \in SUBSET Servers /\ l \in SUBSET Servers
    BY <2>4
  <2>6. uploads \in [Slots -> Upload \union {None}] /\ blobs \in [Servers -> SUBSET Ids]
    BY PhotoParts DEF PhotoTypeOK
  <2>7. uploads' = [uploads EXCEPT ![c] = w]
    <3> DEFINE u1 == [u EXCEPT !.left = l]
               f1 == [uploads EXCEPT ![c] = u1]
    <3>1. u1.ok = u.ok
      BY <2>3 DEF Upload
    <3>2. f1[c] = u1
      BY <2>6
    <3>3. uploads' = [f1 EXCEPT ![c] = [f1[c] EXCEPT !.ok =
                        IF stores /\ answers THEN f1[c].ok \union {s} ELSE f1[c].ok]]
      BY <2>1
    <3>4. uploads' = [f1 EXCEPT ![c] = w]
      BY <3>1, <3>2, <3>3
    <3> HIDE DEF u1, w
    <3> QED BY <2>6, <3>4, <1>TwiceAt
  <2>8. \A t \in k : u.id \in blobs'[t]
    <3>1. \A t \in u.ok : u.id \in blobs[t]
      BY <2>2, <2>3 DEF UploadGood
    <3>2. CASE stores
      <4>1. \A t \in Servers : blobs'[t] = IF t = s THEN blobs[s] \union {u.id} ELSE blobs[t]
        BY <2>1, <2>6, <3>2
      <4> QED BY <2>4, <3>1, <4>1
    <3>3. CASE ~stores
      BY <2>1, <3>1, <3>3
    <3> QED BY <3>2, <3>3
  <2>9. blobs' = blobs \/ blobs' = [blobs EXCEPT ![s] = @ \union {u.id}]
    BY <2>1
  <2>10. u = uploads[c]
    OBVIOUS
  <2>11. w = [u EXCEPT !.left = l, !.ok = k]
    OBVIOUS
  <2> HIDE DEF u, k, l, w
  <2>12. /\ w \in Upload /\ w.ok = k /\ w.at = u.at /\ w.id = u.id /\ w.alone = u.alone
         /\ w.pgp = u.pgp /\ w.photo = u.photo
    <3> DEFINE u1 == [u EXCEPT !.left = l]
    <3>1. u1 \in Upload
      BY <2>3, <2>5 DEF Upload
    <3>2. w = [u1 EXCEPT !.ok = k]
      BY <2>11
    <3> HIDE DEF u1
    <3>3. [u1 EXCEPT !.ok = k] \in Upload
      BY <2>5, <3>1 DEF Upload
    <3>4. /\ w.ok = k /\ w.at = u.at /\ w.id = u.id /\ w.alone = u.alone
          /\ w.pgp = u.pgp /\ w.photo = u.photo
      BY <2>3, <2>11 DEF Upload
    <3> QED BY <3>2, <3>3, <3>4
  <2> QED BY <2>2, <2>3, <2>7, <2>8, <2>9, <2>10, <2>12, <1>StoreGrows

<1>GrowsKeeps.
    ASSUME NEW given, NEW given2, Grows(given, given2)
    PROVE  /\ \A k : CheckGood(k, given) => CheckGood(k, given2)
           /\ \A v : VerdictGood(v, given) => VerdictGood(v, given2)
  <2> USE <1>GrowsKeeps
  <2>1. ASSUME NEW a, a \in Photos \/ (a \in Ids /\ given[a] # None), Backs(a, given)
        PROVE  Backs(a, given2)
    BY <2>1 DEF Backs, Grows
  <2>2. \A S : Known(S, given) => Known(S, given2)
    BY DEF Known, Grows
  <2>3. ASSUME NEW k, CheckGood(k, given) PROVE CheckGood(k, given2)
    <3>1. /\ k.now \in k.attachments /\ k.todo \subseteq k.attachments /\ Known(k.attachments, given)
          /\ k.at = "blob" => k.now \notin Photos
          /\ k.validated /\ ~k.failed => \E a \in k.attachments : Backs(a, given)
      BY <2>3 DEF CheckGood
    <3>2. k.validated /\ ~k.failed => \E a \in k.attachments : Backs(a, given2)
      BY <2>1, <3>1 DEF Known
    <3> QED BY <2>2, <3>1, <3>2 DEF CheckGood
  <2>4. ASSUME NEW v, VerdictGood(v, given) PROVE VerdictGood(v, given2)
    <3>1. Known(v.attachments, given)
      BY <2>4 DEF VerdictGood
    <3>2. ASSUME setup.schema = "c2pa"
          PROVE  \E a \in v.attachments \union {i \in Ids : given2[i] # None} :
                   (a \in v.attachments \/ given2[a].request = v.request) /\ Backs(a, given2)
      <4>1. PICK a \in v.attachments \union {i \in Ids : given[i] # None} :
              (a \in v.attachments \/ given[a].request = v.request) /\ Backs(a, given)
        BY <2>4, <3>2 DEF VerdictGood
      <4>2. a \in Photos \/ (a \in Ids /\ given[a] # None)
        BY <3>1, <4>1 DEF Known
      <4>3. Backs(a, given2)
        BY <2>1, <4>1, <4>2
      <4>4. CASE a \in v.attachments
        BY <4>3, <4>4
      <4>5. CASE a \in Ids /\ given[a] # None /\ given[a].request = v.request
        <5>1. given2[a] = given[a]
          BY <4>5 DEF Grows
        <5> QED BY <4>3, <4>5, <5>1
      <4> QED BY <4>1, <4>4, <4>5
    <3> QED BY <2>2, <3>1, <3>2 DEF VerdictGood
  <2> QED BY <2>3, <2>4

\* What the tools find has its type.
<1>FoundTyped.
    ASSUME PhotoInv, NEW p \in Photos, NEW pgp \in BOOLEAN \union {None}
    PROVE  /\ ValidateC2pa(p) \subseteq C2pa
           /\ ValidateExif(p) \in BOOLEAN \union {None}
           /\ ParseProofModeZip(p, pgp) \in ProofMode /\ ParseProofModeZip(p, pgp).pgp = pgp
  <2> USE <1>FoundTyped
  <2>1. setup.tool \in BOOLEAN /\ setup.photo \in [Photos -> Photo]
    BY PhotoParts DEF Setup
  <2>2. Facts(p) \in Photo
    BY <2>1 DEF Facts
  <2>3. Facts(p).gps \in Place /\ Facts(p).jsonGps \in Place
    BY <2>2 DEF Photo
  <2>4. \A a, b, d \in BOOLEAN, g \in Place :
          [available |-> a, manifest |-> b, signature |-> d, gps |-> g] \in C2pa
    BY DEF C2pa
  <2>5. "none" \in Place
    BY DEF Place
  <2>6. ASSUME NEW x \in ValidateC2pa(p) PROVE x \in C2pa
    <3>1. \A m \in RunC2paTool(p) : HasActiveManifest(m) => m = Facts(p)
      BY DEF RunC2paTool, HasActiveManifest
    <3>2. \/ x = [available |-> setup.tool, manifest |-> FALSE, signature |-> FALSE, gps |-> "none"]
          \/ x = [available |-> TRUE, manifest |-> TRUE, signature |-> EvaluateSignature(Facts(p)),
                  gps |-> Facts(p).gps]
      BY <2>6, <3>1 DEF ValidateC2pa
    <3>3. EvaluateSignature(Facts(p)) \in BOOLEAN
      BY DEF EvaluateSignature
    <3> QED BY <2>1, <2>3, <2>4, <2>5, <3>2, <3>3
  <2>7. ValidateExif(p) \in BOOLEAN \union {None}
    BY DEF ValidateExif
  <2>8. \A f \in BOOLEAN, g \in Place : [failed |-> f, pgp |-> pgp, gps |-> g] \in ProofMode
    BY DEF ProofMode
  <2> DEFINE f == ProofJsonFails(p) \/ PgpFails(pgp)
             g == IF Facts(p).json = "absent" THEN "none" ELSE Facts(p).jsonGps
  <2>9. f \in BOOLEAN /\ g \in Place
    BY <2>3, <2>5
  <2>10. ParseProofModeZip(p, pgp) = [failed |-> f, pgp |-> pgp, gps |-> g]
    BY DEF ParseProofModeZip
  <2> HIDE DEF f, g
  <2>11. ParseProofModeZip(p, pgp) \in ProofMode /\ ParseProofModeZip(p, pgp).pgp = pgp
    <3>1. [failed |-> f, pgp |-> pgp, gps |-> g] \in ProofMode
      BY <2>8, <2>9
    <3>2. [failed |-> f, pgp |-> pgp, gps |-> g].pgp = pgp
      OBVIOUS
    <3> QED BY <2>10, <3>1, <3>2
  <2> QED BY <2>6, <2>7, <2>11

<1>GivenElsewhere.
    ASSUME NEW calls, NEW n, NEW store, NEW given, NEW given2, NEW dirs, NEW i,
           UploadsGood(calls, n, store, given, dirs),
           Elsewhere(calls, i), SameBut(n, i, given, given2)
    PROVE  UploadsGood(calls, n, store, given2, dirs)
  <2> USE <1>GivenElsewhere
  <2>1. ASSUME NEW o \in Slots, calls[o] # None PROVE UploadGood(calls[o], n, store, given2, dirs)
    <3>1. UploadGood(calls[o], n, store, given, dirs)
      BY <2>1 DEF UploadsGood
    <3> QED BY <2>1, <3>1 DEF UploadGood, Elsewhere, SameBut
  <2> QED BY <2>1 DEF UploadsGood

\* The slot of an upload that ended.
<1>SlotFreed.
    ASSUME PhotoInv, NEW c \in Slots, uploads[c] # None, uploads' = [uploads EXCEPT ![c] = None]
    PROVE  /\ uploads' \in [Slots -> Upload \union {None}] /\ uploads'[c] = None
           /\ \A o \in Slots \ {c} : uploads'[o] = uploads[o]
           /\ UploadsGood(uploads', made, blobs, refs, pgpDir)
  <2> USE <1>SlotFreed
  <2>1. uploads \in [Slots -> Upload \union {None}] /\ made \in 0..MaxUploads
    BY PhotoParts DEF PhotoTypeOK
  <2>2. /\ uploads' \in [Slots -> Upload \union {None}] /\ uploads'[c] = None
        /\ \A o \in Slots \ {c} : uploads'[o] = uploads[o]
    BY <2>1
  <2>3. made \in Nat /\ made <= made
    BY <2>1, PhotoAssumption, SMTT(30)
  <2>4. Leaves(c, uploads, uploads', blobs, blobs, pgpDir, pgpDir)
    BY <2>2 DEF Leaves
  <2>5. Joins(c, uploads, uploads', made, blobs, refs, pgpDir)
    BY <2>2 DEF Joins
  <2> QED BY <2>2, <2>3, <2>4, <2>5, PhotoParts, <1>OneChanges

\* All servers answered.  A success: the reference and the record are about the
\* photo uploaded, and nothing was there before.
<1>GivenOut.
    ASSUME PhotoInv, NEW c \in Slots, NEW u \in Upload, u = uploads[c], u # None, u.at = "put",
           u.ok # {}, NEW ref \in Ref, ref.photo = u.photo, ref.servers = u.ok,
           NEW record \in Record, RecordGood(record, ref),
           refs' = [refs EXCEPT ![u.id] = ref], records' = [records EXCEPT ![u.id] = record],
           uploads' = [uploads EXCEPT ![c] = None],
           UNCHANGED <<setup, now, pgpDir, made, blobs, check, passed>>
    PROVE  PhotoInv'
  <2> USE <1>GivenOut
  <2> DEFINE i == u.id
  <2>1. /\ refs \in [Ids -> Ref \union {None}] /\ records \in [Ids -> Record \union {None}]
        /\ made \in 0..MaxUploads
    BY PhotoParts DEF PhotoTypeOK
  <2>2. UploadGood(u, made, blobs, refs, pgpDir)
    BY PhotoParts DEF UploadsGood
  <2>3. i \in 1..made /\ refs[i] = None /\ \A s \in u.ok : i \in blobs[s]
    BY <2>2 DEF UploadGood
  <2>4. i \in Ids /\ i <= made /\ \A j \in 1..made : j \in Ids
    BY <2>1, <2>3, PhotoAssumption, SMTT(30) DEF Ids
  <2>5. \A o \in Slots \ {c} : uploads[o] # None /\ uploads[o].at = "put" => uploads[o].id # i
    BY PhotoParts DEF UploadsGood, Separate
  <2>6. i = u.id
    OBVIOUS
  <2> HIDE DEF i
  <2>7. /\ refs' \in [Ids -> Ref \union {None}] /\ records' \in [Ids -> Record \union {None}]
        /\ refs'[i] = ref /\ records'[i] = record
        /\ \A j \in Ids : j # i => refs'[j] = refs[j] /\ records'[j] = records[j]
    BY <2>1, <2>4, <2>6
  <2>8. /\ uploads' \in [Slots -> Upload \union {None}] /\ uploads'[c] = None
        /\ \A o \in Slots \ {c} : uploads'[o] = uploads[o]
        /\ UploadsGood(uploads', made, blobs, refs, pgpDir)
    BY <1>SlotFreed
  <2>9. UploadsGood(uploads', made, blobs, refs', pgpDir)
    <3>1. Elsewhere(uploads', i)
      BY <2>5, <2>8 DEF Elsewhere
    <3>2. SameBut(made, i, refs, refs')
      BY <2>4, <2>7 DEF SameBut
    <3> QED BY <2>8, <3>1, <3>2, <1>GivenElsewhere
  <2>10. PhotoTypeOK'
    BY <2>7, <2>8, PhotoParts DEF PhotoTypeOK
  <2>11. Grows(refs, refs')
    BY <2>3, <2>7 DEF Grows
  <2>12. RefsGood(made, blobs, refs')
    <3>1. ASSUME NEW j \in Ids, refs'[j] # None
          PROVE  j <= made /\ refs'[j].servers # {} /\ \A s \in refs'[j].servers : j \in blobs[s]
      <4>1. CASE j = i
        BY <2>3, <2>4, <2>7, <4>1
      <4>2. CASE j # i
        <5>1. refs'[j] = refs[j] /\ refs[j] # None
          BY <2>7, <3>1, <4>2
        <5> QED BY <5>1, PhotoParts DEF RefsGood
      <4> QED BY <4>1, <4>2
    <3> QED BY <3>1 DEF RefsGood
  <2>13. RecordsGood(records', refs')
    BY <2>7, PhotoParts DEF RecordsGood
  <2>14. check' # None => CheckGood(check', refs')
    BY <2>11, <1>GrowsKeeps, PhotoParts
  <2>15. \A v \in passed' : VerdictGood(v, refs')
    BY <2>11, <1>GrowsKeeps, PhotoParts
  <2> QED BY <2>9, <2>10, <2>12, <2>13, <2>14, <2>15, PhotoParts, PhotoAssembles

<1>UploadEndsKeeps.
    ASSUME PhotoInv, NEW c \in Slots, UploadEnds(c)
    PROVE  PhotoInv'
  <2> USE <1>UploadEndsKeeps
  <2> DEFINE u == uploads[c]
  <2>1. /\ u # None /\ u.at = "put" /\ uploads' = [uploads EXCEPT ![c] = None]
        /\ UNCHANGED <<setup, now, pgpDir, made, blobs, check, passed>>
    BY DEF UploadEnds
  <2>2. u \in Upload /\ UploadGood(u, made, blobs, refs, pgpDir)
    BY <2>1, <1>CheckingIs
  <2>3. /\ u.photo \in Photos /\ u.request \in Requests /\ u.ok \in SUBSET Servers
        /\ u.pgp \in BOOLEAN \union {None} /\ u.alone \in BOOLEAN
    BY <2>2 DEF Upload
  <2>4. CASE u.ok = {}
    <3>1. UNCHANGED <<refs, records>>
      BY <2>4 DEF UploadEnds
    <3>2. /\ uploads' \in [Slots -> Upload \union {None}]
          /\ UploadsGood(uploads', made, blobs, refs, pgpDir)
      BY <2>1, <1>SlotFreed
    <3>3. made \in 0..MaxUploads /\ pgpDir \in [Clock -> Home \union {None}]
      BY PhotoParts DEF PhotoTypeOK
    <3>4. made <= made
      BY <3>3, PhotoAssumption, SMTT(30)
    <3> QED BY <2>1, <3>1, <3>2, <3>3, <3>4, <1>UploadsChange
  <2>5. CASE u.ok # {}
    <3> DEFINE ref == [photo |-> u.photo, request |-> u.request, servers |-> u.ok]
               exif == ValidateExif(u.photo)
               mode == IF Facts(u.photo).zip THEN ParseProofModeZip(u.photo, u.pgp) ELSE None
               record(c2pa) == [request |-> u.request, at |-> now, c2pa |-> c2pa, exif |-> exif,
                                alone |-> u.alone, proofmode |-> mode]
    <3>1. PICK c2pa \in ValidateC2pa(u.photo) :
            /\ refs' = [refs EXCEPT ![u.id] = ref]
            /\ records' = [records EXCEPT ![u.id] = record(c2pa)]
      BY <2>5 DEF UploadEnds, NamedServers
    <3>2. ref \in Ref
      BY <2>3 DEF Ref
    <3>3. ref.photo = u.photo /\ ref.request = u.request /\ ref.servers = u.ok
      OBVIOUS
    <3>4. /\ c2pa \in C2pa /\ exif \in BOOLEAN \union {None}
          /\ ParseProofModeZip(u.photo, u.pgp) \in ProofMode
          /\ ParseProofModeZip(u.photo, u.pgp).pgp = u.pgp
      BY <2>3, <3>1, <1>FoundTyped
    <3>5. /\ mode \in ProofMode \union {None} /\ (mode # None => mode.pgp = u.pgp)
      BY <3>4
    <3> HIDE DEF ref, exif, mode
    <3>6. /\ record(c2pa).request = u.request /\ record(c2pa).c2pa = c2pa
          /\ record(c2pa).alone = u.alone /\ record(c2pa).proofmode = mode
      OBVIOUS
    <3>7. record(c2pa) \in Record
      <4>1. now \in Clock
        BY PhotoParts
      <4> QED BY <2>3, <3>4, <3>5, <4>1 DEF Record
    <3>8. ref # None
      BY <3>2, AbsentAssumption
    <3>9. u.alone => OwnVerdict(u.pgp, u.photo)
      BY <2>1, <2>2 DEF UploadGood
    <3> HIDE DEF record
    <3>10. RecordGood(record(c2pa), ref)
      BY <3>1, <3>3, <3>5, <3>6, <3>8, <3>9 DEF RecordGood
    <3> QED BY <2>1, <2>2, <2>5, <3>1, <3>2, <3>3, <3>7, <3>10, <1>GivenOut
  <2> QED BY <2>4, <2>5

\* purgeStale.
<1>PurgeStaleKeeps.
    ASSUME PhotoInv, PurgeStale
    PROVE  PhotoInv'
  <2> USE <1>PurgeStaleKeeps
  <2>1. UNCHANGED <<setup, now, uploads, pgpDir, made, blobs, refs, check, passed>>
    BY DEF PurgeStale
  <2>2. \A i \in Ids : records'[i] = records[i] \/ records'[i] = None
    BY DEF PurgeStale
  <2>3. records' \in [Ids -> Record \union {None}]
    <3>1. records' = [i \in Ids |-> records'[i]]
      BY DEF PurgeStale
    <3>2. \A i \in Ids : records'[i] \in Record \union {None}
      BY <2>2, PhotoParts DEF PhotoTypeOK
    <3> QED BY <3>1, <3>2
  <2>4. PhotoTypeOK'
    BY <2>1, <2>3, PhotoParts DEF PhotoTypeOK
  <2>5. RecordsGood(records', refs)
    BY <2>2, PhotoParts DEF RecordsGood
  <2> QED BY <2>1, <2>4, <2>5, PhotoParts, PhotoAssembles

<1> QED
  BY <1>PurgeStaleKeeps, <1>GpgImportsKeeps, <1>GpgVerifiesKeeps, <1>UploadEndsKeeps,
     <1>ServerAnswersKeeps,
     <1>UploadAttachmentKeeps

-----------------------------------------------------------------------------
(* The photo-integrity check.                                              *)

\* A check under way (k), verifications that passed (p).
Settles(k, p) ==
  /\ k \in Check \union {None} /\ (k # None => CheckGood(k, refs))
  /\ p \subseteq [request : Requests, attachments : SUBSET Attachments]
  /\ \A v \in p : VerdictGood(v, refs)

LEMMA CheckChanges ==
  ASSUME PhotoInv, UNCHANGED <<setup, now, uploads, pgpDir, made, blobs, refs, records>>,
         Settles(check', passed')
  PROVE  PhotoInv'
<1>1. PhotoTypeOK'
  BY PhotoParts DEF PhotoTypeOK, Settles
<1> QED BY <1>1, PhotoParts, PhotoAssembles DEF Settles

LEMMA SettledNow ==
  ASSUME PhotoInv
  PROVE  Settles(check, passed) /\ Settles(None, passed)
BY PhotoParts DEF PhotoTypeOK, Settles

\* A verdict.
LEMMA OnePasses ==
  ASSUME NEW r \in Requests, NEW atts \in SUBSET Attachments, Known(atts, refs), NEW k, NEW p,
         Settles(k, {}),
         p = {} \/ p = {[request |-> r, attachments |-> atts]},
         p # {} /\ setup.schema = "c2pa" =>
           \E a \in atts \union {i \in Ids : refs[i] # None} :
             (a \in atts \/ refs[a].request = r) /\ Backs(a, refs)
  PROVE  Settles(k, p)
<1> DEFINE v == [request |-> r, attachments |-> atts]
<1>1. v.request = r /\ v.attachments = atts
  OBVIOUS
<1>2. v \in [request : Requests, attachments : SUBSET Attachments]
  OBVIOUS
<1> HIDE DEF v
<1>3. p # {} => VerdictGood(v, refs)
  BY <1>1 DEF VerdictGood
<1>4. p = {} \/ p = {v}
  BY DEF v
<1> QED BY <1>2, <1>3, <1>4 DEF Settles

\* A reference of an attachment, and its photo.
LEMMA AttachmentIs ==
  ASSUME PhotoInv, NEW atts, Known(atts, refs), NEW a \in atts
  PROVE  /\ PhotoOf(a) \in Photos
         /\ a \notin Photos => refs[a].servers \in SUBSET Servers
         /\ Backs(a, refs) <=> /\ Facts(PhotoOf(a)).manifest = "valid"
                               /\ setup.expected => Facts(PhotoOf(a)).gps = "near"
<1>1. refs \in [Ids -> Ref \union {None}]
  BY PhotoParts DEF PhotoTypeOK
<1>2. a \in Photos \/ (a \in Ids /\ refs[a] \in Ref)
  BY <1>1 DEF Known
<1>3. refs[a] \in Ref => refs[a].photo \in Photos /\ refs[a].servers \in SUBSET Servers
  BY DEF Ref
<1> QED BY <1>2, <1>3 DEF PhotoOf, Backs

\* What c2patool found binds the photo.
LEMMA BindingBacks ==
  ASSUME PhotoInv, NEW p \in Photos, NEW c2pa \in ValidateC2pa(p), CheckC2paGpsBinding(c2pa)
  PROVE  Facts(p).manifest = "valid" /\ (setup.expected => Facts(p).gps = "near")
<1>1. setup.photo \in [Photos -> Photo]
  BY PhotoParts DEF Setup
<1>2. Facts(p).manifest \in {"none", "inactive", "unsigned", "tampered", "valid"}
  BY <1>1 DEF Facts, Photo
<1>3. \A m \in RunC2paTool(p) :
        HasActiveManifest(m) => m = Facts(p) /\ m.manifest # "none" /\ m.manifest # "inactive"
  BY DEF RunC2paTool, HasActiveManifest
<1> DEFINE none == [available |-> setup.tool, manifest |-> FALSE, signature |-> FALSE, gps |-> "none"]
           found == [available |-> TRUE, manifest |-> TRUE,
                     signature |-> EvaluateSignature(Facts(p)), gps |-> Facts(p).gps]
<1>4. /\ c2pa.manifest /\ c2pa.signature /\ (setup.expected => c2pa.gps = "near")
  BY DEF CheckC2paGpsBinding, CheckC2paSignature, VerifyC2paGpsBinding,
     EvaluateC2paGpsProximity
<1>5. \/ c2pa = none
      \/ /\ c2pa = found
         /\ Facts(p).manifest # "none" /\ Facts(p).manifest # "inactive"
  BY <1>3 DEF ValidateC2pa
<1>6. ~none.manifest /\ found.signature = EvaluateSignature(Facts(p)) /\ found.gps = Facts(p).gps
  OBVIOUS
<1> HIDE DEF none, found
<1>7. EvaluateSignature(Facts(p)) /\ (setup.expected => Facts(p).gps = "near")
  BY <1>4, <1>5, <1>6
<1> QED BY <1>2, <1>4, <1>5, <1>6, <1>7 DEF EvaluateSignature

\* fetchAttachmentData begins.
LEMMA FetchGood ==
  ASSUME PhotoInv, NEW k \in Check, CheckGood(k, refs), k.todo # {}
  PROVE  Fetch(k) \in Check /\ CheckGood(Fetch(k), refs)
<1> DEFINE a == CHOOSE i \in k.todo : TRUE
           at == IF OnBlossom(a) THEN "blob" ELSE "uri"
           left == IF a \in Photos THEN {} ELSE refs[a].servers
           todo == k.todo \ {a}
<1>1. a \in k.todo
  OBVIOUS
<1>2. /\ k.todo \in SUBSET Attachments /\ k.failed \in BOOLEAN /\ k.validated \in BOOLEAN
  BY DEF Check
<1>3. /\ k.todo \subseteq k.attachments /\ Known(k.attachments, refs)
      /\ k.validated /\ ~k.failed => \E b \in k.attachments : Backs(b, refs)
  BY DEF CheckGood
<1>4. a \in Attachments /\ a \in k.attachments /\ todo \in SUBSET Attachments
      /\ todo \subseteq k.attachments
  BY <1>1, <1>2, <1>3
<1>5. at \in {"blob", "uri", "tool"} /\ left \in SUBSET Servers
  BY <1>3, <1>4, AttachmentIs
<1>6. at = "blob" => a \notin Photos
  BY DEF OnBlossom
<1>7. 1 \in 1..MaxRetries
  BY PhotoAssumption, SMTT(30)
<1>8. Fetch(k) = [k EXCEPT !.now = a, !.attempt = 1, !.todo = todo, !.at = at, !.left = left]
  BY DEF Fetch
<1> HIDE DEF a, at, left, todo
<1> DEFINE k1 == [k EXCEPT !.now = a]
           k2 == [k1 EXCEPT !.attempt = 1]
           k3 == [k2 EXCEPT !.todo = todo]
           k4 == [k3 EXCEPT !.at = at]
           k5 == [k4 EXCEPT !.left = left]
<1>9. Fetch(k) = k5
  BY <1>8
<1>10. k1 \in Check
  BY <1>4 DEF Check
<1>11. /\ k1.now = a /\ k1.attachments = k.attachments /\ k1.failed = k.failed
       /\ k1.validated = k.validated
  BY DEF Check
<1> HIDE DEF k1
<1>12. k2 \in Check
  BY <1>7, <1>10 DEF Check
<1>13. /\ k2.now = k1.now /\ k2.attachments = k1.attachments /\ k2.failed = k1.failed
       /\ k2.validated = k1.validated
  BY <1>10 DEF Check
<1> HIDE DEF k2
<1>14. k3 \in Check
  BY <1>4, <1>12 DEF Check
<1>15. /\ k3.now = k2.now /\ k3.attachments = k2.attachments /\ k3.failed = k2.failed
       /\ k3.validated = k2.validated /\ k3.todo = todo
  BY <1>12 DEF Check
<1> HIDE DEF k3
<1>16. k4 \in Check
  BY <1>5, <1>14 DEF Check
<1>17. /\ k4.now = k3.now /\ k4.attachments = k3.attachments /\ k4.failed = k3.failed
       /\ k4.validated = k3.validated /\ k4.todo = k3.todo
  BY <1>14 DEF Check
<1>18. k4.at = at
  BY <1>14 DEF Check
<1> HIDE DEF k4
<1>19. k5 \in Check
  BY <1>5, <1>16 DEF Check
<1>20. /\ k5.now = k4.now /\ k5.attachments = k4.attachments /\ k5.failed = k4.failed
       /\ k5.validated = k4.validated /\ k5.todo = k4.todo /\ k5.at = k4.at
  BY <1>16 DEF Check
<1> HIDE DEF k5
<1>21. /\ k5.now = a /\ k5.attachments = k.attachments /\ k5.failed = k.failed
       /\ k5.validated = k.validated /\ k5.todo = todo /\ k5.at = at
  BY <1>11, <1>13, <1>15, <1>17, <1>20, <1>18
<1>22. CheckGood(k5, refs)
  BY <1>3, <1>4, <1>21, <1>6 DEF CheckGood
<1> QED BY <1>9, <1>19, <1>22

\* The loop over the images goes on, or ends with the verdict.
LEMMA ContinueSettles ==
  ASSUME PhotoInv, NEW k \in Check, CheckGood(k, refs), Continue(k)
  PROVE  Settles(check', passed')
<1>1. /\ k.request \in Requests /\ k.attachments \in SUBSET Attachments
  BY DEF Check
<1>2. /\ Known(k.attachments, refs)
      /\ k.validated /\ ~k.failed => \E a \in k.attachments : Backs(a, refs)
  BY DEF CheckGood
<1>3. CASE k.todo # {}
  <2>1. check' = Fetch(k) /\ passed' = passed
    BY <1>3 DEF Continue
  <2> QED BY <1>3, <2>1, FetchGood, SettledNow DEF Settles
<1>4. CASE k.todo = {}
  <2>1. check' = None
    BY <1>4 DEF Continue
  <2>2. \/ passed' = {}
        \/ /\ passed' = {[request |-> k.request, attachments |-> k.attachments]}
           /\ ~k.failed /\ k.validated
    BY <1>4 DEF Continue, Verdict
  <2>3. Settles(None, {})
    BY DEF Settles
  <2>4. passed' # {} => \E a \in k.attachments \union {i \in Ids : refs[i] # None} :
          (a \in k.attachments \/ refs[a].request = k.request) /\ Backs(a, refs)
    BY <1>2, <2>2
  <2> QED BY <1>1, <1>2, <2>1, <2>2, <2>3, <2>4, OnePasses
<1> QED BY <1>3, <1>4

LEMMA ToolExitsKeeps ==
  ASSUME PhotoInv, ToolExits
  PROVE  PhotoInv'
<1> DEFINE k == check
<1>1. /\ k # None /\ UNCHANGED <<setup, now, uploads, pgpDir, made, blobs, refs, records>>
  BY DEF ToolExits, Waits
<1>2. k \in Check /\ CheckGood(k, refs)
  BY <1>1, PhotoParts DEF PhotoTypeOK
<1> DEFINE bound(c2pa) == CheckC2paGpsBinding(c2pa)
<1>3. PICK c2pa \in ValidateC2pa(PhotoOf(k.now)) :
        Continue([k EXCEPT !.failed = k.failed \/ ~bound(c2pa), !.validated = TRUE])
  BY DEF ToolExits
<1>4. /\ k.now \in k.attachments /\ k.todo \subseteq k.attachments /\ Known(k.attachments, refs)
      /\ k.at = "tool"
  BY <1>2 DEF CheckGood, ToolExits, Waits
<1>5. bound(c2pa) => Backs(k.now, refs)
  BY <1>3, <1>4, AttachmentIs, BindingBacks
<1> DEFINE f == k.failed \/ ~bound(c2pa)
           y == TRUE
           B == BOOLEAN
           k1 == [k EXCEPT !.failed = f]
           k2 == [k1 EXCEPT !.validated = y]
<1>6. f \in B /\ y \in B /\ (~f => bound(c2pa))
  OBVIOUS
<1>7. Continue(k2)
  BY <1>3
<1>8. Check = [at : {"blob", "uri", "tool"}, request : Requests, attachments : SUBSET Attachments,
               todo : SUBSET Attachments, now : Attachments, attempt : 1..MaxRetries,
               left : SUBSET Servers, failed : B, validated : B]
  BY DEF Check
<1> HIDE DEF k, f, y, B
<1>9. k1 \in Check
  BY <1>2, <1>6, <1>8
<1>10. /\ k1.now = k.now /\ k1.attachments = k.attachments /\ k1.todo = k.todo /\ k1.failed = f
       /\ k1.at = k.at
  BY <1>2, <1>8
<1> HIDE DEF k1
<1>11. k2 \in Check
  BY <1>6, <1>8, <1>9
<1>12. /\ k2.now = k1.now /\ k2.attachments = k1.attachments /\ k2.todo = k1.todo
       /\ k2.failed = k1.failed /\ k2.at = k1.at
  BY <1>8, <1>9
<1> HIDE DEF k2, bound
<1>13. CheckGood(k2, refs)
  <2>1. ~k2.failed => bound(c2pa)
    BY <1>6, <1>10, <1>12
  <2>2. k2.now \in k2.attachments /\ k2.todo \subseteq k2.attachments /\ Known(k2.attachments, refs)
        /\ k2.at = "tool"
    BY <1>4, <1>10, <1>12
  <2>3. ~k2.failed => \E a \in k2.attachments : Backs(a, refs)
    BY <1>4, <1>5, <1>10, <1>12, <2>1
  <2> QED BY <2>2, <2>3 DEF CheckGood
<1> QED BY <1>1, <1>7, <1>11, <1>13, ContinueSettles, CheckChanges

\* The check goes on to (k) with the same attachments, and no better off.
Follows(k, k0) ==
  /\ k \in Check /\ k.now = k0.now /\ k.attachments = k0.attachments /\ k.todo = k0.todo
  /\ k.validated = k0.validated /\ (~k.failed => ~k0.failed)
  /\ k.at = "blob" => k0.at = "blob"

LEMMA FollowsGood ==
  ASSUME PhotoInv, check # None, NEW k, Follows(k, check)
  PROVE  CheckGood(k, refs) /\ Settles(k, passed)
<1>1. CheckGood(check, refs)
  BY PhotoParts
<1>2. CheckGood(k, refs)
  BY <1>1 DEF CheckGood, Follows
<1> QED BY <1>2, SettledNow DEF Settles, Follows

LEMMA AtFollows ==
  ASSUME NEW k0 \in Check, NEW at \in {"uri", "tool"}
  PROVE  Follows([k0 EXCEPT !.at = at], k0)
<1> DEFINE k == [k0 EXCEPT !.at = at]
<1>1. k \in Check
  BY DEF Check
<1>2. /\ k.now = k0.now /\ k.attachments = k0.attachments /\ k.todo = k0.todo
      /\ k.validated = k0.validated /\ k.failed = k0.failed /\ k.at = at
  BY DEF Check
<1> QED BY <1>1, <1>2 DEF Follows

LEMMA LeftFollows ==
  ASSUME NEW k0 \in Check, NEW left \in SUBSET Servers
  PROVE  Follows([k0 EXCEPT !.left = left], k0)
<1> DEFINE k == [k0 EXCEPT !.left = left]
<1>1. k \in Check
  BY DEF Check
<1>2. /\ k.now = k0.now /\ k.attachments = k0.attachments /\ k.todo = k0.todo
      /\ k.validated = k0.validated /\ k.failed = k0.failed /\ k.at = k0.at
  BY DEF Check
<1> QED BY <1>1, <1>2 DEF Follows

LEMMA AttemptFollows ==
  ASSUME NEW k0 \in Check, k0.attempt < MaxRetries
  PROVE  Follows([k0 EXCEPT !.attempt = k0.attempt + 1], k0)
<1> DEFINE n == k0.attempt + 1
           k == [k0 EXCEPT !.attempt = n]
<1>1. k0.attempt \in 1..MaxRetries
  BY DEF Check
<1>2. n \in 1..MaxRetries
  BY <1>1, PhotoAssumption, SMTT(30)
<1> HIDE DEF n
<1>3. k \in Check
  BY <1>2 DEF Check
<1>4. /\ k.now = k0.now /\ k.attachments = k0.attachments /\ k.todo = k0.todo
      /\ k.validated = k0.validated /\ k.failed = k0.failed /\ k.at = k0.at
  BY DEF Check
<1>5. Follows(k, k0)
  BY <1>3, <1>4 DEF Follows
<1> QED BY <1>5 DEF n

LEMMA FailedFollows ==
  ASSUME NEW k0 \in Check
  PROVE  Follows([k0 EXCEPT !.failed = TRUE], k0) /\ [k0 EXCEPT !.failed = TRUE] \in Check
<1> DEFINE B == BOOLEAN
           y == TRUE
           T == [at : {"blob", "uri", "tool"}, request : Requests, attachments : SUBSET Attachments,
                 todo : SUBSET Attachments, now : Attachments, attempt : 1..MaxRetries,
                 left : SUBSET Servers, failed : B, validated : B]
           k == [k0 EXCEPT !.failed = y]
<1>1. Check = T /\ y \in B
  BY DEF Check
<1>2. y
  OBVIOUS
<1>3. k0 \in T
  BY <1>1
<1> HIDE DEF B, y
<1>4. k \in T
  BY <1>1, <1>3
<1>5. /\ k.now = k0.now /\ k.attachments = k0.attachments /\ k.todo = k0.todo
      /\ k.validated = k0.validated /\ k.failed = y /\ k.at = k0.at
  BY <1>3
<1>6. Follows(k, k0) /\ k \in Check
  BY <1>1, <1>2, <1>4, <1>5 DEF Follows
<1> QED BY <1>6 DEF y

LEMMA FollowsTwice ==
  ASSUME NEW k0, NEW k1, NEW k2, Follows(k1, k0), Follows(k2, k1)
  PROVE  Follows(k2, k0)
BY DEF Follows

LEMMA FetchUriKeeps ==
  ASSUME PhotoInv, FetchUri
  PROVE  PhotoInv'
<1>1. /\ check # None /\ UNCHANGED <<setup, now, uploads, pgpDir, made, blobs, refs, records>>
  BY DEF FetchUri, Waits
<1>2. check \in Check
  BY <1>1, PhotoParts DEF PhotoTypeOK
<1>3. CASE check' = [check EXCEPT !.at = "tool"] /\ UNCHANGED passed
  <2>1. Settles(check', passed')
    BY <1>1, <1>2, <1>3, AtFollows, FollowsGood
  <2> QED BY <1>1, <2>1, CheckChanges
<1>4. CASE Continue([check EXCEPT !.failed = TRUE])
  <2> DEFINE k == [check EXCEPT !.failed = TRUE]
  <2>1. k \in Check /\ Follows(k, check)
    BY <1>2, FailedFollows
  <2> HIDE DEF k
  <2>2. CheckGood(k, refs)
    BY <1>1, <2>1, FollowsGood
  <2>3. Continue(k)
    BY <1>4 DEF k
  <2> QED BY <1>1, <2>1, <2>2, <2>3, ContinueSettles, CheckChanges
<1> QED BY <1>3, <1>4 DEF FetchUri

LEMMA AskServerKeeps ==
  ASSUME PhotoInv, NEW s \in Servers, AskServer(s)
  PROVE  PhotoInv'
<1>1. /\ check # None
      /\ UNCHANGED <<setup, now, uploads, pgpDir, made, blobs, refs, records, passed>>
  BY DEF AskServer, Waits
<1>2. check \in Check /\ CheckGood(check, refs)
  BY <1>1, PhotoParts DEF PhotoTypeOK
<1>3. check.left \ {s} \in SUBSET Servers /\ check.at = "blob"
  BY <1>2 DEF Check, AskServer, Waits
<1>4. Follows(check', check)
  <2>1. CASE check' = [check EXCEPT !.at = "tool"]
    BY <1>2, <2>1, AtFollows
  <2>2. CASE check' = [check EXCEPT !.left = check.left \ {s}]
    BY <1>2, <1>3, <2>2, LeftFollows
  <2>3. CASE /\ check.attempt < MaxRetries
             /\ check' = [check EXCEPT !.attempt = check.attempt + 1, !.left = refs[check.now].servers]
    <3> DEFINE k1 == [check EXCEPT !.attempt = check.attempt + 1]
    <3>1. Follows(k1, check)
      BY <1>2, <2>3, AttemptFollows
    <3>2. refs[check.now].servers \in SUBSET Servers
      BY <1>2, <1>3, AttachmentIs DEF CheckGood
    <3>3. check' = [k1 EXCEPT !.left = refs[check.now].servers]
      BY <2>3
    <3> HIDE DEF k1
    <3>4. Follows(check', k1)
      BY <3>1, <3>2, <3>3, LeftFollows DEF Follows
    <3> QED BY <3>1, <3>4, FollowsTwice
  <2>4. CASE check' = [check EXCEPT !.at = "uri", !.left = {}]
    <3> DEFINE k1 == [check EXCEPT !.at = "uri"]
    <3>1. Follows(k1, check)
      BY <1>2, AtFollows
    <3>2. check' = [k1 EXCEPT !.left = {}]
      BY <2>4
    <3> HIDE DEF k1
    <3>3. Follows(check', k1)
      BY <3>1, <3>2, LeftFollows DEF Follows
    <3> QED BY <3>1, <3>3, FollowsTwice
  <2> QED BY <2>1, <2>2, <2>3, <2>4 DEF AskServer
<1> QED BY <1>1, <1>4, FollowsGood, CheckChanges

\* Stored records settle the verification, or the attachments are fetched.
LEMMA RecordsSettle ==
  ASSUME PhotoInv, NEW r \in Requests, NEW atts \in SUBSET Attachments, Known(atts, refs),
         RecordsFor(r, atts) # {}, \A i \in RecordsFor(r, atts) : CheckRecord(records[i])
  PROVE  \E a \in atts \union {i \in Ids : refs[i] # None} :
           (a \in atts \/ refs[a].request = r) /\ Backs(a, refs)
<1>1. PICK i : i \in RecordsFor(r, atts) /\ CheckRecord(records[i])
  OBVIOUS
<1>2. i \in Ids /\ records[i] # None /\ (i \in atts \/ records[i].request = r)
  <2> DEFINE own == {j \in atts \intersect Ids : records[j] # None}
             all == {j \in Ids : records[j] # None /\ records[j].request = r}
  <2>1. i \in own \/ i \in all
    BY <1>1 DEF RecordsFor
  <2> QED BY <2>1
<1>3. RecordGood(records[i], refs[i])
  BY <1>2, PhotoParts DEF RecordsGood
<1>4. /\ refs[i] # None /\ records[i].request = refs[i].request
      /\ records[i].c2pa \in ValidateC2pa(refs[i].photo)
  BY <1>3 DEF RecordGood
<1>5. i \notin Photos
  <2>1. i \in Nat
    BY <1>2, SMTT(30) DEF Ids
  <2> QED BY <2>1, PhotoAssumption
<1>6. Known({i}, refs)
  BY <1>2, <1>4 DEF Known
<1>7. PhotoOf(i) = refs[i].photo /\ PhotoOf(i) \in Photos
  BY <1>5, <1>6, AttachmentIs DEF PhotoOf
<1>8. CheckC2paGpsBinding(records[i].c2pa)
  BY <1>1 DEF CheckRecord
<1>9. Backs(i, refs)
  BY <1>4, <1>6, <1>7, <1>8, BindingBacks, AttachmentIs
<1> QED BY <1>2, <1>4, <1>9

\* The check before its first fetch.
Begin(r, atts, images, failed) ==
  [at |-> "uri", request |-> r, attachments |-> atts, todo |-> images,
   now |-> CHOOSE a \in images : TRUE, attempt |-> 1, left |-> {}, failed |-> failed,
   validated |-> FALSE]

LEMMA BeginsGood ==
  ASSUME PhotoInv, NEW r \in Requests, NEW atts \in SUBSET Attachments, Known(atts, refs),
         NEW images \in SUBSET atts, images # {}, NEW failed \in BOOLEAN
  PROVE  LET k == Begin(r, atts, images, failed) IN
           k \in Check /\ CheckGood(k, refs) /\ k.todo # {}
<1> DEFINE first == CHOOSE a \in images : TRUE
           B == BOOLEAN
           not == FALSE
           N == 1..MaxRetries
           P == SUBSET Servers
           A == SUBSET Attachments
<1>1. first \in images
  OBVIOUS
<1>2. /\ first \in Attachments /\ images \in A /\ atts \in A /\ failed \in B /\ not \in B
      /\ {} \in P
  BY <1>1
<1>3. 1 \in N
  BY PhotoAssumption, SMTT(30)
<1>4. Check = [at : {"blob", "uri", "tool"}, request : Requests, attachments : A,
               todo : A, now : Attachments, attempt : N, left : P, failed : B, validated : B]
  BY DEF Check
<1>5. ~not
  OBVIOUS
<1> DEFINE k == [at |-> "uri", request |-> r, attachments |-> atts, todo |-> images,
                 now |-> first, attempt |-> 1, left |-> {}, failed |-> failed,
                 validated |-> not]
<1>6. Begin(r, atts, images, failed) = k
  BY DEF Begin
<1> HIDE DEF first, B, not, N, P, A
<1>7. k \in Check
  BY <1>2, <1>3, <1>4
<1>8. k.at = "uri" /\ k.now = first /\ k.attachments = atts /\ k.todo = images /\ k.validated = not
  OBVIOUS
<1> HIDE DEF k
<1>9. CheckGood(k, refs)
  BY <1>1, <1>5, <1>8 DEF CheckGood
<1> QED BY <1>6, <1>7, <1>8, <1>9

LEMMA IntegritySettles ==
  ASSUME PhotoInv, NEW r \in Requests, NEW atts \in SUBSET Attachments, Known(atts, refs),
         NEW failed \in BOOLEAN, VerifyPhotoIntegrity(r, atts, failed), check = None
  PROVE  Settles(check', passed')
<1> DEFINE found == RecordsFor(r, atts)
           images == {a \in atts : Facts(PhotoOf(a)).image}
<1>1. Settles(None, {})
  BY DEF Settles
<1>2. CASE found # {}
  <2>1. /\ check' = None
        /\ \/ passed' = {}
           \/ /\ passed' = {[request |-> r, attachments |-> atts]}
              /\ \A i \in found : CheckRecord(records[i])
    BY <1>2 DEF VerifyPhotoIntegrity, Verdict
  <2>2. passed' # {} => \E a \in atts \union {i \in Ids : refs[i] # None} :
          (a \in atts \/ refs[a].request = r) /\ Backs(a, refs)
    BY <1>2, <2>1, RecordsSettle
  <2> QED BY <1>1, <2>1, <2>2, OnePasses
<1>3. CASE found = {} /\ images = {}
  <2>1. check' = None /\ passed' = {}
    BY <1>3 DEF VerifyPhotoIntegrity, Verdict
  <2> QED BY <1>1, <2>1
<1>4. CASE found = {} /\ images # {}
  <2> DEFINE k == Begin(r, atts, images, failed)
  <2>1. check' = Fetch(k) /\ passed' = passed
    BY <1>4 DEF VerifyPhotoIntegrity, Begin
  <2>2. images \in SUBSET atts
    OBVIOUS
  <2> HIDE DEF images
  <2>3. k \in Check /\ CheckGood(k, refs) /\ k.todo # {}
    BY <1>4, <2>2, BeginsGood
  <2> HIDE DEF k
  <2>4. Fetch(k) \in Check /\ CheckGood(Fetch(k), refs)
    BY <2>3, FetchGood
  <2> QED BY <2>1, <2>4, SettledNow DEF Settles
<1> QED BY <1>2, <1>3, <1>4

LEMMA VerifyPhotosKeeps ==
  ASSUME PhotoInv, NEW r \in Requests, NEW atts \in SUBSET Attachments,
         NEW evidence \in Place \union {"malformed"}, VerifyPhotos(r, atts, evidence)
  PROVE  PhotoInv'
<1>1. /\ check = None /\ UNCHANGED <<setup, now, uploads, pgpDir, made, blobs, refs, records>>
  BY DEF VerifyPhotos
<1>2. setup.external \in SUBSET Photos /\ setup.schema \in {"c2pa", "generic", "unknown"}
  BY PhotoParts DEF Setup
<1>3. Known(atts, refs)
  BY <1>2 DEF VerifyPhotos, Known
<1>4. Settles(None, {})
  BY DEF Settles
<1>5. CASE setup.schema = "c2pa"
  <2>1. PhotoIntegrityCheck(r, atts, evidence)
    BY <1>5 DEF VerifyPhotos
  <2>2. CASE EvidenceResolves(evidence) /\ atts # {}
    <3> DEFINE failed == ~CheckSchemaEvidenceGps(evidence)
    <3>1. failed \in BOOLEAN /\ VerifyPhotoIntegrity(r, atts, failed)
      BY <2>1, <2>2 DEF PhotoIntegrityCheck
    <3> HIDE DEF failed
    <3> QED BY <1>1, <1>3, <3>1, IntegritySettles, CheckChanges
  <2>3. CASE ~(EvidenceResolves(evidence) /\ atts # {})
    <3>1. check' = None /\ passed' = {}
      BY <1>1, <2>1, <2>3 DEF PhotoIntegrityCheck, Verdict
    <3> QED BY <1>1, <1>4, <3>1, CheckChanges
  <2> QED BY <2>2, <2>3
<1>6. CASE setup.schema # "c2pa"
  <2>1. check' = None /\ (passed' = {} \/ passed' = {[request |-> r, attachments |-> atts]})
    BY <1>1, <1>2, <1>6 DEF VerifyPhotos, Verdict
  <2>2. Settles(check', passed')
    BY <1>3, <1>4, <1>6, <2>1, OnePasses
  <2> QED BY <1>1, <2>2, CheckChanges
<1> QED BY <1>5, <1>6

LEMMA PhotoStep ==
  ASSUME PhotoInv, PhotoNext
  PROVE  PhotoInv'
<1>1. CASE FetchUri \/ ToolExits
  BY <1>1, FetchUriKeeps, ToolExitsKeeps
<1>2. CASE \E s \in Servers : AskServer(s)
  BY <1>2, AskServerKeeps
<1>3. CASE \E r \in Requests, atts \in SUBSET Attachments,
              evidence \in Place \union {"malformed"} : VerifyPhotos(r, atts, evidence)
  BY <1>3, VerifyPhotosKeeps
<1> QED BY <1>1, <1>2, <1>3, UploadStep DEF PhotoNext

\* Other steps: at most the clock goes on.
LEMMA PhotoRests ==
  ASSUME PhotoInv, setup' = setup, now' \in Clock, UNCHANGED photoVars
  PROVE  PhotoInv'
<1>1. PhotoTypeOK'
  BY PhotoParts DEF PhotoTypeOK, photoVars
<1> QED BY <1>1, PhotoParts, PhotoAssembles DEF photoVars

LEMMA PhotoBegins ==
  ASSUME Init
  PROVE  PhotoInv
<1>1. setup \in Setup
  BY SetupAssumption DEF Init
<1>2. now \in Clock /\ made \in 0..MaxUploads
  BY HostAssumption, PhotoAssumption, SMTT(30) DEF Init, PhotoInit, Clock
<1>3. PhotoTypeOK
  BY <1>2 DEF Init, PhotoInit, PhotoTypeOK
<1>4. UploadsGood(uploads, made, blobs, refs, pgpDir)
  BY DEF Init, PhotoInit, UploadsGood
<1>5. RefsGood(made, blobs, refs) /\ RecordsGood(records, refs)
  BY DEF Init, PhotoInit, RefsGood, RecordsGood
<1>6. check = None /\ passed = {}
  BY DEF Init, PhotoInit
<1> QED BY <1>1, <1>2, <1>3, <1>4, <1>5, <1>6 DEF PhotoInv

LEMMA PhotoAlways == Spec => []PhotoInv
<1>1. Init => PhotoInv
  BY PhotoBegins
<1>2. PhotoInv /\ [Next]_vars => PhotoInv'
  <2> SUFFICES ASSUME PhotoInv, [Next]_vars PROVE PhotoInv'
    OBVIOUS
  <2>1. CASE PhotoNext
    BY <2>1, PhotoStep
  <2>2. CASE UNCHANGED photoVars
    <3>1. setup' = setup /\ (Tick \/ now' = now)
      BY StepIs
    <3>2. now \in Clock /\ setup \in Setup
      BY PhotoParts
    <3>3. now' \in Clock
      <4>1. setup.until \in Clock
        BY <3>2 DEF Setup
      <4> QED BY <3>1, <3>2, <4>1, ClockGoesOn
    <3> QED BY <2>2, <3>1, <3>3, PhotoRests
  <2> QED BY <2>1, <2>2, StepIs
<1> QED BY <1>1, <1>2, PTL DEF Spec

-----------------------------------------------------------------------------
(* Theorems.                                                               *)

\* Every variable of evidence verification keeps its type: the guard's map never
\* exceeds its capacity, attempts and polls stay within their limits, and every
\* upload, record, session and answer is of a kind the code knows.
THEOREM VerificationTyped == Spec => []TypeOK
<1>1. TlsnInv /\ PhotoInv /\ NotaryInv => TypeOK
  BY DEF TlsnInv, PhotoInv, NotaryInv, TypeOK
<1> QED BY <1>1, TlsnAlways, PhotoAlways, NotaryAlways, PTL

\* validateTlsn: whatever passes was signed, is from the host required, had the
\* right age when it was judged, and meets every condition; for any number of
\* overlapping validations and however long the verifier took.
THEOREM TlsnAcceptsSound == Spec => []AcceptedIsSound
<1>1. TlsnInv => AcceptedIsSound
  BY DEF TlsnInv
<1> QED BY <1>1, TlsnAlways, PTL

\* replay-guard.ts: a presentation passes twice only if the validations
\* overlapped, the maximal age exceeds the retention, or a full map's worth of
\* other presentations came between; for every capacity and retention.
THEOREM ReplayIsRefused == Spec => []PresentationPassesOnce
<1>1. TlsnInv => PresentationPassesOnce
  BY DEF TlsnInv
<1> QED BY <1>1, TlsnAlways, PTL

\* verifyPhotoIntegrity: a C2PA verification that passes rests on a photo with a
\* valid manifest near the expected place, submitted or uploaded for this
\* request; whichever way it was settled, by records or by fetching.
THEOREM PhotoPassIsBacked == Spec => []PassIsBacked
<1>1. PhotoInv => PassIsBacked
  <2> SUFFICES ASSUME PhotoInv, setup.schema = "c2pa", NEW v \in passed
               PROVE  \E a \in v.attachments \union {i \in Ids : refs[i] # None} :
                        /\ a \in v.attachments \/ refs[a].request = v.request
                        /\ Facts(PhotoOf(a)).manifest = "valid"
                        /\ setup.expected => Facts(PhotoOf(a)).gps = "near"
    BY DEF PassIsBacked
  <2>1. VerdictGood(v, refs)
    BY PhotoParts
  <2>2. PICK a \in v.attachments \union {i \in Ids : refs[i] # None} :
          (a \in v.attachments \/ refs[a].request = v.request) /\ Backs(a, refs)
    BY <2>1 DEF VerdictGood
  <2>3. Known({a}, refs)
    BY <2>1, <2>2 DEF VerdictGood, Known
  <2>4. /\ Facts(PhotoOf(a)).manifest = "valid"
        /\ setup.expected => Facts(PhotoOf(a)).gps = "near"
    BY <2>2, <2>3, AttachmentIs
  <2> QED BY <2>2, <2>4
<1> QED BY <1>1, PhotoAlways, PTL

\* uploadToBlossom, buildAttachmentRef: a reference handed out names at least one
\* server, and every server it names stores the blob; for every number of servers
\* and of uploads under way.
THEOREM ReferencesAreStored == Spec => []ReferenceIsStored
<1>1. PhotoInv => ReferenceIsStored
  BY PhotoParts DEF RefsGood, ReferenceIsStored
<1> QED BY <1>1, PhotoAlways, PTL

\* verifyPgpSignature: the verdict stored about a bundle's signature is about
\* that bundle, unless another check began in the same millisecond.
THEOREM PgpVerdictsAreOwn == Spec => []PgpVerdictIsOwn
<1>1. PhotoInv => PgpVerdictIsOwn
  BY PhotoParts DEF RecordsGood, RecordGood, OwnVerdict, PgpVerdictIsOwn
<1> QED BY <1>1, PhotoAlways, PTL

\* main of tlsn-prover: a presentation is made only of a run that the verifier
\* completed too, over each of the three transports.
THEOREM PresentationsAreVerified == Spec => []PresentationIsVerified
<1>1. NotaryInv => PresentationIsVerified
  BY DEF NotaryInv, Vouched, PresentationIsVerified
<1> QED BY <1>1, NotaryAlways, PTL

\* A prover that waits has an answer, or a handler that will send one is still at
\* work, whichever side of the run failed and whichever handler came first.
THEOREM WaitsAreAnswered == Spec => []WaitIsAnswered
<1>1. NotaryInv => WaitIsAnswered
  <2> SUFFICES ASSUME NotaryInv, NEW p \in Provers, prover[p] = "waits", answer[p] = None
               PROVE  \/ polls[p] # None
                      \/ session[p] \in {"result", "reveal"}
                      \/ Over(p, "local") /\ task[p] \in {"closing", "request"}
    BY DEF WaitIsAnswered
  <2>1. Attended(p) /\ setup \in Setup
    BY DEF NotaryInv
  <2>2. setup.transport[p] \in {"tcp", "ws", "local"}
    BY <2>1 DEF Setup
  <2>3. Over(p, "tcp") \/ Over(p, "ws") \/ Over(p, "local")
    BY <2>2 DEF Over
  <2> QED BY <2>1, <2>3 DEF Attended
<1> QED BY <1>1, NotaryAlways, PTL

\* subtract_ranges: the presentation reveals every byte of the request but the
\* redacted ones, in ranges that are not empty; for every length of the request
\* and whichever header values are redacted.
THEOREM RevealsAreExact == Spec => []RevealIsExact
<1>1. NotaryInv => RevealIsExact
  BY DEF NotaryInv
<1> QED BY <1>1, NotaryAlways, PTL
=============================================================================
