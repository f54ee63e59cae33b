------------------------- MODULE CashuEscrowProofs --------------------------
(***************************************************************************)
(* The escrow providers, the split of an escrow and redemption are safe    *)
(* for every number of providers, tokens, swaps and overlapping calls.     *)
(***************************************************************************)
EXTENDS CashuEscrow, WellFoundedInduction, TLAPS

\* The first of some numbers is one of them.
LEMMA FirstIn ==
  ASSUME NEW S \in SUBSET Nat, S # {}
  PROVE  First(S) \in S
<1> DEFINE R == OpToRel(<, Nat)
<1>1. IsWellFoundedOn(R, Nat)
  BY NatLessThanWellFounded, Zenon
<1>2. \A x, y \in Nat : <<x, y>> \in R <=> x < y
  BY Zenon DEF OpToRel
<1> HIDE DEF R
<1>3. PICK x \in S : \A y \in S : ~(<<y, x>> \in R)
  BY <1>1, WFMin, Zenon
<1>4. \A y \in S : ~(y < x)
  <2> TAKE y \in S
  <2>1. x \in Nat /\ y \in Nat
    BY Zenon
  <2> QED BY <1>2, <1>3, <2>1, Zenon
<1> HIDE <1>2
<1>5. ASSUME NEW y \in S PROVE x <= y
  <2>1. ~(y < x)
    BY <1>4, Zenon
  <2>2. x \in Nat /\ y \in Nat
    BY Zenon
  <2> QED BY <2>1, <2>2
<1> QED BY <1>5, Zenon DEF First

-----------------------------------------------------------------------------
(* The inductive invariant.                                                *)

\* A FROST lock can be refunded at the time asked for.
Sound(lock) == setup.kind = "frost" /\ lock.group => lock.refund /\ lock.asked

\* The mint and the swaps: inputs exist, are pending while their swap is and
\* spent when it is done, and each swap's output is its own.
Money ==
  /\ \A t \in Tokens : mint[t] # None => Sound(mint[t].lock)
  /\ \A w \in SwapIds : swaps[w] # None =>
       /\ Sound(swaps[w].lock)
       /\ \A t \in swaps[w].in : mint[t] # None
       /\ swaps[w].state = "taken" => \A t \in swaps[w].in : mint[t].state = "pending"
       /\ swaps[w].state = "done" => \A t \in swaps[w].in : mint[t].state = "spent"
       /\ swaps[w].state = "done" <=> swaps[w].out # None
       /\ swaps[w].out # None =>
            mint[swaps[w].out] # None /\ mint[swaps[w].out].lock = swaps[w].lock
  /\ \A w, x \in SwapIds : swaps[w] # None /\ swaps[x] # None /\ w # x =>
       /\ swaps[w].out # None => swaps[w].out # swaps[x].out
       /\ swaps[w].state = "taken" /\ swaps[x].state = "taken" =>
            \A t \in swaps[w].in : t \notin swaps[x].in

\* What a suspended call has in hand: a swap nobody else waits for, made for its
\* operation.
Waiting ==
  /\ \A c \in Slots : calls[c] # None =>
       /\ swaps[calls[c].swap] # None /\ swaps[calls[c].swap].told = None
       /\ calls[c].op # "redeem" => calls[c].at = "swap"
       /\ calls[c].op = "redeem" => swaps[calls[c].swap].in = {calls[c].ref}
       /\ calls[c].op = "split" => swaps[calls[c].swap].lock.to \in Providers
       /\ calls[c].op = "fee" => /\ swaps[calls[c].swap].lock.to = "oracle"
                                 /\ calls[c].ref \in Tokens /\ mint[calls[c].ref] # None
                                 /\ mint[calls[c].ref].lock.to \in Providers
  /\ \A c, d \in Slots : calls[c] # None /\ calls[d] # None /\ calls[c].swap = calls[d].swap => c = d

\* Is this the lock of a token held (p = None) or bound to p?
MadeFor(lock, p) ==
  IF p = None THEN lock = Plain ELSE lock.to = p /\ (setup.kind = "frost" => lock.group)

Naming(c) == calls[c] # None /\ calls[c].op \in {"hold", "bind"}

\* References: of what was asked for, and of what a call is about to name no
\* other reference, and no other swap, has any part.
References ==
  /\ \A r \in SwapIds : refs[r] # None =>
       mint[refs[r].token] # None /\ MadeFor(mint[refs[r].token].lock, refs[r].for)
  /\ \A c \in Slots : Naming(c) => LET swap == swaps[calls[c].swap] IN
       /\ MadeFor(swap.lock, calls[c].for) /\ (calls[c].op = "hold" => calls[c].for = None /\ calls[c].ref = 0)
       /\ \A r \in SwapIds : refs[r] # None /\ refs[r].token \in swap.in => r = calls[c].ref
       /\ \A r \in SwapIds : refs[r] # None => refs[r].token # swap.out
       /\ \A w \in SwapIds : swaps[w] # None => swap.out \notin swaps[w].in
  /\ \A r, k \in SwapIds : refs[r] # None /\ refs[k] # None /\ refs[r].token = refs[k].token => r = k
  /\ ReferencesAreDistinct

\* Holds begin from the customer's two plain proofs, splits from the escrow's
\* two, or there are none.
Begins ==
  /\ setup.begins \in {"proofs", "escrow"} => \A t \in {1, 2} : mint[t] # None
  /\ setup.begins = "proofs" => /\ \A t \in {1, 2} : mint[t].lock = Plain
                                /\ \A w \in SwapIds : swaps[w] # None => swaps[w].out \notin {1, 2}
  /\ setup.begins # "proofs" => /\ \A r \in SwapIds : refs[r] = None
                                /\ \A c \in Slots : ~Naming(c)
  /\ setup.begins # "escrow" => \A c \in Slots : calls[c] # None => calls[c].op \notin {"split", "fee"}

IInv == TypeOK /\ Money /\ Waiting /\ References /\ Begins /\ LossIsReported /\ SplitPaysBoth

LEMMA Numbers == 1 \in Tokens /\ 2 \in Tokens /\ Tokens \subseteq Nat /\ SwapIds \subseteq Nat /\ None \notin Tokens
BY EscrowAssumption DEF Tokens, SwapIds

LEMMA InitInv == Init => IInv
<1> SUFFICES ASSUME Init PROVE IInv
  BY Zenon
<1>1. setup \in Setup /\ setup.begins \in {"proofs", "bound", "escrow"}
  BY EscrowAssumption, Numbers, Zenon DEF Init, Setup
<1>2. PICK p \in Providers :
       mint = [t \in Tokens |->
                 CASE setup.begins = "proofs" /\ t \in {1, 2} -> Unspent(Plain)
                   [] setup.begins = "bound" /\ t = 1 -> Unspent(Bound(p))
                   [] setup.begins = "escrow" /\ t \in {1, 2} -> Unspent(TwoOfTwo(p))
                   [] OTHER -> None]
  BY Zenon DEF Init
<1>3. /\ Plain \in Lock /\ Bound(p) \in Lock /\ TwoOfTwo(p) \in Lock
      /\ Sound(Plain) /\ Sound(Bound(p)) /\ Sound(TwoOfTwo(p))
  BY Zenon DEF Plain, LockedTo, Bound, TwoOfTwo, Lock, Sound
<1>4. ASSUME NEW lock \in Lock PROVE Unspent(lock) \in Coin /\ Unspent(lock).lock = lock /\ Unspent(lock) # None
  BY EscrowAssumption, Numbers DEF Unspent, Coin
<1>5. ASSUME NEW t \in Tokens
      PROVE  /\ mint[t] \in Coin \union {None}
             /\ mint[t] # None => Sound(mint[t].lock)
             /\ setup.begins \in {"proofs", "escrow"} /\ t \in {1, 2} => mint[t] # None
             /\ setup.begins = "proofs" /\ t \in {1, 2} => mint[t].lock = Plain
  <2>1. CASE setup.begins = "proofs" /\ t \in {1, 2}
    <3>1. mint[t] = Unspent(Plain)
      BY <1>2, <2>1, Zenon
    <3> QED BY <1>3, <1>4, <3>1, Zenon
  <2>2. CASE setup.begins = "bound" /\ t = 1
    <3>1. mint[t] = Unspent(Bound(p))
      BY <1>2, <2>2, Zenon
    <3> QED BY <1>3, <1>4, <2>2, <3>1, Zenon
  <2>3. CASE setup.begins = "escrow" /\ t \in {1, 2}
    <3>1. mint[t] = Unspent(TwoOfTwo(p))
      BY <1>2, <2>3, Zenon
    <3> QED BY <1>3, <1>4, <2>3, <3>1, Zenon
  <2>4. CASE ~(setup.begins = "proofs" /\ t \in {1, 2}) /\ ~(setup.begins = "bound" /\ t = 1)
             /\ ~(setup.begins = "escrow" /\ t \in {1, 2})
    <3>1. mint[t] = None
      BY <1>2, <2>4, Zenon
    <3> QED BY <2>4, <3>1, Zenon
  <2> QED BY <2>1, <2>2, <2>3, <2>4, Zenon
<1>6. mint \in [Tokens -> Coin \union {None}]
  BY <1>2, <1>5, Zenon
<1>7. TypeOK
  BY <1>6, EscrowAssumption, Numbers DEF Init, TypeOK
<1>8. Money /\ Waiting
  BY <1>5, Zenon DEF Init, Money, Waiting
<1>9. References /\ Begins
  BY <1>5, EscrowAssumption, Numbers, Zenon DEF Init, References, Begins, Naming, ReferencesAreDistinct
<1>10. LossIsReported /\ SplitPaysBoth
  BY Zenon DEF Init, LossIsReported, SplitPaysBoth
<1> QED BY <1>7, <1>8, <1>9, <1>10, Zenon DEF IInv

-----------------------------------------------------------------------------
(* The mint's steps.                                                       *)

\* What the invariant says of one swap.
LEMMA SwapFacts ==
  ASSUME IInv, NEW x \in SwapIds, swaps[x] # None
  PROVE  /\ Sound(swaps[x].lock)
         /\ \A t \in swaps[x].in : mint[t] # None
         /\ swaps[x].state = "taken" => \A t \in swaps[x].in : mint[t].state = "pending"
         /\ swaps[x].state = "done" => \A t \in swaps[x].in : mint[t].state = "spent"
         /\ swaps[x].state = "done" <=> swaps[x].out # None
         /\ swaps[x].out # None =>
              mint[swaps[x].out] # None /\ mint[swaps[x].out].lock = swaps[x].lock
BY Zenon DEF IInv, Money

\* What it says of one call that is about to name a token.
LEMMA NamingFacts ==
  ASSUME IInv, NEW c \in Slots, Naming(c)
  PROVE  LET swap == swaps[calls[c].swap] IN
           /\ MadeFor(swap.lock, calls[c].for)
           /\ calls[c].op = "hold" => calls[c].for = None /\ calls[c].ref = 0
           /\ \A r \in SwapIds : refs[r] # None /\ refs[r].token \in swap.in => r = calls[c].ref
           /\ \A r \in SwapIds : refs[r] # None => refs[r].token # swap.out
           /\ \A w \in SwapIds : swaps[w] # None => swap.out \notin swaps[w].in
BY Zenon DEF IInv, References

\* What it says of one suspended call.
LEMMA WaitingFacts ==
  ASSUME IInv, NEW c \in Slots, calls[c] # None
  PROVE  /\ swaps[calls[c].swap] # None /\ swaps[calls[c].swap].told = None
         /\ calls[c].op # "redeem" => calls[c].at = "swap"
         /\ calls[c].op = "redeem" => swaps[calls[c].swap].in = {calls[c].ref}
         /\ calls[c].op = "split" => swaps[calls[c].swap].lock.to \in Providers
         /\ calls[c].op = "fee" => /\ swaps[calls[c].swap].lock.to = "oracle"
                                   /\ calls[c].ref \in Tokens /\ mint[calls[c].ref] # None
                                   /\ mint[calls[c].ref].lock.to \in Providers
         /\ \A d \in Slots : calls[d] # None /\ calls[d].swap = calls[c].swap => d = c
<1>1. Waiting
  BY Zenon DEF IInv
<1> QED BY <1>1, Zenon DEF Waiting

\* Steps that leave the mint, or the references, alone.
LEMMA MoneyKept ==
  ASSUME IInv, setup' = setup, mint' = mint, swaps' = swaps PROVE Money'
<1>1. Money
  BY Zenon DEF IInv
<1> QED BY <1>1 DEF Money, Sound

LEMMA ReferencesKept ==
  ASSUME IInv, setup' = setup, mint' = mint, refs' = refs, ReferencesAreDistinct',
         \A c \in Slots : Naming(c)' =>
           /\ MadeFor(swaps'[calls'[c].swap].lock, calls'[c].for)
           /\ calls'[c].op = "hold" => calls'[c].for = None /\ calls'[c].ref = 0
           /\ \A r \in SwapIds : refs[r] # None /\ refs[r].token \in swaps'[calls'[c].swap].in => r = calls'[c].ref
           /\ \A r \in SwapIds : refs[r] # None => refs[r].token # swaps'[calls'[c].swap].out
           /\ \A w \in SwapIds : swaps'[w] # None => swaps'[calls'[c].swap].out \notin swaps'[w].in
  PROVE  References'
<1>1. References
  BY Zenon DEF IInv
<1> QED BY <1>1 DEF References, MadeFor

\* Tokens keep their locks, swaps what was asked for; an output is new.
MintMoves ==
  /\ \A t \in Tokens : mint[t] # None => mint'[t] # None /\ mint'[t].lock = mint[t].lock
  /\ \A w \in SwapIds : (swaps'[w] = None) = (swaps[w] = None)
  /\ \A w \in SwapIds : swaps[w] # None =>
       /\ swaps'[w].in = swaps[w].in /\ swaps'[w].lock = swaps[w].lock
       /\ swaps'[w].told = swaps[w].told
       /\ \/ /\ swaps'[w].out = swaps[w].out /\ swaps'[w].late = swaps[w].late
             /\ swaps'[w].state = "done" => swaps[w].state = "done"
          \/ /\ swaps'[w].out \in Tokens /\ mint[swaps'[w].out] = None
             /\ swaps'[w].late = ~Awaited(w)

LEMMA MintKeeps ==
  ASSUME IInv, MintMoves, UNCHANGED <<setup, refs, named, calls, held, split>>
  PROVE  Waiting' /\ References' /\ Begins' /\ LossIsReported' /\ SplitPaysBoth'
<1>1. /\ calls \in [Slots -> Call \union {None}] /\ refs \in [SwapIds -> Entry \union {None}]
      /\ swaps \in [SwapIds -> Swap \union {None}]
  BY Zenon DEF IInv, TypeOK
<1>2. \A c \in Slots : calls[c] # None => calls[c].swap \in SwapIds
  BY <1>1, Zenon DEF Call
<1>3. \A r \in SwapIds : refs[r] # None => refs[r].token \in Tokens
  BY <1>1, Zenon DEF Entry
<1>4. \A w \in SwapIds : swaps[w] # None => swaps[w].in \subseteq Tokens
  BY <1>1, Zenon DEF Swap
<1>5. Waiting'
  <2>1. ASSUME NEW c \in Slots, calls[c] # None
        PROVE  LET swap == swaps'[calls[c].swap] IN
                 /\ swap # None /\ swap.told = None /\ (calls[c].op # "redeem" => calls[c].at = "swap")
                 /\ calls[c].op = "redeem" => swap.in = {calls[c].ref}
                 /\ calls[c].op = "split" => swap.lock.to \in Providers
                 /\ calls[c].op = "fee" => swap.lock.to = "oracle"
    <3>1. calls[c].swap \in SwapIds /\ swaps[calls[c].swap] # None
      BY <1>2, <2>1, Zenon DEF IInv, Waiting
    <3> QED BY <2>1, <3>1 DEF IInv, Waiting, MintMoves
  <2>2. ASSUME NEW c \in Slots, calls[c] # None, calls[c].op = "fee"
        PROVE  calls[c].ref \in Tokens /\ mint'[calls[c].ref] # None
               /\ mint'[calls[c].ref].lock.to \in Providers
    BY <2>2, Zenon DEF IInv, Waiting, MintMoves
  <2>3. \A c, d \in Slots : calls[c] # None /\ calls[d] # None /\ calls[c].swap = calls[d].swap => c = d
    BY Zenon DEF IInv, Waiting
  <2>4. calls' = calls
    BY Zenon
  <2> QED BY <2>1, <2>2, <2>3, <2>4 DEF Waiting
<1>6. References'
  <2>1. \A r \in SwapIds : refs[r] # None =>
          mint'[refs[r].token] # None /\ MadeFor(mint'[refs[r].token].lock, refs[r].for)
    BY <1>3, Zenon DEF IInv, References, MintMoves
  <2>2. ASSUME NEW c \in Slots, Naming(c)
        PROVE  LET swap == swaps'[calls[c].swap] IN
                 /\ MadeFor(swap.lock, calls[c].for) /\ (calls[c].op = "hold" => calls[c].for = None /\ calls[c].ref = 0)
                 /\ \A r \in SwapIds : refs[r] # None /\ refs[r].token \in swap.in => r = calls[c].ref
                 /\ \A r \in SwapIds : refs[r] # None => refs[r].token # swap.out
                 /\ \A w \in SwapIds : swaps'[w] # None => swap.out \notin swaps'[w].in
    <3> DEFINE w == calls[c].swap
    <3>1. w \in SwapIds /\ swaps[w] # None
      BY <1>2, <2>2, Zenon DEF Naming, IInv, Waiting
    <3>2. /\ MadeFor(swaps[w].lock, calls[c].for) /\ (calls[c].op = "hold" => calls[c].for = None /\ calls[c].ref = 0)
          /\ \A r \in SwapIds : refs[r] # None /\ refs[r].token \in swaps[w].in => r = calls[c].ref
      BY <2>2, Zenon DEF IInv, References
    <3>3. swaps'[w].in = swaps[w].in /\ swaps'[w].lock = swaps[w].lock
      BY <3>1, Zenon DEF MintMoves
    <3>4. \A r \in SwapIds : refs[r] # None => refs[r].token # swaps'[w].out
      <4> SUFFICES ASSUME NEW r \in SwapIds, refs[r] # None PROVE refs[r].token # swaps'[w].out
        BY Zenon
      <4>1. refs[r].token # swaps[w].out /\ mint[refs[r].token] # None
        BY <2>2, Zenon DEF IInv, References
      <4> QED BY <3>1, <4>1, Zenon DEF MintMoves
    <3>5. \A x \in SwapIds : swaps'[x] # None => swaps'[w].out \notin swaps'[x].in
      <4> SUFFICES ASSUME NEW x \in SwapIds, swaps[x] # None
                   PROVE  swaps'[w].out \notin swaps[x].in
        BY Zenon DEF MintMoves
      <4>1. swaps[w].out \notin swaps[x].in
        BY <2>2, Zenon DEF IInv, References
      <4>2. \A t \in swaps[x].in : mint[t] # None
        BY Zenon DEF IInv, Money
      <4> QED BY <3>1, <4>1, <4>2, Zenon DEF MintMoves
    <3> HIDE DEF w
    <3> QED BY <3>2, <3>3, <3>4, <3>5, Zenon DEF w
  <2>3. ReferencesAreDistinct'
    <3> SUFFICES ASSUME NEW r \in SwapIds, NEW k \in SwapIds, NEW w \in SwapIds,
                        refs[r] # None, refs[k] # None, swaps[w] # None,
                        swaps'[w].out = refs[k].token
                 PROVE  refs[r].token \notin swaps[w].in
      BY Zenon DEF ReferencesAreDistinct, MintMoves
    <3>1. swaps[w].out = refs[k].token
      BY <1>3 DEF MintMoves, IInv, References
    <3> QED BY <3>1, Zenon DEF IInv, References, ReferencesAreDistinct
  <2>4. setup' = setup /\ refs' = refs /\ calls' = calls
    BY Zenon
  <2>5. \A r, k \in SwapIds : refs[r] # None /\ refs[k] # None /\ refs[r].token = refs[k].token => r = k
    BY Zenon DEF IInv, References
  <2> QED BY <2>1, <2>2, <2>3, <2>4, <2>5 DEF References, Naming, MadeFor
<1>7. Begins'
  BY EscrowAssumption, Numbers DEF IInv, Begins, MintMoves, Naming
<1>8. LossIsReported'
  <2> SUFFICES ASSUME NEW w \in SwapIds, swaps[w] # None, swaps[w].told # None, swaps'[w].state = "done"
               PROVE  \/ swaps[w].told = "ok" /\ swaps'[w].out \in held
                      \/ swaps[w].told \in Uncertain
                      \/ swaps[w].told = "mint_error" /\ ~setup.checks
                      \/ swaps'[w].late
    BY Zenon DEF LossIsReported, MintMoves
  <2>1. ~Awaited(w)
    BY Zenon DEF Awaited, IInv, Waiting
  <2> QED BY <2>1, Zenon DEF MintMoves, IInv, LossIsReported
<1>9. SplitPaysBoth'
  <2>1. split \notin {None, Null} => split.provider \in Tokens /\ split.oracle \in Tokens
    BY Zenon DEF IInv, TypeOK
  <2> QED BY <2>1, Zenon DEF IInv, SplitPaysBoth, MintMoves, Exists
<1> QED BY <1>5, <1>6, <1>7, <1>8, <1>9, Zenon

\* The mint with the proofs in S marked.
Marked(S, state) ==
  [t \in Tokens |-> IF t \in S THEN [mint[t] EXCEPT !.state = state] ELSE mint[t]]

\* Writing the state of some tokens.
LEMMA StateWritten ==
  ASSUME TypeOK, NEW S \in SUBSET Tokens, NEW state \in {"unspent", "pending", "spent"},
         \A t \in S : mint[t] # None,
         NEW new, new = Marked(S, state)
  PROVE  /\ new \in [Tokens -> Coin \union {None}]
         /\ \A t \in Tokens : /\ (new[t] = None) = (mint[t] = None)
                              /\ mint[t] # None => new[t].lock = mint[t].lock
                              /\ t \in S => new[t].state = state
                              /\ t \notin S => new[t] = mint[t]
<1>1. \A t \in S : mint[t] \in Coin
  BY Zenon DEF TypeOK
<1>2. ASSUME NEW t \in S
      PROVE  new[t] \in Coin /\ new[t].state = state /\ new[t].lock = mint[t].lock
  <2>1. new[t] = [mint[t] EXCEPT !.state = state]
    BY Zenon DEF Marked
  <2> QED BY <1>1, <1>2, <2>1, Zenon DEF Coin
<1>3. \A t \in Tokens : t \notin S => new[t] = mint[t]
  BY Zenon DEF Marked
<1>4. mint \in [Tokens -> Coin \union {None}] /\ new = [t \in Tokens |-> new[t]]
  BY Zenon DEF TypeOK, Marked
<1>5. None \notin Coin
  BY EscrowAssumption, Zenon
<1>6. new \in [Tokens -> Coin \union {None}]
  <2>1. \A t \in Tokens : new[t] \in Coin \union {None}
    BY <1>2, <1>3, <1>4, Zenon
  <2> QED BY <1>4, <2>1, Zenon
<1>7. \A t \in Tokens : /\ (new[t] = None) = (mint[t] = None)
                        /\ mint[t] # None => new[t].lock = mint[t].lock
                        /\ t \in S => new[t].state = state
                        /\ t \notin S => new[t] = mint[t]
  BY <1>1, <1>2, <1>3, <1>5, Zenon
<1> QED BY <1>6, <1>7, Zenon

LEMMA MintTakesKeeps ==
  ASSUME IInv, NEW w \in SwapIds, MintTakes(w)
  PROVE  IInv'
<1>1. UNCHANGED <<setup, refs, named, calls, held, split>>
  BY Zenon DEF MintTakes
<1>2. swaps \in [SwapIds -> Swap \union {None}] /\ swaps[w] \in Swap /\ swaps[w].state = "sent"
  BY Zenon DEF MintTakes, IInv, TypeOK
<1>3. PICK s \in {"taken", "refused"} : swaps' = [swaps EXCEPT ![w].state = s]
  BY Zenon DEF MintTakes
<1>4. /\ swaps' \in [SwapIds -> Swap \union {None}] /\ swaps'[w] \in Swap /\ swaps'[w] # None
      /\ swaps'[w].state = s /\ swaps'[w].in = swaps[w].in /\ swaps'[w].lock = swaps[w].lock
      /\ swaps'[w].told = swaps[w].told /\ swaps'[w].out = swaps[w].out
      /\ swaps'[w].late = swaps[w].late
      /\ \A x \in SwapIds : x # w => swaps'[x] = swaps[x]
  BY <1>2, <1>3, EscrowAssumption, Numbers DEF Swap
<1>5. swaps[w].in \subseteq Tokens /\ \A t \in swaps[w].in : mint[t] # None
  BY <1>2, EscrowAssumption, Numbers DEF IInv, Money, Swap
<1>6. /\ mint' \in [Tokens -> Coin \union {None}]
      /\ \A t \in Tokens : (mint'[t] = None) = (mint[t] = None) /\ (mint[t] # None => mint'[t].lock = mint[t].lock)
      /\ s = "taken" => \A t \in swaps[w].in : mint[t].state = "unspent" /\ mint'[t].state = "pending"
      /\ s = "refused" => mint' = mint
      /\ \A t \in Tokens : t \notin swaps[w].in => mint'[t] = mint[t]
  <2>1. CASE \A t \in swaps[w].in :
               mint[t].state = "unspent" /\ (mint[t].lock # Plain => swaps[w].signed)
    <3>1. mint' = [t \in Tokens |-> IF t \in swaps[w].in
                                    THEN [mint[t] EXCEPT !.state = "pending"] ELSE mint[t]]
      BY <2>1, Zenon DEF MintTakes
    <3>2. swaps'[w].state = "taken"
      BY <1>2, <2>1, Zenon DEF MintTakes, Swap
    <3>3. PICK S \in SUBSET Tokens : S = swaps[w].in
      BY <1>5, Zenon
    <3>4. /\ mint' \in [Tokens -> Coin \union {None}]
          /\ \A t \in Tokens : /\ (mint'[t] = None) = (mint[t] = None)
                               /\ mint[t] # None => mint'[t].lock = mint[t].lock
                               /\ t \in S => mint'[t].state = "pending"
                               /\ t \notin S => mint'[t] = mint[t]
      <4>1. TypeOK /\ \A t \in S : mint[t] # None
        BY <1>5, <3>3, Zenon DEF IInv
      <4>2. mint' = Marked(S, "pending")
        BY <3>1, <3>3, Zenon DEF Marked
      <4>3. "pending" \in {"unspent", "pending", "spent"}
        OBVIOUS
      <4> QED BY <4>1, <4>2, <4>3, StateWritten
    <3> QED BY <1>4, <1>5, <2>1, <3>2, <3>3, <3>4, Zenon
  <2>2. CASE ~\A t \in swaps[w].in :
               mint[t].state = "unspent" /\ (mint[t].lock # Plain => swaps[w].signed)
    <3>1. mint' = mint
      BY <2>2, Zenon DEF MintTakes
    <3>2. swaps'[w].state = "refused"
      BY <1>2, <2>2, Zenon DEF MintTakes, Swap
    <3> QED BY <1>4, <3>1, <3>2, Zenon DEF IInv, TypeOK
  <2> QED BY <2>1, <2>2, Zenon
<1>7. MintMoves
  <2>1. \A x \in SwapIds : x = w \/ swaps'[x] = swaps[x]
    BY <1>4, Zenon
  <2>2. s # "done" /\ swaps[w] # None
    BY <1>2, EscrowAssumption
  <2>3. \A x \in SwapIds : (swaps'[x] = None) = (swaps[x] = None)
    BY <1>4, <2>1, <2>2, Zenon
  <2>4. \A x \in SwapIds : swaps[x] # None =>
          /\ swaps'[x].in = swaps[x].in /\ swaps'[x].lock = swaps[x].lock
          /\ swaps'[x].told = swaps[x].told
          /\ swaps'[x].out = swaps[x].out /\ swaps'[x].late = swaps[x].late
          /\ swaps'[x].state = "done" => swaps[x].state = "done"
    BY <1>4, <2>1, <2>2, Zenon
  <2> QED BY <1>6, <2>3, <2>4, Zenon DEF MintMoves
<1>8. TypeOK'
  BY <1>1, <1>4, <1>6, Zenon DEF IInv, TypeOK
<1>9. Money'
  <2>1. \A t \in Tokens : mint'[t] # None => Sound(mint'[t].lock)
    BY <1>6 DEF IInv, Money
  <2>2. ASSUME NEW x \in SwapIds, swaps'[x] # None
        PROVE  /\ Sound(swaps'[x].lock)
               /\ \A t \in swaps'[x].in : mint'[t] # None
               /\ swaps'[x].state = "taken" => \A t \in swaps'[x].in : mint'[t].state = "pending"
               /\ swaps'[x].state = "done" => \A t \in swaps'[x].in : mint'[t].state = "spent"
               /\ swaps'[x].state = "done" <=> swaps'[x].out # None
               /\ swaps'[x].out # None =>
                    mint'[swaps'[x].out] # None /\ mint'[swaps'[x].out].lock = swaps'[x].lock
    <3>1. CASE x = w
      <4>1. Sound(swaps[w].lock) /\ swaps[w].out = None
        BY <1>2, EscrowAssumption, Numbers, Zenon DEF IInv, Money
      <4>2. \A t \in swaps[w].in : mint'[t] # None
        BY <1>5, <1>6, Zenon
      <4> QED BY <1>4, <1>6, <3>1, <4>1, <4>2, Zenon
    <3>2. CASE x # w
      <4>1. swaps'[x] = swaps[x] /\ swaps[x] \in Swap /\ swaps[x].in \subseteq Tokens
            /\ swaps[x].out \in Tokens \union {None}
        BY <1>2, <1>4, <2>2, <3>2 DEF Swap
      <4>2. \A t \in swaps[x].in : mint[t] # None /\ mint[t].state # "unspent" => mint'[t] = mint[t]
        BY <1>6, <4>1, Zenon
      <4>3. swaps[x].state \in {"taken", "done"} => \A t \in swaps[x].in : mint'[t] = mint[t]
        BY <2>2, <4>1, <4>2, SwapFacts
      <4>4. \A t \in swaps[x].in : mint'[t] # None
        BY <1>6, <2>2, <4>1, SwapFacts
      <4>5. swaps[x].out # None =>
              mint'[swaps[x].out] # None /\ mint'[swaps[x].out].lock = swaps[x].lock
        BY <1>6, <2>2, <4>1, SwapFacts
      <4> QED BY <2>2, <4>1, <4>3, <4>4, <4>5, SwapFacts
    <3> QED BY <3>1, <3>2, Zenon
  <2>3. ASSUME NEW x \in SwapIds, NEW y \in SwapIds, swaps'[x] # None, swaps'[y] # None, x # y
        PROVE  /\ swaps'[x].out # None => swaps'[x].out # swaps'[y].out
               /\ swaps'[x].state = "taken" /\ swaps'[y].state = "taken" =>
                    \A t \in swaps'[x].in : t \notin swaps'[y].in
    <3>1. swaps'[x].out # None => swaps'[x].out # swaps'[y].out
      BY <1>2, <1>4, <2>3, EscrowAssumption, Numbers DEF IInv, Money
    <3>2. ASSUME NEW z \in SwapIds, z # w, swaps[z] # None, swaps[z].state = "taken", s = "taken"
          PROVE  \A t \in swaps[w].in : t \notin swaps[z].in
      BY <1>6, <3>2, Zenon DEF IInv, Money
    <3> QED BY <1>2, <1>4, <2>3, <3>1, <3>2 DEF IInv, Money
  <2>4. setup' = setup
    BY <1>1, Zenon
  <2> QED BY <2>1, <2>2, <2>3, <2>4, Zenon DEF Money, Sound
<1> QED BY <1>1, <1>7, <1>8, <1>9, MintKeeps, Zenon DEF IInv

LEMMA MintFinishesKeeps ==
  ASSUME IInv, NEW w \in SwapIds, MintFinishes(w)
  PROVE  IInv'
<1>1. UNCHANGED <<setup, refs, named, calls, held, split>>
  BY Zenon DEF MintFinishes
<1>2. swaps \in [SwapIds -> Swap \union {None}] /\ swaps[w] \in Swap /\ swaps[w].state = "taken"
  BY Zenon DEF MintFinishes, IInv, TypeOK
<1>3. PICK S \in SUBSET Tokens : S = swaps[w].in
  BY <1>2, Zenon DEF Swap
<1>4. \A t \in S : mint[t] # None /\ mint[t].state = "pending"
  BY <1>2, <1>3, EscrowAssumption, Numbers DEF IInv, Money
<1>5. Sound(swaps[w].lock) /\ swaps[w].out = None /\ swaps[w].lock \in Lock
  BY <1>2, EscrowAssumption, Numbers DEF IInv, Money, Swap
<1>6. TypeOK /\ \A t \in S : mint[t] # None
  BY <1>4, Zenon DEF IInv
<1>7. \A x \in SwapIds : swaps[x] # None /\ x # w /\ swaps[x].state \in {"taken", "done"} =>
        \A t \in swaps[x].in : t \notin S
  BY <1>2, <1>3, <1>4, EscrowAssumption, Numbers, Zenon DEF IInv, Money
<1>8. CASE /\ mint' = [t \in Tokens |-> IF t \in S THEN [mint[t] EXCEPT !.state = "unspent"] ELSE mint[t]]
           /\ swaps' = [swaps EXCEPT ![w].state = "refused"]
  <2>1. /\ mint' \in [Tokens -> Coin \union {None}]
        /\ \A t \in Tokens : /\ (mint'[t] = None) = (mint[t] = None)
                             /\ mint[t] # None => mint'[t].lock = mint[t].lock
                             /\ t \notin S => mint'[t] = mint[t]
    <3>1. "unspent" \in {"unspent", "pending", "spent"}
      OBVIOUS
    <3>2. mint' = Marked(S, "unspent")
      BY <1>8, Zenon DEF Marked
    <3> QED BY <1>6, <3>1, <3>2, StateWritten
  <2>2. /\ swaps' \in [SwapIds -> Swap \union {None}] /\ swaps'[w] \in Swap /\ swaps'[w] # None
        /\ swaps'[w].state = "refused" /\ swaps'[w].in = swaps[w].in /\ swaps'[w].lock = swaps[w].lock
        /\ swaps'[w].told = swaps[w].told /\ swaps'[w].out = swaps[w].out
        /\ swaps'[w].late = swaps[w].late
        /\ \A x \in SwapIds : x # w => swaps'[x] = swaps[x]
    BY <1>2, <1>8, EscrowAssumption, Numbers DEF Swap
  <2>3. MintMoves
    <3>1. \A x \in SwapIds : x = w \/ swaps'[x] = swaps[x]
      BY <2>2, Zenon
    <3>2. swaps'[w].state # "done" /\ swaps[w] # None
      BY <1>2, <2>2, EscrowAssumption
    <3>3. \A x \in SwapIds : (swaps'[x] = None) = (swaps[x] = None)
      BY <2>2, <3>1, <3>2, Zenon
    <3>4. \A x \in SwapIds : swaps[x] # None =>
            /\ swaps'[x].in = swaps[x].in /\ swaps'[x].lock = swaps[x].lock
            /\ swaps'[x].told = swaps[x].told
            /\ swaps'[x].out = swaps[x].out /\ swaps'[x].late = swaps[x].late
            /\ swaps'[x].state = "done" => swaps[x].state = "done"
      BY <2>2, <3>1, <3>2, Zenon
    <3> QED BY <2>1, <3>3, <3>4, Zenon DEF MintMoves
  <2>4. TypeOK'
    BY <1>1, <2>1, <2>2, Zenon DEF IInv, TypeOK
  <2>5. Money'
    <3>1. \A t \in Tokens : mint'[t] # None => Sound(mint'[t].lock)
      BY <2>1, Zenon DEF IInv, Money
    <3>2. ASSUME NEW x \in SwapIds, swaps'[x] # None
          PROVE  /\ Sound(swaps'[x].lock)
                 /\ \A t \in swaps'[x].in : mint'[t] # None
                 /\ swaps'[x].state = "taken" => \A t \in swaps'[x].in : mint'[t].state = "pending"
                 /\ swaps'[x].state = "done" => \A t \in swaps'[x].in : mint'[t].state = "spent"
                 /\ swaps'[x].state = "done" <=> swaps'[x].out # None
                 /\ swaps'[x].out # None =>
                      mint'[swaps'[x].out] # None /\ mint'[swaps'[x].out].lock = swaps'[x].lock
      <4>1. CASE x = w
        <5>1. swaps'[w].in = S /\ \A t \in S : mint'[t] # None
          BY <1>3, <1>4, <2>1, <2>2, Zenon
        <5>2. swaps'[w].out = None /\ Sound(swaps'[w].lock)
          BY <1>5, <2>2, Zenon
        <5> QED BY <2>2, <4>1, <5>1, <5>2, Zenon
      <4>2. CASE x # w
        <5>1. swaps'[x] = swaps[x] /\ swaps[x] \in Swap /\ swaps[x].in \subseteq Tokens
              /\ swaps[x].out \in Tokens \union {None}
          BY <1>2, <2>2, <3>2, <4>2 DEF Swap
        <5>2. swaps[x].state \in {"taken", "done"} => \A t \in swaps[x].in : mint'[t] = mint[t]
          BY <1>7, <2>1, <3>2, <4>2, <5>1, Zenon
        <5>3. /\ Sound(swaps[x].lock) /\ \A t \in swaps[x].in : mint[t] # None
              /\ swaps[x].state = "taken" => \A t \in swaps[x].in : mint[t].state = "pending"
              /\ swaps[x].state = "done" => \A t \in swaps[x].in : mint[t].state = "spent"
              /\ swaps[x].state = "done" <=> swaps[x].out # None
              /\ swaps[x].out # None => mint[swaps[x].out] # None /\ mint[swaps[x].out].lock = swaps[x].lock
          BY <3>2, <5>1, Zenon DEF IInv, Money
        <5>4. \A t \in swaps[x].in : mint'[t] # None
          BY <2>1, <5>1, <5>3, Zenon
        <5>5. swaps[x].out # None =>
                mint'[swaps[x].out] # None /\ mint'[swaps[x].out].lock = swaps[x].lock
          BY <2>1, <5>1, <5>3, Zenon
        <5> QED BY <5>1, <5>2, <5>3, <5>4, <5>5, Zenon
      <4> QED BY <4>1, <4>2, Zenon
    <3>3. ASSUME NEW x \in SwapIds, NEW y \in SwapIds, swaps'[x] # None, swaps'[y] # None, x # y
          PROVE  /\ swaps'[x].out # None => swaps'[x].out # swaps'[y].out
                 /\ swaps'[x].state = "taken" /\ swaps'[y].state = "taken" =>
                      \A t \in swaps'[x].in : t \notin swaps'[y].in
      BY <1>2, <2>2, <3>3, EscrowAssumption, Numbers DEF IInv, Money
    <3>4. setup' = setup
      BY <1>1, Zenon
    <3> QED BY <3>1, <3>2, <3>3, <3>4, Zenon DEF Money, Sound
  <2> QED BY <1>1, <2>3, <2>4, <2>5, MintKeeps, Zenon DEF IInv
<1>9. ASSUME NEW u \in Tokens, mint[u] = None,
             mint' = [[t \in Tokens |-> IF t \in S THEN [mint[t] EXCEPT !.state = "spent"] ELSE mint[t]]
                        EXCEPT ![u] = Unspent(swaps[w].lock)],
             swaps' = [swaps EXCEPT ![w].state = "done", ![w].out = u, ![w].late = ~Awaited(w)]
      PROVE  IInv'
  <2>0. PICK m : m = Marked(S, "spent")
    BY Zenon
  <2>1. /\ m \in [Tokens -> Coin \union {None}]
        /\ \A t \in Tokens : /\ (m[t] = None) = (mint[t] = None)
                             /\ mint[t] # None => m[t].lock = mint[t].lock
                             /\ t \in S => m[t].state = "spent"
                             /\ t \notin S => m[t] = mint[t]
    <3>1. "spent" \in {"unspent", "pending", "spent"}
      OBVIOUS
    <3> QED BY <1>6, <2>0, <3>1, StateWritten
  <2>2. mint' = [m EXCEPT ![u] = Unspent(swaps[w].lock)]
    BY <1>9, <2>0, Zenon DEF Marked
  <2>3. Unspent(swaps[w].lock) \in Coin /\ Unspent(swaps[w].lock).lock = swaps[w].lock
    BY <1>5, Zenon DEF Unspent, Coin
  <2>4. /\ mint' \in [Tokens -> Coin \union {None}]
        /\ mint'[u] # None /\ mint'[u].lock = swaps[w].lock
        /\ \A t \in Tokens : t # u => mint'[t] = m[t]
    BY <2>1, <2>2, <2>3, EscrowAssumption, Numbers, Zenon
  <2>5. \A t \in Tokens : mint[t] # None => /\ t # u /\ mint'[t] # None /\ mint'[t].lock = mint[t].lock
                                            /\ t \in S => mint'[t].state = "spent"
                                            /\ t \notin S => mint'[t] = mint[t]
    BY <1>9, <2>1, <2>4
  <2>6. \A t \in Tokens : mint'[t] # None => t = u \/ mint[t] # None
    BY <2>1, <2>4, Zenon
  <2>7. PICK late \in BOOLEAN : late = ~Awaited(w)
    BY Zenon
  <2> DEFINE new == [swaps[w] EXCEPT !.state = "done", !.out = u, !.late = late]
  <2>12. swaps' = [swaps EXCEPT ![w] = new]
    BY <1>2, <1>9, <2>7, Zenon
  <2>13. /\ new \in Swap /\ new.state = "done" /\ new.in = S /\ new.lock = swaps[w].lock
         /\ new.told = swaps[w].told /\ new.out = u /\ new.late = late
    BY <1>2, <1>3, <2>7, Zenon DEF Swap
  <2> HIDE DEF new
  <2>8. /\ swaps' \in [SwapIds -> Swap \union {None}] /\ swaps'[w] \in Swap /\ swaps'[w] # None
        /\ swaps'[w].state = "done" /\ swaps'[w].in = S /\ swaps'[w].lock = swaps[w].lock
        /\ swaps'[w].told = swaps[w].told /\ swaps'[w].out = u /\ swaps'[w].late = late
        /\ \A x \in SwapIds : x # w => swaps'[x] = swaps[x]
    BY <1>2, <2>12, <2>13, EscrowAssumption, Numbers, Zenon
  <2>9. MintMoves
    <3>1. swaps'[w].late = ~Awaited(w)
      BY <2>7, <2>8, Zenon
    <3>2. swaps[w] # None /\ swaps'[w].in = swaps[w].in /\ mint[swaps'[w].out] = None /\ swaps'[w].out \in Tokens
      BY <1>2, <1>3, <1>9, <2>8, EscrowAssumption, Numbers, Zenon
    <3>3. \A x \in SwapIds : (swaps'[x] = None) = (swaps[x] = None)
      BY <2>8, <3>2, Zenon
    <3>4. \A t \in Tokens : mint[t] # None => mint'[t] # None /\ mint'[t].lock = mint[t].lock
      BY <2>5, Zenon
    <3>5. ASSUME NEW x \in SwapIds, x # w
          PROVE  swaps'[x] = swaps[x]
      BY <2>8, <3>5, Zenon
    <3>6. swaps'[w].lock = swaps[w].lock /\ swaps'[w].told = swaps[w].told
      BY <2>8, Zenon
    <3> QED BY <3>1, <3>2, <3>3, <3>4, <3>5, <3>6, Zenon DEF MintMoves
  <2>10. TypeOK'
    BY <1>1, <2>4, <2>8, Zenon DEF IInv, TypeOK
  <2>11. Money'
    <3>1. \A t \in Tokens : mint'[t] # None => Sound(mint'[t].lock)
      BY <1>5, <2>4, <2>5, <2>6 DEF IInv, Money
    <3>2. ASSUME NEW x \in SwapIds, swaps'[x] # None
          PROVE  /\ Sound(swaps'[x].lock)
                 /\ \A t \in swaps'[x].in : mint'[t] # None
                 /\ swaps'[x].state = "taken" => \A t \in swaps'[x].in : mint'[t].state = "pending"
                 /\ swaps'[x].state = "done" => \A t \in swaps'[x].in : mint'[t].state = "spent"
                 /\ swaps'[x].state = "done" <=> swaps'[x].out # None
                 /\ swaps'[x].out # None =>
                      mint'[swaps'[x].out] # None /\ mint'[swaps'[x].out].lock = swaps'[x].lock
      <4>1. CASE x = w
        <5>1. \A t \in S : mint'[t] # None /\ mint'[t].state = "spent"
          BY <1>4, <2>5, Zenon
        <5> QED BY <1>5, <2>4, <2>8, <4>1, <5>1, EscrowAssumption, Numbers, Zenon
      <4>2. CASE x # w
        <5>1. swaps'[x] = swaps[x] /\ swaps[x] \in Swap /\ swaps[x].in \subseteq Tokens
              /\ swaps[x].out \in Tokens \union {None}
          BY <1>2, <2>8, <3>2, <4>2 DEF Swap
        <5>2. \A t \in swaps[x].in : mint[t] # None
          BY <3>2, <5>1, Zenon DEF IInv, Money
        <5>3. swaps[x].state \in {"taken", "done"} => \A t \in swaps[x].in : mint'[t] = mint[t]
          <6>1. \A t \in swaps[x].in : swaps[x].state \in {"taken", "done"} => t \notin S
            BY <1>7, <3>2, <4>2, <5>1, <5>2, Zenon
          <6> QED BY <2>5, <5>1, <5>2, <6>1, Zenon
        <5>4. \A t \in swaps[x].in : mint'[t] # None
          BY <2>5, <5>1, <5>2, Zenon
        <5>5. swaps[x].out # None =>
                mint'[swaps[x].out] # None /\ mint'[swaps[x].out].lock = swaps[x].lock
          BY <2>5, <3>2, <5>1, SwapFacts
        <5> QED BY <3>2, <5>1, <5>3, <5>4, <5>5, SwapFacts
      <4> QED BY <4>1, <4>2, Zenon
    <3>3. ASSUME NEW x \in SwapIds, NEW y \in SwapIds, swaps'[x] # None, swaps'[y] # None, x # y
          PROVE  /\ swaps'[x].out # None => swaps'[x].out # swaps'[y].out
                 /\ swaps'[x].state = "taken" /\ swaps'[y].state = "taken" =>
                      \A t \in swaps'[x].in : t \notin swaps'[y].in
      <4>1. \A z \in SwapIds : swaps[z] # None => swaps[z].out # u
        BY <1>9, EscrowAssumption, Numbers DEF IInv, Money
      <4> QED BY <1>2, <2>8, <3>3, <4>1 DEF IInv, Money
    <3>4. setup' = setup
      BY <1>1, Zenon
    <3> QED BY <3>1, <3>2, <3>3, <3>4, Zenon DEF Money, Sound
  <2> QED BY <1>1, <2>9, <2>10, <2>11, MintKeeps, Zenon DEF IInv
<1>10. Free(mint, Tokens) # {} => First(Free(mint, Tokens)) \in Tokens /\ mint[First(Free(mint, Tokens))] = None
  <2> DEFINE F == Free(mint, Tokens)
  <2>1. F \in SUBSET Nat /\ F \subseteq Tokens /\ \A t \in F : mint[t] = None
    BY EscrowAssumption, Numbers, Zenon DEF Free
  <2> HIDE DEF F
  <2>2. F # {} => First(F) \in F
    BY <2>1, FirstIn, Zenon
  <2> QED BY <2>1, <2>2, Zenon DEF F
<1> QED BY <1>3, <1>8, <1>9, <1>10, Zenon DEF MintFinishes

LEMMA RefundKeeps ==
  ASSUME IInv, NEW u \in Tokens, Refund(u)
  PROVE  IInv'
<1>1. /\ UNCHANGED <<setup, swaps, refs, named, calls, held, split>>
      /\ mint[u] # None /\ mint[u].state = "unspent"
  BY Zenon DEF Refund
<1>2. mint[u] \in Coin /\ mint \in [Tokens -> Coin \union {None}] /\ swaps \in [SwapIds -> Swap \union {None}]
  BY <1>1, Zenon DEF IInv, TypeOK
<1>3. /\ mint' \in [Tokens -> Coin \union {None}] /\ mint'[u] \in Coin /\ mint'[u] # None
      /\ mint'[u].lock = mint[u].lock
      /\ \A t \in Tokens : t # u => mint'[t] = mint[t]
  BY <1>2, EscrowAssumption, Numbers, Zenon DEF Refund, Coin
<1>4. \A t \in Tokens : /\ (mint'[t] = None) = (mint[t] = None)
                        /\ mint[t] # None => mint'[t].lock = mint[t].lock
  BY <1>1, <1>3, Zenon
<1>5. MintMoves
  BY <1>1, <1>4, Zenon DEF MintMoves
<1>6. TypeOK'
  BY <1>1, <1>3, Zenon DEF IInv, TypeOK
<1>7. Money'
  <2>1. \A t \in Tokens : mint'[t] # None => Sound(mint'[t].lock)
    BY <1>4, Zenon DEF IInv, Money
  <2>2. ASSUME NEW x \in SwapIds, swaps[x] # None
        PROVE  /\ Sound(swaps[x].lock)
               /\ \A t \in swaps[x].in : mint'[t] # None
               /\ swaps[x].state = "taken" => \A t \in swaps[x].in : mint'[t].state = "pending"
               /\ swaps[x].state = "done" => \A t \in swaps[x].in : mint'[t].state = "spent"
               /\ swaps[x].state = "done" <=> swaps[x].out # None
               /\ swaps[x].out # None =>
                    mint'[swaps[x].out] # None /\ mint'[swaps[x].out].lock = swaps[x].lock
    <3>1. swaps[x] \in Swap /\ swaps[x].in \subseteq Tokens /\ swaps[x].out \in Tokens \union {None}
      BY <1>2, <2>2, Zenon DEF Swap
    <3>2. /\ swaps[x].state = "taken" => \A t \in swaps[x].in : mint[t].state = "pending"
          /\ swaps[x].state = "done" => \A t \in swaps[x].in : mint[t].state = "spent"
          /\ Sound(swaps[x].lock) /\ (swaps[x].state = "done" <=> swaps[x].out # None)
      BY <2>2, Zenon DEF IInv, Money
    <3>5. swaps[x].state \in {"taken", "done"} => \A t \in swaps[x].in : mint'[t] = mint[t]
      BY <1>1, <1>3, <3>1, <3>2, Zenon
    <3>3. \A t \in swaps[x].in : mint'[t] # None
      BY <1>4, <2>2, <3>1 DEF IInv, Money
    <3>4. swaps[x].out # None =>
            mint'[swaps[x].out] # None /\ mint'[swaps[x].out].lock = swaps[x].lock
      BY <1>4, <2>2, <3>1 DEF IInv, Money
    <3> QED BY <3>2, <3>3, <3>4, <3>5, Zenon
  <2>3. ASSUME NEW x \in SwapIds, NEW y \in SwapIds, swaps[x] # None, swaps[y] # None, x # y
        PROVE  /\ swaps[x].out # None => swaps[x].out # swaps[y].out
               /\ swaps[x].state = "taken" /\ swaps[y].state = "taken" =>
                    \A t \in swaps[x].in : t \notin swaps[y].in
    BY <2>3, Zenon DEF IInv, Money
  <2> QED BY <1>1, <2>1, <2>2, <2>3, Zenon DEF Money, Sound
<1> QED BY <1>1, <1>5, <1>6, <1>7, MintKeeps, Zenon DEF IInv

-----------------------------------------------------------------------------
(* Asking for a swap.                                                      *)

\* What a call knows of the swap it asks for.
Asks(call, in, lock) ==
  /\ Sound(lock) /\ \A t \in in : mint[t] # None
  /\ \A d \in Slots : Naming(d) => swaps[calls[d].swap].out \notin in
  /\ call.at = "swap"
  /\ call.op = "redeem" => in = {call.ref}
  /\ call.op = "split" => lock.to \in Providers
  /\ call.op = "fee" => /\ lock.to = "oracle" /\ call.ref \in Tokens
                        /\ mint[call.ref] # None /\ mint[call.ref].lock.to \in Providers
  /\ call.op \in {"split", "fee"} => setup.begins = "escrow"
  /\ call.op \in {"hold", "bind"} =>
       /\ setup.begins = "proofs" /\ MadeFor(lock, call.for) /\ (call.op = "hold" => call.for = None /\ call.ref = 0)
       /\ \A r \in SwapIds : refs[r] # None /\ refs[r].token \in in => r = call.ref

LEMMA AskKeeps ==
  ASSUME IInv, NEW c \in Slots, NEW call \in Call, NEW in \in SUBSET Tokens, NEW signed \in BOOLEAN,
         NEW lock \in Lock, Ask(c, call, in, signed, lock), Asks(call, in, lock),
         UNCHANGED <<setup, mint, refs, named, held, split>>
  PROVE  IInv'
<1>1. /\ calls \in [Slots -> Call \union {None}] /\ refs \in [SwapIds -> Entry \union {None}]
      /\ swaps \in [SwapIds -> Swap \union {None}]
  BY Zenon DEF IInv, TypeOK
<1>2. PICK w \in SwapIds :
        /\ swaps[w] = None
        /\ swaps' = [swaps EXCEPT ![w] = [in |-> in, signed |-> signed, lock |-> lock,
                                          state |-> "sent", out |-> None, told |-> None,
                                          late |-> FALSE]]
        /\ calls' = [calls EXCEPT ![c] = [call EXCEPT !.swap = w]]
  <2> DEFINE F == Free(swaps, SwapIds)
  <2>1. F \in SUBSET Nat /\ \A x \in F : x \in SwapIds /\ swaps[x] = None
    BY EscrowAssumption, Numbers, Zenon DEF Free
  <2>2. F # {}
    BY Zenon DEF Ask
  <2> HIDE DEF F
  <2>3. First(F) \in F
    BY <2>1, <2>2, FirstIn, Zenon
  <2> QED BY <2>1, <2>3, Zenon DEF F, Ask
<1>3. PICK new \in Swap : /\ swaps' = [swaps EXCEPT ![w] = new]
                          /\ new.in = in /\ new.lock = lock /\ new.state = "sent" /\ new.out = None
                          /\ new.told = None
  <2> DEFINE n == [in |-> in, signed |-> signed, lock |-> lock, state |-> "sent", out |-> None,
                   told |-> None, late |-> FALSE]
  <2>1. n \in Swap /\ n.in = in /\ n.lock = lock /\ n.state = "sent" /\ n.out = None /\ n.told = None
    BY Zenon DEF Swap
  <2>2. swaps' = [swaps EXCEPT ![w] = n]
    BY <1>2, Zenon
  <2> HIDE DEF n
  <2> QED BY <2>1, <2>2, Zenon
<1>4. PICK made \in Call : /\ calls' = [calls EXCEPT ![c] = made]
                           /\ made.op = call.op /\ made.at = call.at /\ made.ref = call.ref
                           /\ made.for = call.for /\ made.swap = w
  <2> DEFINE m == [call EXCEPT !.swap = w]
  <2>1. m \in Call /\ m.op = call.op /\ m.at = call.at /\ m.ref = call.ref /\ m.for = call.for /\ m.swap = w
    BY Zenon DEF Call
  <2>2. calls' = [calls EXCEPT ![c] = m]
    BY <1>2, Zenon
  <2> HIDE DEF m
  <2> QED BY <2>1, <2>2, Zenon
<1>5. /\ swaps' \in [SwapIds -> Swap \union {None}] /\ swaps'[w] = new /\ new # None
      /\ \A x \in SwapIds : x # w => swaps'[x] = swaps[x]
  BY <1>1, <1>3, EscrowAssumption, Numbers, Zenon
<1>6. /\ calls' \in [Slots -> Call \union {None}] /\ calls'[c] = made
      /\ \A d \in Slots : d # c => calls'[d] = calls[d]
  BY <1>1, <1>4, Zenon
<1>7. \A d \in Slots : calls[d] # None => /\ calls[d].swap \in SwapIds /\ calls[d].swap # w
                                          /\ swaps'[calls[d].swap] = swaps[calls[d].swap]
  <2> SUFFICES ASSUME NEW d \in Slots, calls[d] # None
               PROVE  calls[d].swap \in SwapIds /\ calls[d].swap # w
    BY <1>5, Zenon
  <2>1. swaps[calls[d].swap] # None
    BY Zenon DEF IInv, Waiting
  <2> QED BY <1>1, <1>2, <2>1, Zenon DEF Call
<1>8. TypeOK'
  BY <1>5, <1>6, Zenon DEF IInv, TypeOK
<1>9. Money'
  <2>1. \A t \in Tokens : mint[t] # None => Sound(mint[t].lock)
    BY Zenon DEF IInv, Money
  <2>2. ASSUME NEW x \in SwapIds, swaps'[x] # None
        PROVE  /\ Sound(swaps'[x].lock)
               /\ \A t \in swaps'[x].in : mint[t] # None
               /\ swaps'[x].state = "taken" => \A t \in swaps'[x].in : mint[t].state = "pending"
               /\ swaps'[x].state = "done" => \A t \in swaps'[x].in : mint[t].state = "spent"
               /\ swaps'[x].state = "done" <=> swaps'[x].out # None
               /\ swaps'[x].out # None =>
                    mint[swaps'[x].out] # None /\ mint[swaps'[x].out].lock = swaps'[x].lock
    <3>1. CASE x = w
      <4>1. Sound(lock) /\ \A t \in in : mint[t] # None
        BY Zenon DEF Asks
      <4> QED BY <1>3, <1>5, <3>1, <4>1, Zenon
    <3>2. CASE x # w
      <4>1. swaps'[x] = swaps[x] /\ swaps[x] # None
        BY <1>5, <2>2, <3>2, Zenon
      <4> QED BY <4>1, SwapFacts
    <3> QED BY <3>1, <3>2, Zenon
  <2>3. ASSUME NEW x \in SwapIds, NEW y \in SwapIds, swaps'[x] # None, swaps'[y] # None, x # y
        PROVE  /\ swaps'[x].out # None => swaps'[x].out # swaps'[y].out
               /\ swaps'[x].state = "taken" /\ swaps'[y].state = "taken" =>
                    \A t \in swaps'[x].in : t \notin swaps'[y].in
    <3>1. CASE x = w \/ y = w
      BY <1>3, <1>5, <3>1, Zenon
    <3>2. CASE x # w /\ y # w
      <4>1. swaps'[x] = swaps[x] /\ swaps'[y] = swaps[y] /\ swaps[x] # None /\ swaps[y] # None
        BY <1>5, <2>3, <3>2, Zenon
      <4>2. /\ swaps[x].out # None => swaps[x].out # swaps[y].out
            /\ swaps[x].state = "taken" /\ swaps[y].state = "taken" =>
                 \A t \in swaps[x].in : t \notin swaps[y].in
        BY <2>3, <4>1, Zenon DEF IInv, Money
      <4> QED BY <4>1, <4>2, Zenon
    <3> QED BY <3>1, <3>2, Zenon
  <2>4. setup' = setup /\ mint' = mint
    BY Zenon
  <2> QED BY <2>1, <2>2, <2>3, <2>4 DEF Money, Sound
<1>10. Waiting'
  <2>1. ASSUME NEW d \in Slots, calls'[d] # None
        PROVE  LET k == calls'[d]  swap == swaps'[k.swap] IN
                 /\ swap # None /\ swap.told = None
                 /\ k.op # "redeem" => k.at = "swap"
                 /\ k.op = "redeem" => swap.in = {k.ref}
                 /\ k.op = "split" => swap.lock.to \in Providers
                 /\ k.op = "fee" => /\ swap.lock.to = "oracle"
                                    /\ k.ref \in Tokens /\ mint[k.ref] # None
                                    /\ mint[k.ref].lock.to \in Providers
    <3>1. CASE d = c
      <4>1. calls'[d] = made /\ swaps'[made.swap] = new
        BY <1>4, <1>5, <1>6, <3>1, Zenon
      <4> QED BY <1>3, <1>4, <1>5, <4>1 DEF Asks
    <3>2. CASE d # c
      <4>1. calls'[d] = calls[d] /\ calls[d] # None
        BY <1>6, <2>1, <3>2, Zenon
      <4>2. swaps'[calls[d].swap] = swaps[calls[d].swap]
        BY <1>7, <4>1, Zenon
      <4> QED BY <4>1, <4>2 DEF IInv, Waiting
    <3> QED BY <3>1, <3>2, Zenon
  <2>2. ASSUME NEW d \in Slots, NEW e \in Slots, calls'[d] # None, calls'[e] # None,
               calls'[d].swap = calls'[e].swap
        PROVE  d = e
    <3>1. CASE d # c /\ e # c
      BY <1>6, <2>2, <3>1 DEF IInv, Waiting
    <3>2. CASE d = c \/ e = c
      BY <1>4, <1>6, <1>7, <2>2, <3>2, Zenon
    <3> QED BY <3>1, <3>2, Zenon
  <2>3. mint' = mint
    BY Zenon
  <2> QED BY <2>1, <2>2, <2>3 DEF Waiting
<1>11. \A r \in SwapIds : refs[r] # None => refs[r].token \in Tokens
  BY <1>1, Zenon DEF Entry
<1>12. \A x \in SwapIds : swaps[x] # None => swaps[x].in \subseteq Tokens
  BY <1>1, Zenon DEF Swap
<1>13. References'
  <2>1. \A r \in SwapIds : refs[r] # None =>
          mint[refs[r].token] # None /\ MadeFor(mint[refs[r].token].lock, refs[r].for)
    BY Zenon DEF IInv, References
  <2>2. ASSUME NEW d \in Slots, Naming(d)'
        PROVE  LET k == calls'[d]  swap == swaps'[k.swap] IN
                 /\ MadeFor(swap.lock, k.for) /\ (k.op = "hold" => k.for = None /\ k.ref = 0)
                 /\ \A r \in SwapIds : refs[r] # None /\ refs[r].token \in swap.in => r = k.ref
                 /\ \A r \in SwapIds : refs[r] # None => refs[r].token # swap.out
                 /\ \A x \in SwapIds : swaps'[x] # None => swap.out \notin swaps'[x].in
    <3>1. CASE d = c
      <4>1. calls'[d] = made /\ swaps'[made.swap] = new /\ call.op \in {"hold", "bind"}
        BY <1>4, <1>5, <1>6, <2>2, <3>1, Zenon DEF Naming
      <4>2. \A x \in SwapIds : swaps'[x] # None => swaps'[x].in \subseteq Tokens
        BY <1>3, <1>5, <1>12, Zenon
      <4> QED BY <1>3, <1>4, <1>11, <4>1, <4>2, EscrowAssumption, Numbers DEF Asks
    <3>2. CASE d # c
      <4>1. calls'[d] = calls[d] /\ Naming(d)
        BY <1>6, <2>2, <3>2, Zenon DEF Naming
      <4>2. swaps'[calls[d].swap] = swaps[calls[d].swap]
        BY <1>7, <4>1, Zenon DEF Naming
      <4>3. ASSUME NEW x \in SwapIds, swaps'[x] # None
            PROVE  swaps[calls[d].swap].out \notin swaps'[x].in
        <5>1. CASE x = w
          BY <1>3, <1>5, <4>1, <5>1, Zenon DEF Asks
        <5>2. CASE x # w
          <6>1. swaps'[x] = swaps[x] /\ swaps[x] # None
            BY <1>5, <4>3, <5>2, Zenon
          <6> QED BY <4>1, <6>1, Zenon DEF IInv, References
        <5> QED BY <5>1, <5>2, Zenon
      <4> QED BY <4>1, <4>2, <4>3 DEF IInv, References
    <3> QED BY <3>1, <3>2, Zenon
  <2>3. ReferencesAreDistinct'
    <3> SUFFICES ASSUME NEW r \in SwapIds, NEW k \in SwapIds, NEW x \in SwapIds,
                        refs[r] # None, refs[k] # None, swaps'[x] # None, swaps'[x].out = refs[k].token
                 PROVE  refs[r].token \notin swaps'[x].in
      BY Zenon DEF ReferencesAreDistinct
    <3>1. x # w
      BY <1>3, <1>5, <1>11, EscrowAssumption, Numbers, Zenon
    <3>2. swaps'[x] = swaps[x]
      BY <1>5, <3>1, Zenon
    <3> QED BY <3>2, Zenon DEF IInv, References, ReferencesAreDistinct
  <2>4. setup' = setup /\ refs' = refs /\ mint' = mint
    BY Zenon
  <2>5. \A r, k \in SwapIds : refs[r] # None /\ refs[k] # None /\ refs[r].token = refs[k].token => r = k
    BY Zenon DEF IInv, References
  <2> QED BY <2>1, <2>2, <2>3, <2>4, <2>5 DEF References, MadeFor
<1>14. Begins'
  <2>1. \A x \in SwapIds : setup.begins = "proofs" /\ swaps'[x] # None => swaps'[x].out \notin {1, 2}
    BY <1>3, <1>5, EscrowAssumption, Numbers DEF IInv, Begins
  <2>2. ASSUME NEW d \in Slots, setup.begins # "proofs"
        PROVE  ~Naming(d)'
    <3>1. CASE d = c
      BY <1>4, <1>6, <2>2, <3>1, Zenon DEF Asks, Naming
    <3>2. CASE d # c
      BY <1>6, <2>2, <3>2, Zenon DEF IInv, Begins, Naming
    <3> QED BY <3>1, <3>2, Zenon
  <2>3. ASSUME NEW d \in Slots, setup.begins # "escrow", calls'[d] # None
        PROVE  calls'[d].op \notin {"split", "fee"}
    <3>1. CASE d = c
      BY <1>4, <1>6, <2>3, <3>1, Zenon DEF Asks
    <3>2. CASE d # c
      BY <1>6, <2>3, <3>2, Zenon DEF IInv, Begins
    <3> QED BY <3>1, <3>2, Zenon
  <2>4. setup' = setup /\ refs' = refs /\ mint' = mint
    BY Zenon
  <2> QED BY <2>1, <2>2, <2>3, <2>4, Zenon DEF IInv, Begins
<1>15. LossIsReported'
  <2> SUFFICES ASSUME NEW x \in SwapIds, swaps'[x] # None, swaps'[x].told # None, swaps'[x].state = "done"
               PROVE  \/ swaps'[x].told = "ok" /\ swaps'[x].out \in held
                      \/ swaps'[x].told \in Uncertain
                      \/ swaps'[x].told = "mint_error" /\ ~setup.checks
                      \/ swaps'[x].late
    BY Zenon DEF LossIsReported
  <2>1. swaps'[x] = swaps[x]
    BY <1>3, <1>5, Zenon
  <2> QED BY <2>1, Zenon DEF IInv, LossIsReported
<1>16. SplitPaysBoth'
  BY Zenon DEF IInv, SplitPaysBoth, Exists
<1> QED BY <1>8, <1>9, <1>10, <1>13, <1>14, <1>15, <1>16, Zenon DEF IInv

LEMMA NewCallIs ==
  ASSUME NEW op \in {"hold", "bind", "redeem", "split", "fee"}, NEW r \in Nat,
         NEW p \in Providers \union {None}, NEW x \in SwapIds
  PROVE  /\ NewCall(op, r, p) \in Call /\ NewCall(op, r, p).op = op /\ NewCall(op, r, p).at = "swap"
         /\ NewCall(op, r, p).ref = r /\ NewCall(op, r, p).for = p
<1>1. 1 \in SwapIds
  BY EscrowAssumption DEF SwapIds
<1> QED BY <1>1, Zenon DEF NewCall, Call

\* The locks that are asked for.
LEMMA Locks ==
  /\ Plain \in Lock /\ Sound(Plain) /\ Plain.to = None
  /\ \A p \in Providers \union {"oracle"} :
       LockedTo(p) \in Lock /\ Sound(LockedTo(p)) /\ LockedTo(p).to = p
BY Zenon DEF Plain, LockedTo, Lock, Sound

LEMMA Askable ==
  ASSUME NEW c, NEW call, NEW in, NEW signed, NEW lock, Ask(c, call, in, signed, lock)
  PROVE  \E x \in SwapIds : TRUE
BY Zenon DEF Ask, Free

LEMMA UnusedIn ==
  ASSUME Unused # {}
  PROVE  First(Unused) \in Unused
<1>1. Unused \in SUBSET Nat
  BY DEF Unused
<1> QED BY <1>1, FirstIn, Zenon

LEMMA HoldAskKeeps ==
  ASSUME IInv, NEW c \in Slots, NEW t \in Tokens, Resolves(t),
         Ask(c, NewCall("hold", 0, None), {t}, FALSE, Plain),
         UNCHANGED <<setup, mint, refs, named, held, split>>
  PROVE  IInv'
<1>1. setup.begins = "proofs" /\ t \in Unused
  BY UnusedIn, Zenon DEF Resolves
<1>2. t \in {1, 2} /\ \A r \in SwapIds : refs[r] # None => refs[r].token # t
  BY <1>1, Zenon DEF Unused
<1>3. mint[t] # None /\ \A w \in SwapIds : swaps[w] # None => swaps[w].out # t
  BY <1>1, <1>2, Zenon DEF IInv, Begins
<1>4. \A d \in Slots : Naming(d) => calls[d].swap \in SwapIds /\ swaps[calls[d].swap] # None
  BY Zenon DEF IInv, Waiting, TypeOK, Naming, Call
<1>5. PICK call \in Call : /\ call = NewCall("hold", 0, None) /\ call.op = "hold" /\ call.at = "swap"
                           /\ call.ref = 0 /\ call.for = None
  <2>1. PICK x \in SwapIds : TRUE
    BY Askable, Zenon
  <2>2. /\ NewCall("hold", 0, None) \in Call /\ NewCall("hold", 0, None).op = "hold"
        /\ NewCall("hold", 0, None).at = "swap"
        /\ NewCall("hold", 0, None).ref = 0 /\ NewCall("hold", 0, None).for = None
    BY <2>1, NewCallIs
  <2> QED BY <2>2, Zenon
<1>6. Asks(call, {t}, Plain)
  BY <1>1, <1>2, <1>3, <1>4, <1>5, Locks, Zenon DEF Asks, MadeFor
<1> QED BY <1>5, <1>6, Locks, AskKeeps, Zenon

LEMMA BindAskKeeps ==
  ASSUME IInv, NEW c \in Slots, NEW r \in SwapIds, NEW p \in Providers, NEW lock \in Lock,
         refs[r] # None, Sound(lock), MadeFor(lock, p),
         Ask(c, NewCall("bind", r, p), {refs[r].token}, FALSE, lock),
         UNCHANGED <<setup, mint, refs, named, held, split>>
  PROVE  IInv'
<1>1. PICK t \in Tokens : t = refs[r].token
  BY Zenon DEF IInv, TypeOK, Entry
<1>2. setup.begins = "proofs" /\ mint[t] # None
  BY <1>1, Zenon DEF IInv, Begins, References
<1>3. \A d \in Slots : Naming(d) => swaps[calls[d].swap].out # t
  BY <1>1, Zenon DEF IInv, References
<1>4. PICK call \in Call : /\ call = NewCall("bind", r, p) /\ call.op = "bind" /\ call.at = "swap"
                           /\ call.ref = r /\ call.for = p
  BY Askable, NewCallIs, EscrowAssumption, Numbers
<1>5. \A k \in SwapIds : refs[k] # None /\ refs[k].token = t => k = r
  BY <1>1, Zenon DEF IInv, References
<1>6. Asks(call, {t}, lock)
  BY <1>2, <1>3, <1>4, <1>5, Zenon DEF Asks
<1> QED BY <1>1, <1>4, <1>6, AskKeeps, Zenon

LEMMA HtlcBindKeeps ==
  ASSUME IInv, NEW c \in Slots, NEW r \in SwapIds, NEW p \in Providers, HtlcBindProvider(c, r, p)
  PROVE  IInv'
<1>1. /\ setup.kind = "htlc" /\ refs[r] # None /\ UNCHANGED <<setup, mint, refs, named, held, split>>
      /\ Ask(c, NewCall("bind", r, p), {refs[r].token}, FALSE, HtlcBindLock(refs[r], p))
  BY Zenon DEF HtlcBindProvider, SwapHtlcBindProvider
<1>2. PICK lock : lock = HtlcBindLock(refs[r], p)
  BY Zenon
<1>3. lock \in Lock /\ lock.to = p
  <2>1. refs[r] \in Entry /\ refs[r].token \in Tokens /\ mint[refs[r].token] # None
    BY <1>1, Zenon DEF IInv, TypeOK, References, Entry
  <2>2. mint[refs[r].token] \in Coin /\ mint[refs[r].token].lock \in Lock
    BY <2>1, Zenon DEF IInv, TypeOK, Coin
  <2>3. CASE refs[r].for = None
    BY <1>2, <2>3, Locks, Zenon DEF HtlcBindLock
  <2>4. CASE refs[r].for # None
    <3>1. lock = [mint[refs[r].token].lock EXCEPT !.to = p]
      BY <1>2, <2>4, Zenon DEF HtlcBindLock
    <3> QED BY <2>2, <3>1, Zenon DEF Lock
  <2> QED BY <2>3, <2>4, Zenon
<1>4. Sound(lock) /\ MadeFor(lock, p)
  BY <1>1, <1>3, EscrowAssumption, Numbers, Zenon DEF Sound, MadeFor
<1> QED BY <1>1, <1>2, <1>3, <1>4, BindAskKeeps, Zenon

LEMMA FrostBindKeeps ==
  ASSUME IInv, NEW c \in Slots, NEW r \in SwapIds, NEW p \in Providers, FrostBindProvider(c, r, p)
  PROVE  IInv'
<1>1. /\ refs[r] # None /\ UNCHANGED <<setup, mint, refs, named, held, split>>
      /\ \E lock \in BuildFrostP2PKOptions(refs[r], p) :
           Ask(c, NewCall("bind", r, p), {refs[r].token}, FALSE, lock)
  BY Zenon DEF FrostBindProvider
<1>2. PICK lock \in BuildFrostP2PKOptions(refs[r], p) :
        Ask(c, NewCall("bind", r, p), {refs[r].token}, FALSE, lock)
  BY <1>1, Zenon
<1>3. lock \in Lock /\ lock.to = p /\ lock.group /\ lock.refund /\ lock.asked
  BY <1>2, Zenon DEF BuildFrostP2PKOptions, LockedTo, Plain, Lock
<1>4. Sound(lock) /\ MadeFor(lock, p)
  BY <1>3, EscrowAssumption, Numbers, Zenon DEF Sound, MadeFor
<1> QED BY <1>1, <1>2, <1>3, <1>4, BindAskKeeps, Zenon

\* A naming call's swap has no part in the two proofs there were at first.
LEMMA BeginsApart ==
  ASSUME IInv, NEW in \in SUBSET {1, 2}, NEW d \in Slots, Naming(d)
  PROVE  swaps[calls[d].swap].out \notin in
<1>1. calls[d].swap \in SwapIds /\ swaps[calls[d].swap] # None
  BY Zenon DEF IInv, Waiting, TypeOK, Naming, Call
<1>2. setup.begins = "proofs"
  BY Zenon DEF IInv, Begins
<1> QED BY <1>1, <1>2, Zenon DEF IInv, Begins

LEMMA SplitKeeps ==
  ASSUME IInv, NEW c \in Slots, NEW p \in Providers, NEW selected \in SUBSET {1, 2},
         ExecuteEscrowSwap(c, p, selected)
  PROVE  IInv'
<1>1. /\ setup.begins = "escrow" /\ UNCHANGED <<setup, mint, refs, named, held, split>>
      /\ Ask(c, NewCall("split", 0, p), selected, TRUE, LockedTo(p))
  BY Zenon DEF ExecuteEscrowSwap
<1>2. selected \in SUBSET Tokens /\ \A t \in selected : mint[t] # None
  BY <1>1, EscrowAssumption, Numbers, Zenon DEF IInv, Begins
<1>3. PICK call \in Call : /\ call = NewCall("split", 0, p) /\ call.op = "split" /\ call.at = "swap"
                           /\ call.ref = 0 /\ call.for = p
  <2>1. PICK x \in SwapIds : TRUE
    BY <1>1, Askable, Zenon
  <2>2. /\ NewCall("split", 0, p) \in Call /\ NewCall("split", 0, p).op = "split"
        /\ NewCall("split", 0, p).at = "swap"
        /\ NewCall("split", 0, p).ref = 0 /\ NewCall("split", 0, p).for = p
    BY <2>1, NewCallIs
  <2> QED BY <2>2, Zenon
<1>4. PICK lock \in Lock : lock = LockedTo(p) /\ Sound(lock) /\ lock.to = p
  BY Locks, Zenon
<1>5. Asks(call, selected, lock)
  BY <1>1, <1>2, <1>3, <1>4, BeginsApart, Zenon DEF Asks
<1> QED BY <1>1, <1>2, <1>3, <1>4, <1>5, AskKeeps, Zenon

LEMMA PayFeeKeeps ==
  ASSUME IInv, NEW c \in Slots, NEW selected \in SUBSET {1, 2}, PayFee(c, selected)
  PROVE  IInv'
<1>1. /\ calls[c] # None /\ calls[c].op = "split" /\ swaps[calls[c].swap].state = "done"
      /\ UNCHANGED <<setup, mint, refs, named, held, split>>
      /\ Ask(c, NewCall("fee", Output(c), None), selected, TRUE, LockedTo("oracle"))
  BY Zenon DEF PayFee, Waits, Answered
<1>2. PICK w \in SwapIds : w = calls[c].swap /\ swaps[w] # None /\ swaps[w] \in Swap
  BY <1>1, Zenon DEF IInv, TypeOK, Waiting, Call
<1>3. swaps[w].out # None /\ swaps[w].lock.to \in Providers
  BY <1>1, <1>2, Zenon DEF IInv, Money, Waiting
<1>4. PICK t \in Tokens : t = Output(c) /\ mint[t] # None /\ mint[t].lock.to \in Providers
  BY <1>2, <1>3, Zenon DEF Output, Swap, IInv, Money
<1>5. setup.begins = "escrow"
  BY <1>1, Zenon DEF IInv, Begins
<1>6. selected \in SUBSET Tokens /\ \A u \in selected : mint[u] # None
  BY <1>5, EscrowAssumption, Numbers, Zenon DEF IInv, Begins
<1>7. PICK call \in Call : /\ call = NewCall("fee", t, None) /\ call.op = "fee" /\ call.at = "swap"
                           /\ call.ref = t /\ call.for = None
  <2>1. PICK x \in SwapIds : TRUE
    BY <1>1, Askable, Zenon
  <2>2. /\ NewCall("fee", t, None) \in Call /\ NewCall("fee", t, None).op = "fee"
        /\ NewCall("fee", t, None).at = "swap"
        /\ NewCall("fee", t, None).ref = t /\ NewCall("fee", t, None).for = None
    BY <2>1, NewCallIs, EscrowAssumption, Numbers
  <2> QED BY <2>2, Zenon
<1>8. PICK lock \in Lock : lock = LockedTo("oracle") /\ Sound(lock) /\ lock.to = "oracle"
  BY Locks, Zenon
<1>9. Asks(call, selected, lock)
  BY <1>4, <1>5, <1>6, <1>7, <1>8, BeginsApart, Zenon DEF Asks
<1> QED BY <1>1, <1>4, <1>6, <1>7, <1>8, <1>9, AskKeeps, Zenon

LEMMA RedeemKeeps ==
  ASSUME IInv, NEW c \in Slots, NEW t \in Tokens, t \in Known, mint[t] # None,
         mint[t].lock.to \in Providers, RedeemSignedProofs(c, t)
  PROVE  IInv'
<1>1. PICK p \in Providers : p = mint[t].lock.to
  BY Zenon
<1>2. /\ UNCHANGED <<setup, mint, refs, named, held, split>>
      /\ Ask(c, NewCall("redeem", t, p), {t}, TRUE, Plain)
  BY <1>1, Zenon DEF RedeemSignedProofs
<1>3. ASSUME NEW d \in Slots, Naming(d)
      PROVE  swaps[calls[d].swap].out # t
  <2>1. CASE t = 1
    BY <1>3, <2>1, BeginsApart, Zenon
  <2>2. CASE t # 1
    <3>1. PICK r \in SwapIds : refs[r] # None /\ refs[r].token = t
      BY <2>2, Zenon DEF Known
    <3> QED BY <1>3, <3>1, Zenon DEF IInv, References
  <2> QED BY <2>1, <2>2, Zenon
<1>4. PICK call \in Call : /\ call = NewCall("redeem", t, p) /\ call.op = "redeem" /\ call.at = "swap"
                           /\ call.ref = t /\ call.for = p
  <2>1. PICK x \in SwapIds : TRUE
    BY <1>2, Askable, Zenon
  <2>2. /\ NewCall("redeem", t, p) \in Call /\ NewCall("redeem", t, p).op = "redeem"
        /\ NewCall("redeem", t, p).at = "swap"
        /\ NewCall("redeem", t, p).ref = t /\ NewCall("redeem", t, p).for = p
    BY <2>1, NewCallIs, EscrowAssumption, Numbers
  <2> QED BY <2>2, Zenon
<1>5. Asks(call, {t}, Plain)
  BY <1>3, <1>4, Locks, Zenon DEF Asks
<1> QED BY <1>2, <1>4, <1>5, Locks, AskKeeps, Zenon

-----------------------------------------------------------------------------
(* Answers.                                                                *)

\* What is known of the token a new reference is for.
Nameable(e) ==
  /\ setup.begins = "proofs" /\ mint[e.token] # None /\ MadeFor(mint[e.token].lock, e.for)
  /\ \A r \in SwapIds : refs[r] # None => refs[r].token # e.token
  /\ \A w \in SwapIds : swaps[w] # None => e.token \notin swaps[w].in
  /\ \A d \in Slots : Naming(d) /\ calls'[d] = calls[d] => e.token # swaps[calls[d].swap].out
  /\ \A w, r \in SwapIds : swaps[w] # None /\ swaps[w].out = e.token /\ refs'[r] # None /\ refs'[r] # e
       => refs'[r].token \notin swaps[w].in

\* Calls end, references go, and one may be made.
LEMMA AnswerKeeps ==
  ASSUME IInv, UNCHANGED <<setup, mint, swaps, held>>, TypeOK', SplitPaysBoth', NEW n, NEW e,
         \A d \in Slots : calls'[d] # None => calls'[d] = calls[d],
         \A r \in SwapIds : refs'[r] # None =>
           refs'[r] = refs[r] \/ (r = n /\ refs'[r] = e /\ Nameable(e))
  PROVE  IInv'
<1>1. setup' = setup /\ mint' = mint /\ swaps' = swaps /\ held' = held
  BY Zenon
<1>2. Money'
  BY <1>1, MoneyKept, Zenon
<1>3. Waiting'
  <2>1. ASSUME NEW c \in Slots, calls'[c] # None
        PROVE  LET k == calls'[c] IN
                 /\ swaps[k.swap] # None /\ swaps[k.swap].told = None
                 /\ k.op # "redeem" => k.at = "swap"
                 /\ k.op = "redeem" => swaps[k.swap].in = {k.ref}
                 /\ k.op = "split" => swaps[k.swap].lock.to \in Providers
                 /\ k.op = "fee" => /\ swaps[k.swap].lock.to = "oracle"
                                    /\ k.ref \in Tokens /\ mint[k.ref] # None
                                    /\ mint[k.ref].lock.to \in Providers
    <3>1. calls'[c] = calls[c] /\ calls[c] # None
      BY <2>1, Zenon
    <3> QED BY <3>1 DEF IInv, Waiting
  <2>2. ASSUME NEW c \in Slots, NEW d \in Slots, calls'[c] # None, calls'[d] # None,
               calls'[c].swap = calls'[d].swap
        PROVE  c = d
    <3>1. calls'[c] = calls[c] /\ calls'[d] = calls[d]
      BY <2>2, Zenon
    <3> QED BY <2>2, <3>1 DEF IInv, Waiting
  <2> QED BY <1>1, <2>1, <2>2 DEF Waiting
<1>4. References'
  <2>1. ASSUME NEW r \in SwapIds, refs'[r] # None
        PROVE  mint[refs'[r].token] # None /\ MadeFor(mint[refs'[r].token].lock, refs'[r].for)
    <3>1. CASE refs'[r] = refs[r]
      BY <2>1, <3>1, Zenon DEF IInv, References
    <3>2. CASE refs'[r] = e /\ Nameable(e)
      BY <3>2, Zenon DEF Nameable
    <3> QED BY <2>1, <3>1, <3>2, Zenon
  <2>2. ASSUME NEW c \in Slots, Naming(c)'
        PROVE  LET k == calls'[c]  swap == swaps[k.swap] IN
                 /\ MadeFor(swap.lock, k.for) /\ (k.op = "hold" => k.for = None /\ k.ref = 0)
                 /\ \A r \in SwapIds : refs'[r] # None /\ refs'[r].token \in swap.in => r = k.ref
                 /\ \A r \in SwapIds : refs'[r] # None => refs'[r].token # swap.out
                 /\ \A w \in SwapIds : swaps[w] # None => swap.out \notin swaps[w].in
    <3>1. calls'[c] = calls[c] /\ Naming(c)
      BY <2>2, Zenon DEF Naming
    <3>2. calls[c].swap \in SwapIds /\ swaps[calls[c].swap] # None
      BY <3>1, Zenon DEF IInv, TypeOK, Waiting, Naming, Call
    <3>3. ASSUME NEW r \in SwapIds, refs'[r] # None
          PROVE  /\ refs'[r].token \in swaps[calls[c].swap].in => r = calls[c].ref
                 /\ refs'[r].token # swaps[calls[c].swap].out
      <4>1. CASE refs'[r] = refs[r]
        BY <3>1, <3>3, <4>1 DEF IInv, References
      <4>2. CASE refs'[r] = e /\ Nameable(e)
        BY <3>1, <3>2, <4>2, Zenon DEF Nameable
      <4> QED BY <3>3, <4>1, <4>2, Zenon
    <3> QED BY <3>1, <3>3, Zenon DEF IInv, References
  <2>3. ASSUME NEW r \in SwapIds, NEW k \in SwapIds, refs'[r] # None, refs'[k] # None,
               refs'[r].token = refs'[k].token
        PROVE  r = k
    <3>1. CASE refs'[r] = refs[r] /\ refs'[k] = refs[k]
      BY <2>3, <3>1 DEF IInv, References
    <3>2. CASE r = n /\ k = n
      BY <3>2, Zenon
    <3>3. CASE refs'[r] = refs[r] /\ refs'[k] = e /\ Nameable(e)
      BY <2>3, <3>3, Zenon DEF Nameable
    <3>4. CASE refs'[k] = refs[k] /\ refs'[r] = e /\ Nameable(e)
      BY <2>3, <3>4, Zenon DEF Nameable
    <3> QED BY <2>3, <3>1, <3>2, <3>3, <3>4, Zenon
  <2>4. ReferencesAreDistinct'
    <3> SUFFICES ASSUME NEW r \in SwapIds, NEW k \in SwapIds, NEW w \in SwapIds,
                        refs'[r] # None, refs'[k] # None, swaps[w] # None, swaps[w].out = refs'[k].token
                 PROVE  refs'[r].token \notin swaps[w].in
      BY <1>1 DEF ReferencesAreDistinct
    <3>1. CASE refs'[r] = refs[r] /\ refs'[k] = refs[k]
      BY <3>1 DEF IInv, References, ReferencesAreDistinct
    <3>2. CASE refs'[r] = e /\ Nameable(e)
      BY <3>2, Zenon DEF Nameable
    <3>3. CASE refs'[r] # e /\ refs'[k] = e /\ Nameable(e)
      BY <3>3, Zenon DEF Nameable
    <3> QED BY <3>1, <3>2, <3>3, Zenon
  <2> QED BY <1>1, <2>1, <2>2, <2>3, <2>4 DEF References, MadeFor
<1>5. Begins'
  <2>1. ASSUME setup.begins # "proofs", NEW r \in SwapIds PROVE refs'[r] = None
    BY <2>1, Zenon DEF IInv, Begins, Nameable
  <2>2. ASSUME setup.begins # "proofs", NEW c \in Slots PROVE ~Naming(c)'
    BY <2>2, Zenon DEF IInv, Begins, Naming
  <2>3. ASSUME setup.begins # "escrow", NEW c \in Slots, calls'[c] # None
        PROVE  calls'[c].op \notin {"split", "fee"}
    BY <2>3, Zenon DEF IInv, Begins
  <2> QED BY <1>1, <2>1, <2>2, <2>3, Zenon DEF IInv, Begins
<1>6. LossIsReported'
  BY <1>1, Zenon DEF IInv, LossIsReported
<1> QED BY <1>2, <1>3, <1>4, <1>5, <1>6, Zenon DEF IInv

LEMMA ReturnIs ==
  ASSUME IInv, NEW c \in Slots, Return(c)
  PROVE  /\ calls' \in [Slots -> Call \union {None}] /\ calls'[c] = None
         /\ \A d \in Slots : d # c => calls'[d] = calls[d]
         /\ \A d \in Slots : calls'[d] # None => calls'[d] = calls[d] /\ d # c
BY Zenon DEF IInv, TypeOK, Return

\* The output of an answered swap: it has the lock that was asked for.
LEMMA OutputIs ==
  ASSUME IInv, NEW c \in Slots, calls[c] # None, Answered(c)
  PROVE  /\ calls[c].swap \in SwapIds /\ swaps[calls[c].swap] # None
         /\ Output(c) \in Tokens /\ mint[Output(c)] # None
         /\ mint[Output(c)].lock = swaps[calls[c].swap].lock
<1>1. PICK w \in SwapIds : w = calls[c].swap
  BY Zenon DEF IInv, TypeOK, Call
<1>2. swaps[w] # None /\ swaps[w].state = "done" /\ swaps[w] \in Swap
  BY <1>1, Zenon DEF Answered, IInv, TypeOK, Waiting
<1>3. swaps[w].out # None /\ mint[swaps[w].out] # None /\ mint[swaps[w].out].lock = swaps[w].lock
  BY <1>2, Zenon DEF IInv, Money
<1> QED BY <1>1, <1>2, <1>3, Zenon DEF Output, Swap

LEMMA OutputNameable ==
  ASSUME IInv, NEW c \in Slots, Naming(c), Answered(c), Return(c), NEW e \in Entry,
         e.token = Output(c), e.for = calls[c].for,
         \A r \in SwapIds : refs'[r] # None /\ refs'[r] # e => refs'[r] = refs[r] /\ r # calls[c].ref
  PROVE  Nameable(e)
<1>1. calls[c] # None
  BY Zenon DEF Naming
<1>2. PICK w \in SwapIds : /\ w = calls[c].swap /\ swaps[w] # None /\ e.token = swaps[w].out
                           /\ e.token \in Tokens /\ mint[e.token] # None
                           /\ mint[e.token].lock = swaps[w].lock
  <2>1. Output(c) = swaps[calls[c].swap].out
    BY Zenon DEF Output
  <2>2. /\ calls[c].swap \in SwapIds /\ swaps[calls[c].swap] # None
        /\ Output(c) \in Tokens /\ mint[Output(c)] # None
        /\ mint[Output(c)].lock = swaps[calls[c].swap].lock
    BY <1>1, OutputIs, Zenon
  <2> QED BY <2>1, <2>2, Zenon
<1>3. /\ MadeFor(swaps[w].lock, calls[c].for)
      /\ \A r \in SwapIds : refs[r] # None /\ refs[r].token \in swaps[w].in => r = calls[c].ref
      /\ \A r \in SwapIds : refs[r] # None => refs[r].token # swaps[w].out
      /\ \A x \in SwapIds : swaps[x] # None => swaps[w].out \notin swaps[x].in
  BY <1>2, NamingFacts, Zenon
<1>4. swaps[w].out # None
  BY <1>2, Numbers, Zenon
<1>5. \A x \in SwapIds : swaps[x] # None /\ swaps[x].out = e.token => x = w
  BY <1>2, <1>4 DEF IInv, Money
<1>6. setup.begins = "proofs"
  BY Zenon DEF IInv, Begins
<1>7. ASSUME NEW d \in Slots, Naming(d), calls'[d] = calls[d]
      PROVE  e.token # swaps[calls[d].swap].out
  <2>1. d # c /\ calls[d] # None
    BY <1>1, <1>7, ReturnIs, Zenon DEF Naming
  <2>2. calls[d].swap \in SwapIds /\ swaps[calls[d].swap] # None /\ calls[d].swap # w
    BY <1>1, <1>2, <2>1 DEF IInv, TypeOK, Waiting, Call
  <2> QED BY <1>5, <2>2, Zenon
<1>8. ASSUME NEW x \in SwapIds, NEW r \in SwapIds, swaps[x] # None, swaps[x].out = e.token,
             refs'[r] # None, refs'[r] # e
      PROVE  refs'[r].token \notin swaps[x].in
  BY <1>3, <1>5, <1>8, Zenon
<1> QED BY <1>2, <1>3, <1>6, <1>7, <1>8, Zenon DEF Nameable

LEMMA NameIs ==
  ASSUME IInv, NEW t \in Tokens, NEW p \in Providers \union {None}, named < MaxSwaps
  PROVE  /\ named + 1 \in SwapIds /\ named + 1 \in 0..MaxSwaps
         /\ [token |-> t, refund |-> setup.refund, for |-> p] \in Entry
<1>1. setup.refund \in BOOLEAN
  BY EscrowAssumption, Zenon DEF IInv, TypeOK, Setup
<1> QED BY <1>1, EscrowAssumption DEF IInv, TypeOK, SwapIds, Entry

LEMMA HoldNamedKeeps ==
  ASSUME IInv, NEW t \in Tokens, Resolves(t), named < MaxSwaps, Name(t, None),
         UNCHANGED <<setup, mint, swaps, calls, held, split>>
  PROVE  IInv'
<1>1. setup.begins = "proofs" /\ t \in Unused
  BY UnusedIn, Zenon DEF Resolves
<1>2. /\ t \in {1, 2} /\ \A r \in SwapIds : refs[r] # None => refs[r].token # t
      /\ \A w \in SwapIds : swaps[w] # None => t \notin swaps[w].in
  BY <1>1, Zenon DEF Unused
<1>3. /\ mint[t] # None /\ mint[t].lock = Plain
      /\ \A w \in SwapIds : swaps[w] # None => swaps[w].out # t
  BY <1>1, <1>2, Zenon DEF IInv, Begins
<1>4. PICK e \in Entry : /\ e = [token |-> t, refund |-> setup.refund, for |-> None]
                         /\ e.token = t /\ e.for = None
  <2>1. PICK p \in Providers \union {None} : p = None
    BY Zenon
  <2>2. [token |-> t, refund |-> setup.refund, for |-> p] \in Entry
    BY NameIs, Zenon
  <2> QED BY <2>1, <2>2, Zenon
<1>5. PICK n \in SwapIds : n = named + 1 /\ named' = n /\ n \in 0..MaxSwaps
  BY NameIs, Zenon DEF Name
<1>6. refs' = [refs EXCEPT ![n] = e]
  BY <1>4, <1>5, Zenon DEF Name
<1>7. /\ refs' \in [SwapIds -> Entry \union {None}] /\ refs'[n] = e
      /\ \A r \in SwapIds : r # n => refs'[r] = refs[r]
  BY <1>6, Zenon DEF IInv, TypeOK
<1>8. \A d \in Slots : Naming(d) => calls[d].swap \in SwapIds /\ swaps[calls[d].swap] # None
  BY Zenon DEF IInv, Waiting, TypeOK, Naming, Call
<1>9. Nameable(e)
  BY <1>1, <1>2, <1>3, <1>4, <1>8, Zenon DEF Nameable, MadeFor
<1>10. TypeOK' /\ SplitPaysBoth'
  BY <1>5, <1>7, Zenon DEF IInv, TypeOK, SplitPaysBoth, Exists
<1>11. calls' = calls
  BY Zenon
<1>12. \A r \in SwapIds : refs'[r] # None => refs'[r] = refs[r] \/ (r = n /\ refs'[r] = e /\ Nameable(e))
  BY <1>7, <1>9, Zenon
<1>13. \A d \in Slots : calls'[d] # None => calls'[d] = calls[d]
  BY <1>11, Zenon
<1> QED BY <1>10, <1>12, <1>13, AnswerKeeps

LEMMA HoldCreatedKeeps ==
  ASSUME IInv, NEW c \in Slots, HoldCreated(c)
  PROVE  IInv'
<1>1. /\ calls[c] # None /\ calls[c].op = "hold" /\ Naming(c) /\ Answered(c) /\ named < MaxSwaps
      /\ Name(Output(c), None) /\ Return(c) /\ UNCHANGED <<setup, mint, swaps, held, split>>
  BY Zenon DEF HoldCreated, Waits, Naming
<1>2. PICK t \in Tokens : t = Output(c)
  BY <1>1, OutputIs, Zenon
<1>3. PICK e \in Entry : /\ e = [token |-> t, refund |-> setup.refund, for |-> None]
                         /\ e.token = t /\ e.for = None
  <2>1. PICK p \in Providers \union {None} : p = None
    BY Zenon
  <2>2. [token |-> t, refund |-> setup.refund, for |-> p] \in Entry
    BY <1>1, NameIs, Zenon
  <2> QED BY <2>1, <2>2, Zenon
<1>4. PICK n \in SwapIds : n = named + 1 /\ named' = n /\ n \in 0..MaxSwaps
  BY <1>1, <1>2, NameIs, Zenon DEF Name
<1>5. refs' = [refs EXCEPT ![n] = e]
  BY <1>1, <1>2, <1>3, <1>4, Zenon DEF Name
<1>6. /\ refs' \in [SwapIds -> Entry \union {None}] /\ refs'[n] = e
      /\ \A r \in SwapIds : r # n => refs'[r] = refs[r]
  BY <1>5, Zenon DEF IInv, TypeOK
<1>7. calls[c].for = None /\ calls[c].ref = 0 /\ 0 \notin SwapIds
  BY <1>1 DEF IInv, References, SwapIds
<1>8. Nameable(e)
  <2>1. \A r \in SwapIds : refs'[r] # None /\ refs'[r] # e => refs'[r] = refs[r] /\ r # calls[c].ref
    BY <1>6, <1>7, Zenon
  <2> QED BY <1>1, <1>2, <1>3, <1>7, <2>1, OutputNameable, Zenon
<1>9. calls' \in [Slots -> Call \union {None}] /\ \A d \in Slots : calls'[d] # None => calls'[d] = calls[d]
  BY <1>1, ReturnIs, Zenon
<1>10. TypeOK' /\ SplitPaysBoth'
  BY <1>1, <1>4, <1>6, <1>9, Zenon DEF IInv, TypeOK, SplitPaysBoth, Exists
<1>11. \A r \in SwapIds : refs'[r] # None => refs'[r] = refs[r] \/ (r = n /\ refs'[r] = e /\ Nameable(e))
  BY <1>6, <1>8, Zenon
<1> QED BY <1>1, <1>9, <1>10, <1>11, AnswerKeeps

LEMMA BoundKeeps ==
  ASSUME IInv, NEW c \in Slots, ProviderBound(c)
  PROVE  IInv'
<1>1. /\ calls[c] # None /\ calls[c].op = "bind" /\ Naming(c) /\ Answered(c) /\ named < MaxSwaps
      /\ Return(c) /\ UNCHANGED <<setup, mint, swaps, held, split>>
  BY Zenon DEF ProviderBound, Waits, Naming
<1>2. PICK t \in Tokens : t = Output(c)
  BY <1>1, OutputIs, Zenon
<1>3. PICK p \in Providers \union {None}, k \in Nat : p = calls[c].for /\ k = calls[c].ref
  BY <1>1, Zenon DEF IInv, TypeOK, Call
<1>4. PICK e \in Entry : /\ e = [token |-> t, refund |-> setup.refund, for |-> p]
                         /\ e.token = t /\ e.for = p
  BY <1>1, NameIs, Zenon
<1>5. PICK n \in SwapIds : n = named + 1 /\ named' = n /\ n \in 0..MaxSwaps
  BY <1>1, <1>2, NameIs, Zenon DEF ProviderBound
<1>6. refs' = [refs EXCEPT ![n] = e, ![k] = None]
  BY <1>2, <1>3, <1>4, <1>5, Zenon DEF ProviderBound
<1>7. /\ refs' \in [SwapIds -> Entry \union {None}]
      /\ \A r \in SwapIds : refs'[r] = IF r = k THEN None ELSE IF r = n THEN e ELSE refs[r]
  BY <1>6, Zenon DEF IInv, TypeOK
<1>8. Nameable(e)
  <2>1. \A r \in SwapIds : refs'[r] # None /\ refs'[r] # e => refs'[r] = refs[r] /\ r # calls[c].ref
    BY <1>3, <1>7, Zenon
  <2> QED BY <1>1, <1>2, <1>3, <1>4, <2>1, OutputNameable, Zenon
<1>9. calls' \in [Slots -> Call \union {None}] /\ \A d \in Slots : calls'[d] # None => calls'[d] = calls[d]
  BY <1>1, ReturnIs, Zenon
<1>10. TypeOK' /\ SplitPaysBoth'
  BY <1>1, <1>5, <1>7, <1>9, Zenon DEF IInv, TypeOK, SplitPaysBoth, Exists
<1>11. \A r \in SwapIds : refs'[r] # None => refs'[r] = refs[r] \/ (r = n /\ refs'[r] = e /\ Nameable(e))
  BY <1>7, <1>8, Zenon
<1> QED BY <1>1, <1>9, <1>10, <1>11, AnswerKeeps

LEMMA CancelKeeps ==
  ASSUME IInv, NEW r \in SwapIds, Cancel(r)
  PROVE  IInv'
<1>1. refs' = [refs EXCEPT ![r] = None] /\ UNCHANGED <<setup, mint, swaps, named, calls, held, split>>
  BY Zenon DEF Cancel
<1>2. refs' \in [SwapIds -> Entry \union {None}] /\ \A k \in SwapIds : refs'[k] # None => refs'[k] = refs[k]
  BY <1>1, Zenon DEF IInv, TypeOK
<1>3. TypeOK' /\ SplitPaysBoth'
  BY <1>1, <1>2, Zenon DEF IInv, TypeOK, SplitPaysBoth, Exists
<1>4. \A d \in Slots : calls'[d] # None => calls'[d] = calls[d]
  BY <1>1, Zenon
<1> QED BY <1>1, <1>2, <1>3, <1>4, AnswerKeeps, Zenon

LEMMA GiveUpKeeps ==
  ASSUME IInv, NEW c \in Slots, GiveUp(c)
  PROVE  IInv'
<1>1. /\ Return(c) /\ UNCHANGED <<setup, mint, swaps, refs, named, held>>
      /\ split' = Null \/ split' = split
  BY Zenon DEF GiveUp
<1>2. calls' \in [Slots -> Call \union {None}] /\ \A d \in Slots : calls'[d] # None => calls'[d] = calls[d]
  BY <1>1, ReturnIs, Zenon
<1>3. TypeOK' /\ SplitPaysBoth'
  BY <1>1, <1>2, Zenon DEF IInv, TypeOK, SplitPaysBoth, Exists
<1>4. \A r \in SwapIds : refs'[r] # None => refs'[r] = refs[r]
  BY <1>1, Zenon
<1> QED BY <1>1, <1>2, <1>3, <1>4, AnswerKeeps, Zenon

LEMMA FeePaidKeeps ==
  ASSUME IInv, NEW c \in Slots, FeePaid(c)
  PROVE  IInv'
<1>1. /\ calls[c] # None /\ calls[c].op = "fee" /\ Answered(c)
      /\ Return(c) /\ UNCHANGED <<setup, mint, swaps, refs, named, held>>
      /\ split' = [provider |-> calls[c].ref, oracle |-> Output(c)]
  BY Zenon DEF FeePaid, Waits
<1>2. calls' \in [Slots -> Call \union {None}] /\ \A d \in Slots : calls'[d] # None => calls'[d] = calls[d]
  BY <1>1, ReturnIs, Zenon
<1>3. PICK t \in Tokens, u \in Tokens :
        /\ t = calls[c].ref /\ u = Output(c)
        /\ mint[t] # None /\ mint[t].lock.to \in Providers
        /\ mint[u] # None /\ mint[u].lock.to = "oracle"
  <2>1. /\ swaps[calls[c].swap].lock.to = "oracle" /\ calls[c].ref \in Tokens
        /\ mint[calls[c].ref] # None /\ mint[calls[c].ref].lock.to \in Providers
    BY <1>1, WaitingFacts, Zenon
  <2>2. /\ Output(c) \in Tokens /\ mint[Output(c)] # None
        /\ mint[Output(c)].lock = swaps[calls[c].swap].lock
    BY <1>1, OutputIs, Zenon
  <2>3. mint[Output(c)].lock.to = "oracle"
    BY <2>1, <2>2, Zenon
  <2> QED BY <2>1, <2>2, <2>3, Zenon
<1>4. split' \in [provider : Tokens, oracle : Tokens] /\ split'.provider = t /\ split'.oracle = u
  BY <1>1, <1>3, Zenon
<1>5. TypeOK' /\ SplitPaysBoth'
  BY <1>1, <1>2, <1>3, <1>4, Zenon DEF IInv, TypeOK, SplitPaysBoth, Exists
<1>6. \A r \in SwapIds : refs'[r] # None => refs'[r] = refs[r]
  BY <1>1, Zenon
<1> QED BY <1>1, <1>2, <1>5, <1>6, AnswerKeeps, Zenon

LEMMA GoKeeps ==
  ASSUME IInv, NEW c \in Slots, calls[c] # None, calls[c].op = "redeem", NEW await \in {"check", "restore"},
         Go(c, await), UNCHANGED <<setup, mint, refs, named, split>>
  PROVE  IInv'
<1>1. setup' = setup /\ mint' = mint /\ swaps' = swaps /\ held' = held /\ refs' = refs /\ split' = split
  BY Zenon DEF Go
<1>2. PICK made \in Call : /\ calls' = [calls EXCEPT ![c] = made] /\ made.op = "redeem"
                           /\ made.swap = calls[c].swap /\ made.ref = calls[c].ref
  <2> DEFINE m == [calls[c] EXCEPT !.at = await]
  <2>1. calls[c] \in Call
    BY Zenon DEF IInv, TypeOK
  <2>2. m \in Call /\ m.op = "redeem" /\ m.swap = calls[c].swap /\ m.ref = calls[c].ref
    BY <2>1, Zenon DEF Call
  <2>3. calls' = [calls EXCEPT ![c] = m]
    BY Zenon DEF Go
  <2> HIDE DEF m
  <2> QED BY <2>2, <2>3, Zenon
<1>3. /\ calls' \in [Slots -> Call \union {None}] /\ calls'[c] = made
      /\ \A d \in Slots : d # c => calls'[d] = calls[d]
  BY <1>2, Zenon DEF IInv, TypeOK
<1>4. TypeOK'
  BY <1>1, <1>3, Zenon DEF IInv, TypeOK
<1>5. Money'
  BY <1>1, MoneyKept, Zenon
<1>6. Waiting'
  <2>1. ASSUME NEW d \in Slots, calls'[d] # None
        PROVE  LET k == calls'[d] IN
                 /\ calls[d] # None /\ k.swap = calls[d].swap /\ k.op = calls[d].op /\ k.ref = calls[d].ref
                 /\ k.op # "redeem" => k.at = calls[d].at
    BY <1>2, <1>3, <2>1, Zenon
  <2>2. ASSUME NEW d \in Slots, calls'[d] # None
        PROVE  LET k == calls'[d] IN
                 /\ swaps[k.swap] # None /\ swaps[k.swap].told = None
                 /\ k.op # "redeem" => k.at = "swap"
                 /\ k.op = "redeem" => swaps[k.swap].in = {k.ref}
                 /\ k.op = "split" => swaps[k.swap].lock.to \in Providers
                 /\ k.op = "fee" => /\ swaps[k.swap].lock.to = "oracle"
                                    /\ k.ref \in Tokens /\ mint[k.ref] # None
                                    /\ mint[k.ref].lock.to \in Providers
    BY <2>1, <2>2, WaitingFacts
  <2>3. ASSUME NEW d \in Slots, NEW e \in Slots, calls'[d] # None, calls'[e] # None,
               calls'[d].swap = calls'[e].swap
        PROVE  d = e
    BY <2>1, <2>3, WaitingFacts
  <2> QED BY <1>1, <2>2, <2>3 DEF Waiting
<1>7. \A d \in Slots : Naming(d)' => Naming(d) /\ calls'[d] = calls[d]
  BY <1>2, <1>3, Zenon DEF Naming
<1>8. References'
  <2>1. setup' = setup /\ mint' = mint /\ refs' = refs /\ swaps' = swaps
    BY <1>1, Zenon
  <2>2. ASSUME NEW d \in Slots, Naming(d)'
        PROVE  LET k == calls'[d]  swap == swaps'[k.swap] IN
                 /\ MadeFor(swap.lock, k.for) /\ (k.op = "hold" => k.for = None /\ k.ref = 0)
                 /\ \A r \in SwapIds : refs[r] # None /\ refs[r].token \in swap.in => r = k.ref
                 /\ \A r \in SwapIds : refs[r] # None => refs[r].token # swap.out
                 /\ \A w \in SwapIds : swaps'[w] # None => swap.out \notin swaps'[w].in
    <3>1. Naming(d) /\ calls'[d] = calls[d]
      BY <1>7, <2>2, Zenon
    <3> QED BY <2>1, <3>1, NamingFacts
  <2>3. ReferencesAreDistinct'
    <3>1. ReferencesAreDistinct
      BY Zenon DEF IInv, References
    <3> QED BY <2>1, <3>1 DEF ReferencesAreDistinct
  <2> QED BY <2>1, <2>2, <2>3, ReferencesKept
<1>9. Begins'
  <2>1. \A d \in Slots : calls'[d] # None => calls'[d].op \in {"redeem"} \/ calls'[d] = calls[d]
    BY <1>2, <1>3, Zenon
  <2> QED BY <1>1, <1>7, <2>1, Zenon DEF IInv, Begins
<1>10. LossIsReported' /\ SplitPaysBoth'
  BY <1>1, Zenon DEF IInv, LossIsReported, SplitPaysBoth, Exists
<1> QED BY <1>4, <1>5, <1>6, <1>8, <1>9, <1>10, Zenon DEF IInv

LEMMA TellKeeps ==
  ASSUME IInv, NEW c \in Slots, calls[c] # None, NEW reason \in Reasons, Tell(c, reason),
         reason = "ok" => Answered(c),
         Answered(c) => \/ reason = "ok" \/ reason \in Uncertain
                        \/ reason = "mint_error" /\ ~setup.checks,
         UNCHANGED <<setup, mint, refs, named, split>>
  PROVE  IInv'
<1>1. setup' = setup /\ mint' = mint /\ refs' = refs /\ split' = split
  BY Zenon
<1>2. PICK w \in SwapIds : w = calls[c].swap /\ swaps[w] # None /\ swaps[w] \in Swap
  BY Zenon DEF IInv, TypeOK, Waiting, Call
<1>3. PICK new \in Swap : /\ swaps' = [swaps EXCEPT ![w] = new] /\ new.told = reason
                          /\ new.in = swaps[w].in /\ new.lock = swaps[w].lock
                          /\ new.state = swaps[w].state /\ new.out = swaps[w].out
  <2> DEFINE n == [swaps[w] EXCEPT !.told = reason]
  <2>1. n \in Swap /\ n.told = reason /\ n.in = swaps[w].in /\ n.lock = swaps[w].lock
        /\ n.state = swaps[w].state /\ n.out = swaps[w].out
    BY <1>2, Zenon DEF Swap
  <2>2. swaps' = [swaps EXCEPT ![w] = n]
    BY <1>2, Zenon DEF Tell
  <2> HIDE DEF n
  <2> QED BY <2>1, <2>2, Zenon
<1>4. /\ swaps' \in [SwapIds -> Swap \union {None}] /\ swaps'[w] = new /\ new # None
      /\ \A x \in SwapIds : x # w => swaps'[x] = swaps[x]
  BY <1>3, EscrowAssumption, Numbers, Zenon DEF IInv, TypeOK
<1>5. \A x \in SwapIds : /\ (swaps'[x] = None) = (swaps[x] = None)
                         /\ swaps[x] # None =>
                              /\ swaps'[x].in = swaps[x].in /\ swaps'[x].lock = swaps[x].lock
                              /\ swaps'[x].state = swaps[x].state /\ swaps'[x].out = swaps[x].out
  BY <1>2, <1>3, <1>4, Zenon
<1>6. /\ calls' \in [Slots -> Call \union {None}]
      /\ \A d \in Slots : calls'[d] # None => calls'[d] = calls[d] /\ d # c
  BY ReturnIs, Zenon DEF Tell
<1>7. \A d \in Slots : calls'[d] # None =>
        /\ calls'[d] = calls[d] /\ calls[d].swap \in SwapIds
        /\ swaps'[calls[d].swap] = swaps[calls[d].swap]
  <2> SUFFICES ASSUME NEW d \in Slots, calls'[d] # None
               PROVE  /\ calls'[d] = calls[d] /\ calls[d].swap \in SwapIds
                      /\ swaps'[calls[d].swap] = swaps[calls[d].swap]
    BY Zenon
  <2>1. calls'[d] = calls[d] /\ d # c
    BY <1>6, Zenon
  <2>2. calls[d].swap \in SwapIds /\ calls[d].swap # w
    BY <1>2, <2>1, Zenon DEF IInv, TypeOK, Waiting, Call
  <2> QED BY <1>4, <2>1, <2>2, Zenon
<1>8. held' \subseteq Tokens /\ held \subseteq held'
      /\ (reason = "ok" => swaps[w].out \in held')
  <2>1. CASE reason = "ok"
    <3>1. Output(c) \in Tokens /\ Output(c) = swaps[w].out
      BY <1>2, <2>1, OutputIs, Zenon DEF Output
    <3> QED BY <2>1, <3>1, Zenon DEF Tell, IInv, TypeOK
  <2>2. CASE reason # "ok"
    BY <2>2, Zenon DEF Tell, IInv, TypeOK
  <2> QED BY <2>1, <2>2, Zenon
<1>9. TypeOK'
  BY <1>4, <1>6, <1>8, Zenon DEF IInv, TypeOK
<1>10. Money'
  <2>1. ASSUME NEW x \in SwapIds, swaps'[x] # None
        PROVE  /\ Sound(swaps'[x].lock)
               /\ \A t \in swaps'[x].in : mint[t] # None
               /\ swaps'[x].state = "taken" => \A t \in swaps'[x].in : mint[t].state = "pending"
               /\ swaps'[x].state = "done" => \A t \in swaps'[x].in : mint[t].state = "spent"
               /\ swaps'[x].state = "done" <=> swaps'[x].out # None
               /\ swaps'[x].out # None =>
                    mint[swaps'[x].out] # None /\ mint[swaps'[x].out].lock = swaps'[x].lock
    <3>1. /\ swaps[x] # None /\ swaps'[x].in = swaps[x].in /\ swaps'[x].lock = swaps[x].lock
          /\ swaps'[x].state = swaps[x].state /\ swaps'[x].out = swaps[x].out
      BY <1>5, <2>1, Zenon
    <3> QED BY <3>1 DEF IInv, Money
  <2>2. ASSUME NEW x \in SwapIds, NEW y \in SwapIds, swaps'[x] # None, swaps'[y] # None, x # y
        PROVE  /\ swaps'[x].out # None => swaps'[x].out # swaps'[y].out
               /\ swaps'[x].state = "taken" /\ swaps'[y].state = "taken" =>
                    \A t \in swaps'[x].in : t \notin swaps'[y].in
    <3>1. /\ swaps[x] # None /\ swaps'[x].in = swaps[x].in
          /\ swaps'[x].state = swaps[x].state /\ swaps'[x].out = swaps[x].out
      BY <1>5, <2>2, Zenon
    <3>2. /\ swaps[y] # None /\ swaps'[y].in = swaps[y].in
          /\ swaps'[y].state = swaps[y].state /\ swaps'[y].out = swaps[y].out
      BY <1>5, <2>2, Zenon
    <3>3. /\ swaps[x].out # None => swaps[x].out # swaps[y].out
          /\ swaps[x].state = "taken" /\ swaps[y].state = "taken" =>
               \A t \in swaps[x].in : t \notin swaps[y].in
      BY <2>2, <3>1, <3>2, Zenon DEF IInv, Money
    <3> QED BY <3>1, <3>2, <3>3, Zenon
  <2>3. \A t \in Tokens : mint[t] # None => Sound(mint[t].lock)
    BY Zenon DEF IInv, Money
  <2>4. setup' = setup /\ mint' = mint
    BY <1>1, Zenon
  <2>5. (\A t \in Tokens : mint[t] # None => Sound(mint[t].lock))'
    BY <2>3, <2>4, Zenon DEF Sound
  <2>6. (\A x \in SwapIds : swaps[x] # None =>
           /\ Sound(swaps[x].lock)
           /\ \A t \in swaps[x].in : mint[t] # None
           /\ swaps[x].state = "taken" => \A t \in swaps[x].in : mint[t].state = "pending"
           /\ swaps[x].state = "done" => \A t \in swaps[x].in : mint[t].state = "spent"
           /\ swaps[x].state = "done" <=> swaps[x].out # None
           /\ swaps[x].out # None =>
                mint[swaps[x].out] # None /\ mint[swaps[x].out].lock = swaps[x].lock)'
    BY <2>1, <2>4, SMTT(30) DEF Sound
  <2> QED BY <2>2, <2>5, <2>6, Zenon DEF Money
<1>11. Waiting'
  <2>1. ASSUME NEW d \in Slots, calls'[d] # None
        PROVE  LET k == calls'[d] IN
                 /\ swaps'[k.swap] # None /\ swaps'[k.swap].told = None
                 /\ k.op # "redeem" => k.at = "swap"
                 /\ k.op = "redeem" => swaps'[k.swap].in = {k.ref}
                 /\ k.op = "split" => swaps'[k.swap].lock.to \in Providers
                 /\ k.op = "fee" => /\ swaps'[k.swap].lock.to = "oracle"
                                    /\ k.ref \in Tokens /\ mint[k.ref] # None
                                    /\ mint[k.ref].lock.to \in Providers
    <3>1. calls'[d] = calls[d] /\ calls[d] # None /\ swaps'[calls[d].swap] = swaps[calls[d].swap]
      BY <1>7, <2>1, Zenon
    <3> QED BY <3>1, WaitingFacts
  <2>2. ASSUME NEW d \in Slots, NEW e \in Slots, calls'[d] # None, calls'[e] # None,
               calls'[d].swap = calls'[e].swap
        PROVE  d = e
    <3>1. /\ calls[d] # None /\ calls[e] # None /\ calls[d].swap = calls[e].swap
      BY <1>7, <2>2, Zenon
    <3> QED BY <3>1, WaitingFacts, Zenon
  <2> QED BY <1>1, <2>1, <2>2, ZenonT(30) DEF Waiting
<1>12. \A d \in Slots : Naming(d)' => Naming(d) /\ calls'[d] = calls[d]
                                      /\ swaps'[calls[d].swap] = swaps[calls[d].swap]
  BY <1>7, Zenon DEF Naming
<1>13. References'
  <2>1. ASSUME NEW d \in Slots, Naming(d)'
        PROVE  LET k == calls'[d]  swap == swaps'[k.swap] IN
                 /\ MadeFor(swap.lock, k.for) /\ (k.op = "hold" => k.for = None /\ k.ref = 0)
                 /\ \A r \in SwapIds : refs[r] # None /\ refs[r].token \in swap.in => r = k.ref
                 /\ \A r \in SwapIds : refs[r] # None => refs[r].token # swap.out
                 /\ \A x \in SwapIds : swaps'[x] # None => swap.out \notin swaps'[x].in
    <3>1. Naming(d) /\ calls'[d] = calls[d] /\ swaps'[calls[d].swap] = swaps[calls[d].swap]
      BY <1>12, <2>1, Zenon
    <3>2. \A x \in SwapIds : swaps'[x] # None => swaps[x] # None /\ swaps'[x].in = swaps[x].in
      BY <1>5, Zenon
    <3> QED BY <3>1, <3>2, NamingFacts
  <2>2. ReferencesAreDistinct'
    <3>1. ReferencesAreDistinct
      BY Zenon DEF IInv, References
    <3> QED BY <1>1, <1>5, <3>1 DEF ReferencesAreDistinct
  <2> QED BY <1>1, <2>1, <2>2, ReferencesKept, SMTT(30)
<1>14. Begins'
  <2>1. Begins
    BY Zenon DEF IInv
  <2>2. \A x \in SwapIds : swaps'[x] # None => swaps[x] # None /\ swaps'[x].out = swaps[x].out
    BY <1>5, Zenon
  <2>3. \A d \in Slots : calls'[d] # None => calls[d] # None /\ calls'[d] = calls[d]
    BY <1>7, Zenon
  <2>4. \A d \in Slots : Naming(d)' => Naming(d)
    BY <1>12, Zenon
  <2> QED BY <1>1, <2>1, <2>2, <2>3, <2>4, Zenon DEF Begins
<1>15. LossIsReported'
  <2> SUFFICES ASSUME NEW x \in SwapIds, swaps'[x] # None, swaps'[x].told # None, swaps'[x].state = "done"
               PROVE  \/ swaps'[x].told = "ok" /\ swaps'[x].out \in held'
                      \/ swaps'[x].told \in Uncertain
                      \/ swaps'[x].told = "mint_error" /\ ~setup.checks
                      \/ swaps'[x].late
    BY <1>1, Zenon DEF LossIsReported
  <2>1. CASE x = w
    <3>1. Answered(c)
      BY <1>2, <1>5, <2>1, Zenon DEF Answered
    <3> QED BY <1>3, <1>4, <1>8, <2>1, <3>1, Zenon
  <2>2. CASE x # w
    <3>1. swaps'[x] = swaps[x]
      BY <1>4, <2>2, Zenon
    <3> QED BY <1>8, <3>1, Zenon DEF IInv, LossIsReported
  <2> QED BY <2>1, <2>2, Zenon
<1>16. SplitPaysBoth'
  BY <1>1, Zenon DEF IInv, SplitPaysBoth, Exists
<1> QED BY <1>9, <1>10, <1>11, <1>13, <1>14, <1>15, <1>16, Zenon DEF IInv

\* The steps of a redemption after the swap: each answer either says what became
\* of the swap or that this is not known.
LEMMA RedeemStepsKeep ==
  ASSUME IInv, NEW c \in Slots, RedeemRan(c) \/ RedeemChecked(c) \/ RedeemRestored(c)
  PROVE  IInv'
<1>1. /\ calls[c] # None /\ calls[c].op = "redeem" /\ swaps[calls[c].swap].in = {calls[c].ref}
      /\ UNCHANGED <<setup, mint, refs, named, split>>
  BY Zenon DEF RedeemRan, RedeemChecked, RedeemRestored, Waits, IInv, Waiting
<1>2. calls[c].swap \in SwapIds /\ swaps[calls[c].swap] # None
  BY <1>1, Zenon DEF IInv, TypeOK, Waiting, Call
<1>3. Answered(c) => mint[calls[c].ref].state = "spent"
  BY <1>1, <1>2, Zenon DEF Answered, IInv, Money
<1>4. \/ Go(c, "check") \/ Go(c, "restore")
      \/ Answered(c) /\ Tell(c, "ok")
      \/ ~setup.checks /\ Tell(c, "mint_error")
      \/ ~Answered(c) /\ Tell(c, "inputs_unspent")
      \/ \E reason \in Uncertain : Tell(c, reason)
  <2>1. CASE RedeemRan(c)
    BY <2>1, Zenon DEF RedeemRan
  <2>2. CASE RedeemChecked(c)
    BY <1>3, <2>2, Zenon DEF RedeemChecked, Uncertain
  <2>3. CASE RedeemRestored(c)
    <3>1. CASE Answered(c)
      BY <2>3, <3>1, Zenon DEF RedeemRestored, Uncertain
    <3>2. CASE ~Answered(c)
      BY <2>3, <3>2, Zenon DEF RedeemRestored, Uncertain
    <3> QED BY <3>1, <3>2, Zenon
  <2> QED BY <2>1, <2>2, <2>3, Zenon
<1>5. CASE Go(c, "check") \/ Go(c, "restore")
  BY <1>1, <1>5, GoKeeps, Zenon
<1>6. CASE Answered(c) /\ Tell(c, "ok")
  BY <1>1, <1>6, TellKeeps, Zenon DEF Reasons
<1>7. CASE ~setup.checks /\ Tell(c, "mint_error")
  BY <1>1, <1>7, TellKeeps, Zenon DEF Reasons
<1>8. CASE ~Answered(c) /\ Tell(c, "inputs_unspent")
  BY <1>1, <1>8, TellKeeps, Zenon DEF Reasons
<1>9. CASE \E reason \in Uncertain : Tell(c, reason)
  <2>1. PICK reason \in Uncertain : Tell(c, reason)
    BY <1>9, Zenon
  <2>2. reason \in Reasons /\ reason # "ok"
    BY Zenon DEF Reasons, Uncertain
  <2> QED BY <1>1, <2>1, <2>2, TellKeeps, Zenon
<1> QED BY <1>4, <1>5, <1>6, <1>7, <1>8, <1>9, Zenon

-----------------------------------------------------------------------------
(* The theorems.                                                           *)

LEMMA CreateHoldKeeps ==
  ASSUME IInv, NEW c \in Slots, NEW t \in Tokens, HtlcCreateHold(c, t) \/ FrostCreateHold(c, t)
  PROVE  IInv'
<1>1. /\ Resolves(t) /\ CreateHtlcToken(c, t) /\ named < MaxSwaps /\ UNCHANGED <<setup, mint, held, split>>
  BY Zenon DEF HtlcCreateHold, FrostCreateHold
<1>2. CASE Name(t, None) /\ UNCHANGED <<swaps, calls>>
  BY <1>1, <1>2, HoldNamedKeeps, Zenon
<1>3. CASE Ask(c, NewCall("hold", 0, None), {t}, FALSE, Plain) /\ UNCHANGED <<refs, named>>
  BY <1>1, <1>3, HoldAskKeeps, Zenon
<1> QED BY <1>1, <1>2, <1>3, Zenon DEF CreateHtlcToken

LEMMA RedeemTokenKeeps ==
  ASSUME IInv, NEW c \in Slots, NEW t \in Tokens, RedeemHtlcToken(c, t) \/ RedeemFrostP2PKToken(c, t)
  PROVE  IInv'
BY RedeemKeeps, Zenon DEF RedeemHtlcToken, RedeemFrostP2PKToken, HtlcSpendAuthorised, GroupSigned

LEMMA StepKeeps == IInv /\ [Next]_vars => IInv'
<1> SUFFICES ASSUME IInv, [Next]_vars PROVE IInv'
  BY Zenon
<1>1. CASE \E w \in SwapIds : MintTakes(w) \/ MintFinishes(w)
  BY <1>1, MintTakesKeeps, MintFinishesKeeps, Zenon
<1>2. CASE \E t \in Tokens : Refund(t)
  BY <1>2, RefundKeeps, Zenon
<1>3. ASSUME NEW c \in Slots,
             \/ GiveUp(c) \/ HoldCreated(c) \/ ProviderBound(c) \/ FeePaid(c)
             \/ RedeemRan(c) \/ RedeemChecked(c) \/ RedeemRestored(c)
      PROVE  IInv'
  BY <1>3, GiveUpKeeps, HoldCreatedKeeps, BoundKeeps, FeePaidKeeps, RedeemStepsKeep, Zenon
<1>4. ASSUME NEW c \in Slots, NEW t \in Tokens,
             HtlcCreateHold(c, t) \/ FrostCreateHold(c, t)
               \/ RedeemHtlcToken(c, t) \/ RedeemFrostP2PKToken(c, t)
      PROVE  IInv'
  BY <1>4, CreateHoldKeeps, RedeemTokenKeeps, Zenon
<1>5. ASSUME NEW c \in Slots, NEW r \in SwapIds, NEW p \in Providers,
             HtlcBindProvider(c, r, p) \/ FrostBindProvider(c, r, p)
      PROVE  IInv'
  BY <1>5, HtlcBindKeeps, FrostBindKeeps, Zenon
<1>6. ASSUME NEW c \in Slots, NEW selected \in SUBSET {1, 2},
             PayFee(c, selected) \/ \E p \in Providers : ExecuteEscrowSwap(c, p, selected)
      PROVE  IInv'
  BY <1>6, PayFeeKeeps, SplitKeeps, Zenon
<1>7. CASE \E r \in SwapIds : Cancel(r)
  BY <1>7, CancelKeeps, Zenon
<1>8. CASE UNCHANGED vars
  <2>1. /\ setup' = setup /\ mint' = mint /\ swaps' = swaps /\ refs' = refs /\ named' = named
        /\ calls' = calls /\ held' = held /\ split' = split
    BY <1>8, Zenon DEF vars
  <2>2. TypeOK' /\ SplitPaysBoth'
    BY <2>1, Zenon DEF IInv, TypeOK, SplitPaysBoth, Exists
  <2> QED BY <2>1, <2>2, AnswerKeeps, Zenon
<1> QED BY <1>1, <1>2, <1>3, <1>4, <1>5, <1>6, <1>7, <1>8, Zenon DEF Next

LEMMA Inductive == Spec => []IInv
<1>1. Init => IInv
  BY InitInv, Zenon
<1>2. IInv /\ [Next]_vars => IInv'
  BY StepKeeps, Zenon
<1> QED BY <1>1, <1>2, PTL DEF Spec

\* The types of the mint's, the providers' and the calls' state.
THEOREM EscrowTyped == Spec => []TypeOK
<1>1. IInv => TypeOK
  BY Zenon DEF IInv
<1> QED BY <1>1, Inductive, PTL

\* buildFrostP2PKOptions: every lock ever made for the FROST provider can be
\* refunded at the time asked for.
THEOREM RefundSafe == Spec => []FrostLocksAreRefundable
<1>1. IInv => FrostLocksAreRefundable
  BY Zenon DEF IInv, Money, Sound, FrostLocksAreRefundable, Exists
<1> QED BY <1>1, Inductive, PTL

\* verifyLock accepts a reference for the provider it was bound to, and for no
\* other.
THEOREM LockCheckExact == Spec => []LockCheckIsExact
<1>1. IInv => LockCheckIsExact
  <2> SUFFICES ASSUME IInv, NEW r \in SwapIds, NEW p \in Providers
               PROVE  /\ VerifyLock(r, p) => refs[r].for = p
                      /\ setup.kind = "frost" /\ refs[r] # None /\ refs[r].for = p => VerifyLock(r, p)
    BY Zenon DEF LockCheckIsExact
  <2>1. refs[r] # None =>
          mint[refs[r].token] # None /\ MadeFor(mint[refs[r].token].lock, refs[r].for)
    BY Zenon DEF IInv, References
  <2>2. p # None /\ ~Plain.hash /\ ~Plain.group
    BY EscrowAssumption, Zenon DEF Plain
  <2> QED BY <2>1, <2>2, Zenon DEF VerifyLock, HtlcVerifyLock, FrostVerifyLock, MadeFor
<1> QED BY <1>1, Inductive, PTL

\* bindProvider: two references never stand for the same money.
THEOREM ReferencesSafe == Spec => []ReferencesAreDistinct
<1>1. IInv => ReferencesAreDistinct
  BY Zenon DEF IInv, References
<1> QED BY <1>1, Inductive, PTL

\* redeemSignedProofs: a loss is reported as such.
THEOREM LossSafe == Spec => []LossIsReported
<1>1. IInv => LossIsReported
  BY Zenon DEF IInv
<1> QED BY <1>1, Inductive, PTL

\* executeEscrowSwap: what is returned pays the provider and the Oracle.
THEOREM SplitSafe == Spec => []SplitPaysBoth
<1>1. IInv => SplitPaysBoth
  BY Zenon DEF IInv
<1> QED BY <1>1, Inductive, PTL
=============================================================================
