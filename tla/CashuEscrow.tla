---------------------------- MODULE CashuEscrow -----------------------------
(***************************************************************************)
(* Escrow at a Cashu mint: the two escrow providers                        *)
(* (cashu-escrow-provider.ts, frost-escrow-provider.ts), the swaps they    *)
(* make (cashu-escrow.ts, cashu-escrow-helpers.ts), and the redemption of  *)
(* a bound token with its recovery after an interrupted swap               *)
(* (redeem-swap.ts).  A mint call may be refused, answered, or fail for    *)
(* the wallet while the mint carries it out, even after the wallet gave up.*)
(***************************************************************************)
EXTENDS Naturals, FiniteSets

CONSTANTS
  Providers,
  Slots,       \* calls under way at once (a bound)
  MaxTokens,   \* tokens the mint makes (a bound)
  MaxSwaps,    \* swaps asked for (a bound)
  Setups,      \* see Setup
  None

VARIABLES
  setup,
  mint,     \* the mint: state and lock of every token
  swaps,    \* swap requests, in the order they were sent
  refs,     \* tokenMap of the escrow provider
  named,    \* its refCounter
  calls,    \* calls suspended at a mint request
  held,     \* tokens whose proofs a redeemer has received
  split     \* what executeEscrowSwap returned

vars == <<setup, mint, swaps, refs, named, calls, held, split>>

\* kind: which escrow provider; begins: what the mint has at first, a customer's
\* proofs, a token bound to a provider, or the two proofs of a 2-of-2 escrow;
\* refund: was createHold given a customer key?; checks, registers: can the
\* redeemer's wallet ask for proof states, and does it choose its own outputs?
Setup == [kind : {"htlc", "frost"}, begins : {"proofs", "bound", "escrow"},
          refund : BOOLEAN, checks : BOOLEAN, registers : BOOLEAN]

Tokens == 1..MaxTokens
SwapIds == 1..MaxSwaps

\* to: whose signature a proof needs; hash, group: also a preimage, the FROST
\* group; refund: can the customer take it back?; asked: at the time asked for?
Lock == [to : Providers \union {"oracle", None}, hash : BOOLEAN, group : BOOLEAN,
         refund : BOOLEAN, asked : BOOLEAN]
Plain == [to |-> None, hash |-> FALSE, group |-> FALSE, refund |-> FALSE, asked |-> FALSE]
LockedTo(p) == [Plain EXCEPT !.to = p]

Coin == [state : {"unspent", "pending", "spent"}, lock : Lock]

\* What redeemSignedProofs reports, and which of it the caller must not retry
\* blindly.
Reasons == {"ok", "mint_error", "state_unknown", "inputs_unspent", "outputs_not_registered",
            "restore_failed", "restore_empty"}
Uncertain == {"state_unknown", "outputs_not_registered", "restore_failed", "restore_empty"}

\* executeEscrowSwap returned null.
Null == [provider |-> None, oracle |-> None]

\* signed: do the inputs carry the signatures their locks ask for?
\* told: what the redeemer was told of this swap; late: was it carried out after
\* the wallet had given up on it?
Swap == [in : SUBSET Tokens, signed : BOOLEAN, lock : Lock, state : {"sent", "taken", "done", "refused"},
         out : Tokens \union {None}, told : Reasons \union {None}, late : BOOLEAN]

\* for: the provider bindProvider was called with (None: a hold).
Entry == [token : Tokens, refund : BOOLEAN, for : Providers \union {None}]

\* ref, for: the arguments; fee: tokens still to be used by executeEscrowSwap.
Call == [op : {"hold", "bind", "redeem", "split", "fee"}, at : {"swap", "check", "restore"},
         ref : Nat, for : Providers \union {None}, swap : SwapIds]

ASSUME EscrowAssumption ==
  /\ IsFiniteSet(Providers) /\ Providers # {}
  /\ "oracle" \notin Providers
  /\ MaxTokens \in Nat \ {0, 1} /\ MaxSwaps \in Nat /\ Setups \subseteq Setup
  /\ None \notin Providers \union Nat \union Coin \union Swap

TypeOK ==
  /\ setup \in Setups
  /\ mint \in [Tokens -> Coin \union {None}]
  /\ swaps \in [SwapIds -> Swap \union {None}]
  /\ refs \in [SwapIds -> Entry \union {None}] /\ named \in 0..MaxSwaps
  /\ calls \in [Slots -> Call \union {None}]
  /\ held \subseteq Tokens
  /\ split \in {None, Null} \union [provider : Tokens, oracle : Tokens]

Unspent(lock) == [state |-> "unspent", lock |-> lock]

\* A token the customer's own client bound as asked.
Bound(p) == [LockedTo(p) EXCEPT !.hash = setup.kind = "htlc", !.group = setup.kind = "frost",
                                !.refund = TRUE, !.asked = TRUE]

\* createEscrowToken: the Oracle and the provider sign, the customer refunds.
TwoOfTwo(p) == [LockedTo(p) EXCEPT !.refund = TRUE, !.asked = TRUE]

Init ==
  /\ setup \in Setups
  /\ \E p \in Providers :
       mint = [t \in Tokens |->
                 CASE setup.begins = "proofs" /\ t \in {1, 2} -> Unspent(Plain)
                   [] setup.begins = "bound" /\ t = 1 -> Unspent(Bound(p))
                   [] setup.begins = "escrow" /\ t \in {1, 2} -> Unspent(TwoOfTwo(p))
                   [] OTHER -> None]
  /\ swaps = [w \in SwapIds |-> None] /\ refs = [r \in SwapIds |-> None] /\ named = 0
  /\ calls = [c \in Slots |-> None] /\ held = {} /\ split = None

-----------------------------------------------------------------------------
(* The mint, and a wallet's requests to it.                                *)

Free(f, S) == {x \in S : f[x] = None}
First(S) == CHOOSE x \in S : \A y \in S : x <= y

\* A swap is asked for: loadAndSend, or chain.run() of redeemSignedProofs.
Ask(c, call, in, signed, lock) ==
  /\ Free(swaps, SwapIds) # {}
  /\ LET w == First(Free(swaps, SwapIds)) IN
       /\ swaps' = [swaps EXCEPT ![w] = [in |-> in, signed |-> signed, lock |-> lock,
                                         state |-> "sent", out |-> None, told |-> None,
                                         late |-> FALSE]]
       /\ calls' = [calls EXCEPT ![c] = [call EXCEPT !.swap = w]]

NewCall(op, r, p) == [op |-> op, at |-> "swap", ref |-> r, for |-> p, swap |-> 1]

\* The mint takes a request up, or refuses it: an input is not unspent, or is
\* locked and not signed for.
MintTakes(w) ==
  /\ swaps[w] # None /\ swaps[w].state = "sent"
  /\ IF \A t \in swaps[w].in :
          mint[t].state = "unspent" /\ (mint[t].lock # Plain => swaps[w].signed)
     THEN /\ mint' = [t \in Tokens |-> IF t \in swaps[w].in
                                       THEN [mint[t] EXCEPT !.state = "pending"] ELSE mint[t]]
          /\ swaps' = [swaps EXCEPT ![w].state = "taken"]
     ELSE swaps' = [swaps EXCEPT ![w].state = "refused"] /\ UNCHANGED mint
  /\ UNCHANGED <<setup, refs, named, calls, held, split>>

Awaited(w) == \E c \in Slots : calls[c] # None /\ calls[c].swap = w

\* It carries the swap out, or gives its inputs back.
MintFinishes(w) ==
  /\ swaps[w] # None /\ swaps[w].state = "taken"
  /\ LET after(state) == [t \in Tokens |-> IF t \in swaps[w].in
                                           THEN [mint[t] EXCEPT !.state = state] ELSE mint[t]]
     IN \/ /\ Free(mint, Tokens) # {}
           /\ LET t == First(Free(mint, Tokens)) IN
                /\ mint' = [after("spent") EXCEPT ![t] = Unspent(swaps[w].lock)]
                /\ swaps' = [swaps EXCEPT ![w].state = "done", ![w].out = t,
                                          ![w].late = ~Awaited(w)]
        \/ mint' = after("unspent") /\ swaps' = [swaps EXCEPT ![w].state = "refused"]
  /\ UNCHANGED <<setup, refs, named, calls, held, split>>

\* After the locktime the customer takes a refundable token back.
Refund(t) ==
  /\ mint[t] # None /\ mint[t].state = "unspent" /\ mint[t].lock.refund
  /\ mint' = [mint EXCEPT ![t].state = "spent"]
  /\ UNCHANGED <<setup, swaps, refs, named, calls, held, split>>

Return(c) == calls' = [calls EXCEPT ![c] = None]

Waits(c, op) == calls[c] # None /\ calls[c].op = op /\ calls[c].at = "swap"

\* The answer to the swap a call waits for: its output.
Answered(c) == swaps[calls[c].swap].state = "done"
Output(c) == swaps[calls[c].swap].out

\* loadAndSend rejects: the mint refused, the connection failed, or 30 seconds
\* passed; the request itself is not taken back.
GiveUp(c) ==
  /\ \E op \in {"hold", "bind", "split", "fee"} : Waits(c, op)
  /\ Return(c)
  /\ split' = IF calls[c].op \in {"split", "fee"} THEN Null ELSE split
  /\ UNCHANGED <<setup, mint, swaps, refs, named, held>>

-----------------------------------------------------------------------------
(* The escrow providers.                                                   *)

Name(token, p) ==
  /\ named' = named + 1
  /\ refs' = [refs EXCEPT ![named + 1] = [token |-> token, refund |-> setup.refund, for |-> p]]

\* createHtlcToken, and loadAndSend without a lock: the wallet hands its proofs
\* out as they are, or swaps them for plain ones.
CreateHtlcToken(c, t) ==
  \/ Name(t, None) /\ UNCHANGED <<swaps, calls>>
  \/ Ask(c, NewCall("hold", 0, None), {t}, FALSE, Plain) /\ UNCHANGED <<refs, named>>

\* sourceProofsResolver: it finds proofs no other hold uses; which of two equal
\* ones makes no difference.
Unused == {t \in {1, 2} : /\ \A w \in SwapIds : swaps[w] # None => t \notin swaps[w].in
                          /\ \A r \in SwapIds : refs[r] # None => refs[r].token # t}
Resolves(t) == setup.begins = "proofs" /\ Unused # {} /\ t = First(Unused)

\* createHold of either provider: only the FROST one keeps the refund key and
\* the locktime it was given.
HtlcCreateHold(c, t) ==
  /\ setup.kind = "htlc" /\ calls[c] = None /\ named < MaxSwaps
  /\ Resolves(t) /\ CreateHtlcToken(c, t)
  /\ UNCHANGED <<setup, mint, held, split>>

FrostCreateHold(c, t) ==
  /\ setup.kind = "frost" /\ calls[c] = None /\ named < MaxSwaps
  /\ Resolves(t) /\ CreateHtlcToken(c, t)
  /\ UNCHANGED <<setup, mint, held, split>>

HoldCreated(c) ==
  /\ Waits(c, "hold") /\ Answered(c) /\ named < MaxSwaps
  /\ Name(Output(c), None)
  /\ Return(c)
  /\ UNCHANGED <<setup, mint, swaps, held, split>>

\* What buildHtlcFinalOptions gets from the HTLC provider, which reads hash,
\* refund key and locktime from the secret of the entry's first proof: a held
\* proof is plain, so no hash, no refund key, and an hour from now.
HtlcBindLock(entry, p) ==
  IF entry.for = None THEN LockedTo(p) ELSE [mint[entry.token].lock EXCEPT !.to = p]

\* swapHtlcBindProvider: cashu-ts may refuse to build such a lock, and the fee
\* may exceed the proofs' amount: then nothing is asked of the mint.
SwapHtlcBindProvider(c, r, p) ==
  Ask(c, NewCall("bind", r, p), {refs[r].token}, FALSE, HtlcBindLock(refs[r], p))

\* bindProvider of the HTLC provider up to the mint's answer; the entry is read
\* only here.
HtlcBindProvider(c, r, p) ==
  /\ setup.kind = "htlc" /\ calls[c] = None /\ refs[r] # None
  /\ SwapHtlcBindProvider(c, r, p)
  /\ UNCHANGED <<setup, mint, refs, named, held, split>>

\* Mutant of BuildFrostP2PKOptions: a lock is built without a refund key.
BuildFrostP2PKOptionsAny(entry, p) ==
  {[LockedTo(p) EXCEPT !.group = TRUE, !.refund = entry.refund, !.asked = TRUE]}

\* buildFrostP2PKOptions, with the terms the hold was created with; none without
\* a refund key.
BuildFrostP2PKOptions(entry, p) ==
  {lock \in {[LockedTo(p) EXCEPT !.group = TRUE, !.refund = TRUE, !.asked = TRUE]} : entry.refund}

\* bindProvider of the FROST provider up to the mint's answer.
FrostBindProvider(c, r, p) ==
  /\ setup.kind = "frost" /\ calls[c] = None /\ refs[r] # None
  /\ \E lock \in BuildFrostP2PKOptions(refs[r], p) :
       Ask(c, NewCall("bind", r, p), {refs[r].token}, FALSE, lock)
  /\ UNCHANGED <<setup, mint, refs, named, held, split>>

\* Mutant of ProviderBound: the reference of the hold stays.
ProviderBoundKeeps(c) ==
  /\ Waits(c, "bind") /\ Answered(c) /\ named < MaxSwaps
  /\ Name(Output(c), calls[c].for)
  /\ Return(c)
  /\ UNCHANGED <<setup, mint, swaps, held, split>>

\* The new token gets a reference, the old reference goes.
ProviderBound(c) ==
  /\ Waits(c, "bind") /\ Answered(c) /\ named < MaxSwaps
  /\ named' = named + 1
  /\ refs' = [refs EXCEPT ![named + 1] = [token |-> Output(c), refund |-> setup.refund,
                                          for |-> calls[c].for],
                          ![calls[c].ref] = None]
  /\ Return(c)
  /\ UNCHANGED <<setup, mint, swaps, held, split>>

\* verifyLock of the HTLC provider: every proof is an HTLC under the query's
\* hash that lists the provider's key.
HtlcVerifyLock(lock, p) == lock.hash /\ lock.to = p

\* Mutant of FrostVerifyLock: the provider's key is not looked for.
FrostVerifyLockAny(lock, p) == lock.group

\* verifyLock of the FROST provider: two signatures, of the provider and the
\* group.
FrostVerifyLock(lock, p) == lock.group /\ lock.to = p

\* verifyLock(ref, hash of the query, p).
VerifyLock(r, p) ==
  /\ refs[r] # None
  /\ LET lock == mint[refs[r].token].lock IN
       IF setup.kind = "frost" THEN FrostVerifyLock(lock, p) ELSE HtlcVerifyLock(lock, p)

\* cancel
Cancel(r) ==
  /\ refs[r] # None
  /\ refs' = [refs EXCEPT ![r] = None]
  /\ UNCHANGED <<setup, mint, swaps, named, calls, held, split>>

-----------------------------------------------------------------------------
(* executeEscrowSwap: the escrow's proofs are tokens 1 and 2, the second   *)
(* worth the Oracle's fee.                                                 *)

\* The provider's part; the wallet selects proofs worth it, or all of them and
\* keeps the change.
ExecuteEscrowSwap(c, p, selected) ==
  /\ setup.begins = "escrow" /\ calls[c] = None /\ split = None
  /\ \A d \in Slots : calls[d] = None
  /\ 1 \in selected /\ selected \subseteq {1, 2}
  /\ Ask(c, NewCall("split", 0, p), selected, TRUE, LockedTo(p))
  /\ UNCHANGED <<setup, mint, refs, named, held, split>>

\* The fee is taken from the proofs not returned: all of the old ones.
PayFee(c, selected) ==
  /\ Waits(c, "split") /\ Answered(c)
  /\ selected \subseteq {1, 2} /\ selected # {}
  /\ Ask(c, NewCall("fee", Output(c), None), selected, TRUE, LockedTo("oracle"))
  /\ UNCHANGED <<setup, mint, refs, named, held, split>>

\* Mutant of FeePaid: it does not wait for the second answer.
FeePaidEarly(c) ==
  /\ Waits(c, "fee")
  /\ split' = [provider |-> calls[c].ref, oracle |-> calls[c].ref]
  /\ Return(c)
  /\ UNCHANGED <<setup, mint, swaps, refs, named, held>>

FeePaid(c) ==
  /\ Waits(c, "fee") /\ Answered(c)
  /\ split' = [provider |-> calls[c].ref, oracle |-> Output(c)]
  /\ Return(c)
  /\ UNCHANGED <<setup, mint, swaps, refs, named, held>>

-----------------------------------------------------------------------------
(* Redemption.                                                             *)

Known == {1} \union {refs[r].token : r \in {r \in SwapIds : refs[r] # None}}

\* redeemSignedProofs up to chain.run(); it also ends here when the fee exceeds
\* the amount.
RedeemSignedProofs(c, t) ==
  /\ calls[c] = None
  /\ Ask(c, NewCall("redeem", t, mint[t].lock.to), {t}, TRUE, Plain)
  /\ UNCHANGED <<setup, mint, refs, named, held, split>>

\* prepareHtlcWitness, verifyHtlcSpendAuth: the preimage and the provider's
\* signature satisfy the lock.
HtlcSpendAuthorised(lock) == lock.to \in Providers /\ lock.hash

RedeemHtlcToken(c, t) ==
  /\ t \in Known /\ mint[t] # None /\ HtlcSpendAuthorised(mint[t].lock)
  /\ RedeemSignedProofs(c, t)

\* appendFrostP2PKGroupSignatures: the group signs only what is locked to it.
GroupSigned(lock) == lock.to \in Providers /\ lock.group

RedeemFrostP2PKToken(c, t) ==
  /\ t \in Known /\ mint[t] # None /\ GroupSigned(mint[t].lock)
  /\ RedeemSignedProofs(c, t)

\* What the caller learns: proofs, null, or an error that says not to retry.
Tell(c, reason) ==
  /\ Return(c)
  /\ swaps' = [swaps EXCEPT ![calls[c].swap].told = reason]
  /\ held' = IF reason = "ok" THEN held \union {Output(c)} ELSE held

Go(c, await) ==
  calls' = [calls EXCEPT ![c].at = await] /\ UNCHANGED <<swaps, held>>

\* chain.run() resolves, or rejects for whatever reason.
RedeemRan(c) ==
  /\ Waits(c, "redeem")
  /\ \/ Answered(c) /\ Tell(c, "ok")
     \/ IF setup.checks THEN Go(c, "check") ELSE Tell(c, "mint_error")
  /\ UNCHANGED <<setup, mint, refs, named, split>>

\* Mutant of RedeemChecked: spent inputs count only with registered outputs.
RedeemCheckedKnown(c) ==
  /\ calls[c] # None /\ calls[c].at = "check"
  /\ \/ Tell(c, "state_unknown")
     \/ IF mint[calls[c].ref].state = "spent" /\ setup.registers
        THEN Go(c, "restore") ELSE Tell(c, "inputs_unspent")
  /\ UNCHANGED <<setup, mint, refs, named, split>>

\* checkProofsStates: only SPENT counts, PENDING does not.
RedeemChecked(c) ==
  /\ calls[c] # None /\ calls[c].at = "check"
  /\ \/ Tell(c, "state_unknown")
     \/ IF mint[calls[c].ref].state # "spent" THEN Tell(c, "inputs_unspent")
        ELSE IF setup.registers THEN Go(c, "restore")
        ELSE Tell(c, "outputs_not_registered")
  /\ UNCHANGED <<setup, mint, refs, named, split>>

\* restore: the mint knows the outputs only if it carried this swap out.
RedeemRestored(c) ==
  /\ calls[c] # None /\ calls[c].at = "restore"
  /\ \/ Tell(c, "restore_failed")
     \/ Tell(c, IF Answered(c) THEN "ok" ELSE "restore_empty")
  /\ UNCHANGED <<setup, mint, refs, named, split>>

-----------------------------------------------------------------------------

Next ==
  \/ \E w \in SwapIds : MintTakes(w) \/ MintFinishes(w)
  \/ \E t \in Tokens : Refund(t)
  \/ \E c \in Slots :
       \/ GiveUp(c) \/ HoldCreated(c) \/ ProviderBound(c) \/ FeePaid(c)
       \/ RedeemRan(c) \/ RedeemChecked(c) \/ RedeemRestored(c)
       \/ \E t \in Tokens : HtlcCreateHold(c, t) \/ FrostCreateHold(c, t)
       \/ \E r \in SwapIds, p \in Providers : HtlcBindProvider(c, r, p) \/ FrostBindProvider(c, r, p)
       \/ \E p \in Providers, selected \in SUBSET {1, 2} : ExecuteEscrowSwap(c, p, selected)
       \/ \E selected \in SUBSET {1, 2} : PayFee(c, selected)
       \/ \E t \in Tokens : RedeemHtlcToken(c, t) \/ RedeemFrostP2PKToken(c, t)
  \/ \E r \in SwapIds : Cancel(r)

Spec == Init /\ [][Next]_vars

-----------------------------------------------------------------------------
(* Properties.                                                             *)

Exists(t) == mint[t] # None

\* buildFrostP2PKOptions, bindProvider of frost-escrow-provider.ts: "without a
\* refund key, funds are stranded forever": every lock the mint ever makes for
\* the FROST provider can be refunded at the time asked for, those included
\* whose swap was answered to nobody.
FrostLocksAreRefundable ==
  setup.kind = "frost" =>
    \A t \in Tokens : Exists(t) /\ mint[t].lock.group =>
      mint[t].lock.refund /\ mint[t].lock.asked

\* verifyLock accepts a reference for the provider it was bound to and for no
\* other, and never one that was only held, whatever binds and cancels overlap.
\* (The HTLC provider's own binds never pass: their hash is lost.)
LockCheckIsExact ==
  \A r \in SwapIds, p \in Providers :
    /\ VerifyLock(r, p) => refs[r].for = p
    /\ setup.kind = "frost" /\ refs[r] # None /\ refs[r].for = p => VerifyLock(r, p)

\* bindProvider (tokenMap.set, tokenMap.delete): two references never stand for
\* the same money: none names a token that was swapped for one another names,
\* whichever binds of a reference overlap or lose their answers.
ReferencesAreDistinct ==
  \A r, k \in SwapIds, w \in SwapIds :
    refs[r] # None /\ refs[k] # None /\ swaps[w] # None /\ swaps[w].out = refs[k].token
      => refs[r].token \notin swaps[w].in

\* redeemSignedProofs, recoverInterruptedRedeem: a provider whose swap went
\* through but who got no proofs is told so ("uncertain"), unless the wallet has
\* no way to ask or the swap was carried out after the answer was given.
LossIsReported ==
  \A w \in SwapIds :
    swaps[w] # None /\ swaps[w].told # None /\ swaps[w].state = "done"
      => \/ swaps[w].told = "ok" /\ swaps[w].out \in held
         \/ swaps[w].told \in Uncertain
         \/ swaps[w].told = "mint_error" /\ ~setup.checks
         \/ swaps[w].late

\* executeEscrowSwap: a result that is returned has a token for the provider and
\* another one for the Oracle, each locked to its owner.
SplitPaysBoth ==
  split \notin {None, Null} =>
    /\ Exists(split.provider) /\ mint[split.provider].lock.to \in Providers
    /\ Exists(split.oracle) /\ mint[split.oracle].lock.to = "oracle"
=============================================================================
