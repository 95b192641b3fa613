---------------------------- MODULE CreditLedger ----------------------------
(***************************************************************************)
(* The offline compute-credit ledger (interop/src/credits.rs) and the HTLC *)
(* escrows it keeps (interop/src/htlc.rs).                                 *)
(*                                                                         *)
(* A CreditLedger is a map from account names to free u64 balances and a   *)
(* map from escrow ids to HTLCs.  Opening an escrow moves credits from the *)
(* sender's free balance into the escrow; claiming it with the preimage of *)
(* its payment hash moves them to the receiver; refunding it at or after   *)
(* its timeout height, or cancelling it once its VDF has run, moves them   *)
(* back to the sender.                                                     *)
(*                                                                         *)
(* A call that returns an error before it has changed anything is a        *)
(* stuttering step and has no action here.  The one error that does change *)
(* the state is modelled: the three settling calls settle the HTLC first   *)
(* and credit the beneficiary second, and the credit may overflow.         *)
(*                                                                         *)
(* The height given to refund_escrow is an argument of the call, not a     *)
(* clock of the ledger: the model takes it from Heights in any order.      *)
(***************************************************************************)
EXTENDS Integers, FiniteSetsExt

CONSTANTS
    Accounts,     \* account names
    EscrowIds,    \* 32-byte escrow ids
    Preimages,    \* byte strings a claimer may present
    NoPreimage,   \* claimed_preimage of an HTLC that was never claimed
    Digests,      \* 32-byte payment hashes
    ZeroDigest,   \* the all-zero digest, refused by fund
    HashOf,       \* SHA-256, as a function from Preimages to Digests
    Amounts,      \* amounts that calls name
    MaxU64,       \* the largest value of a balance (2^64 - 1 in the code)
    Heights,      \* block heights that calls name
    MaxVdfSteps,  \* the largest VDF delay that a call names
    MintCap       \* bound of the model on the credits ever minted

ASSUME LedgerAssumption ==
    /\ IsFiniteSet(Accounts) /\ IsFiniteSet(EscrowIds)
    /\ MaxU64 \in Nat
    /\ Amounts \subseteq 0 .. MaxU64
    /\ Heights \subseteq Nat
    /\ MaxVdfSteps \in Nat
    /\ MintCap \in Nat
    /\ NoPreimage \notin Preimages
    /\ ZeroDigest \in Digests
    /\ HashOf \in [Preimages -> Digests]

VARIABLES
    accounts,     \* names that have an entry in the account map
    free,         \* free balance of each account (0 when it has no entry)
    escrows,      \* the escrow map: a function on the ids opened so far
    minted,       \* history: credits minted so far
    payouts,      \* history: how often each escrow's amount was credited
    lost          \* history: escrows settled by a call that then overflowed

ledgerVars == <<accounts, free, escrows>>
historyVars == <<minted, payouts, lost>>
vars == <<accounts, free, escrows, minted, payouts, lost>>

Balances == 0 .. MaxU64

HtlcState == {"Funded", "Claimed", "Refunded", "VdfCancelled"}

Htlc == [sender           : Accounts,
         receiver         : Accounts,
         amount           : Balances \ {0},
         payment_hash     : Digests \ {ZeroDigest},
         timeout_height   : Heights,
         state            : HtlcState,
         claimed_preimage : Preimages \cup {NoPreimage},
         steps_required   : 0 .. MaxVdfSteps,
         steps_completed  : 0 .. MaxVdfSteps]

Opened == DOMAIN escrows

IsOpen(id) == id \in Opened /\ escrows[id].state = "Funded"

Settled(id) == id \in Opened /\ escrows[id].state # "Funded"

VdfComplete(h) == h.steps_completed >= h.steps_required

Init ==
    /\ accounts = {}
    /\ free = [a \in Accounts |-> 0]
    /\ escrows = [id \in {} |-> {}]
    /\ minted = 0
    /\ payouts = [id \in EscrowIds |-> 0]
    /\ lost = {}

-----------------------------------------------------------------------------
\* mint: a checked addition; on overflow the call fails and changes nothing.
Mint(a, n) ==
    /\ minted + n <= MintCap
    /\ free[a] + n <= MaxU64
    /\ accounts' = accounts \cup {a}
    /\ free' = [free EXCEPT ![a] = @ + n]
    /\ minted' = minted + n
    /\ UNCHANGED <<escrows, payouts, lost>>

\* Htlc::fund: the new HTLC, funded, its VDF not started.
Fund(s, r, n, h, t, v) ==
    [sender |-> s, receiver |-> r, amount |-> n, payment_hash |-> h,
     timeout_height |-> t, state |-> "Funded",
     claimed_preimage |-> NoPreimage,
     steps_required |-> v, steps_completed |-> 0]

\* Htlc::claim, refund and vdf_cancel, and MockVdf::advance, which stops at
\* steps_required; their checks are guards of the actions that call them.
Claim(h, p) == [h EXCEPT !.state = "Claimed", !.claimed_preimage = p]

Refund(h) == [h EXCEPT !.state = "Refunded"]

VdfCancel(h) == [h EXCEPT !.state = "VdfCancelled"]

Advance(h, n) ==
    [h EXCEPT !.steps_completed = IF @ + n < h.steps_required THEN @ + n
                                                              ELSE h.steps_required]

OpenEscrow_Bug(id, s, r, n, h, t, v) ==  \* the id may be in use
    /\ s \in accounts
    /\ free[s] >= n
    /\ n # 0
    /\ h # ZeroDigest
    /\ free' = [free EXCEPT ![s] = @ - n]
    /\ escrows' = [j \in Opened \cup {id} |->
                      IF j = id THEN Fund(s, r, n, h, t, v) ELSE escrows[j]]
    /\ UNCHANGED <<accounts, historyVars>>

\* open_escrow, with the checks of Htlc::fund.
OpenEscrow(id, s, r, n, h, t, v) ==
    /\ id \notin Opened
    /\ s \in accounts
    /\ free[s] >= n
    /\ n # 0
    /\ h # ZeroDigest
    /\ free' = [free EXCEPT ![s] = @ - n]
    /\ escrows' = [j \in Opened \cup {id} |->
                      IF j = id THEN Fund(s, r, n, h, t, v) ELSE escrows[j]]
    /\ UNCHANGED <<accounts, historyVars>>

\* credit_free, called after the HTLC of escrow id has been settled: the
\* account gets an entry either way, and the amount when it does not overflow.
CreditFree(id, a) ==
    LET n == escrows[id].amount IN
    /\ accounts' = accounts \cup {a}
    /\ \/ /\ free[a] + n <= MaxU64
          /\ free' = [free EXCEPT ![a] = @ + n]
          /\ payouts' = [payouts EXCEPT ![id] = @ + 1]
          /\ lost' = lost
       \/ /\ free[a] + n > MaxU64
          /\ lost' = lost \cup {id}
          /\ UNCHANGED <<free, payouts>>

ClaimEscrow_Bug(id, p) ==  \* a settled escrow can be claimed
    /\ id \in Opened
    /\ HashOf[p] = escrows[id].payment_hash
    /\ escrows' = [escrows EXCEPT ![id] = Claim(@, p)]
    /\ CreditFree(id, escrows[id].receiver)
    /\ UNCHANGED minted

\* claim_escrow: the state, then the preimage; settle, then credit.
ClaimEscrow(id, p) ==
    /\ IsOpen(id)
    /\ HashOf[p] = escrows[id].payment_hash
    /\ escrows' = [escrows EXCEPT ![id] = Claim(@, p)]
    /\ CreditFree(id, escrows[id].receiver)
    /\ UNCHANGED minted

\* refund_escrow: the caller names the current height.
RefundEscrow(id, height) ==
    /\ IsOpen(id)
    /\ height >= escrows[id].timeout_height
    /\ escrows' = [escrows EXCEPT ![id] = Refund(@)]
    /\ CreditFree(id, escrows[id].sender)
    /\ UNCHANGED minted

\* advance_vdf
AdvanceVdf(id, n) ==
    /\ IsOpen(id)
    /\ ~VdfComplete(escrows[id])
    /\ escrows' = [escrows EXCEPT ![id] = Advance(@, n)]
    /\ UNCHANGED <<accounts, free, historyVars>>

\* vdf_cancel_escrow: only once the VDF is complete, whatever the height.
VdfCancelEscrow(id) ==
    /\ IsOpen(id)
    /\ VdfComplete(escrows[id])
    /\ escrows' = [escrows EXCEPT ![id] = VdfCancel(@)]
    /\ CreditFree(id, escrows[id].sender)
    /\ UNCHANGED minted

Next ==
    \/ \E a \in Accounts, n \in Amounts : Mint(a, n)
    \/ \E id \in EscrowIds, s, r \in Accounts, n \in Amounts, h \in Digests,
          t \in Heights, v \in 0 .. MaxVdfSteps : OpenEscrow(id, s, r, n, h, t, v)
    \/ \E id \in EscrowIds, p \in Preimages : ClaimEscrow(id, p)
    \/ \E id \in EscrowIds, height \in Heights : RefundEscrow(id, height)
    \/ \E id \in EscrowIds, n \in 1 .. MaxVdfSteps : AdvanceVdf(id, n)
    \/ \E id \in EscrowIds : VdfCancelEscrow(id)

Spec == Init /\ [][Next]_vars

-----------------------------------------------------------------------------
TypeOK ==
    /\ accounts \subseteq Accounts
    /\ free \in [Accounts -> Balances]
    /\ Opened \subseteq EscrowIds
    /\ escrows \in [Opened -> Htlc]
    /\ minted \in Nat
    /\ payouts \in [EscrowIds -> Nat]
    /\ lost \subseteq EscrowIds

\* H5 and H6 of docs/math-htlc-twamm.md, with the overflow path of credit_free
\* accounted for: an escrow that was never opened or is still funded has paid
\* nobody; a settled one has paid exactly once, or its one payment overflowed.
PaidExactlyOnce ==
    \A id \in EscrowIds :
        /\ ~Settled(id) => payouts[id] = 0 /\ id \notin lost
        /\ Settled(id)  => payouts[id] = (IF id \in lost THEN 0 ELSE 1)

\* H1 and H4: the record of a settled escrow carries the evidence that allowed
\* its settlement: the preimage of its hash if and only if it was claimed, and
\* a completed VDF if it was cancelled.
SettledWithEvidence ==
    \A id \in Opened :
        LET h == escrows[id] IN
        /\ h.state = "Claimed" => /\ h.claimed_preimage \in Preimages
                                  /\ HashOf[h.claimed_preimage] = h.payment_hash
        /\ h.state # "Claimed" => h.claimed_preimage = NoPreimage
        /\ h.state = "VdfCancelled" => VdfComplete(h)

\* Credits an escrow holds: its amount while funded, nothing afterwards.
Held(id) == IF IsOpen(id) THEN escrows[id].amount ELSE 0

LostCredits == MapThenSumSet(LAMBDA id : escrows[id].amount, lost)

ConservedSupply == MapThenSumSet(LAMBDA a : free[a], Accounts)
                     + MapThenSumSet(Held, EscrowIds)

\* The conservation law of section 1.5: free plus escrowed credits are the
\* minted ones, minus those that overflowing payments destroyed.
SupplyAccounted == ConservedSupply + LostCredits = minted

\* Section 1.5 as the document states it, and as the comment on
\* CreditError::Overflow repeats it ("the conserved-supply accounting invariant
\* stays exact"): no operation but mint changes free plus escrowed credits.
SupplyExact == ConservedSupply = minted

\* H5 and H7 as a step property: a settled escrow's record never changes again,
\* and neither the parties, amount, hash nor timeout of any escrow ever do.
Terms(h) == <<h.sender, h.receiver, h.amount, h.payment_hash, h.timeout_height,
              h.steps_required>>

FrozenStep ==
    \A id \in Opened :
        /\ id \in Opened'
        /\ Terms(escrows'[id]) = Terms(escrows[id])
        /\ Settled(id) => escrows'[id] = escrows[id]

SettlementIsFinal == [][FrozenStep]_vars

\* Refinement of EscrowPromise: an escrow holds its amount while it is funded
\* and may be released to its sender or its receiver (H6: "released to free
\* balance exactly once"), whole unless the balance cannot hold it.
Promise == INSTANCE EscrowPromise WITH
    MaxBalance <- MaxU64,
    balance    <- free,
    held       <- [id \in EscrowIds |-> Held(id)],
    entitled   <- [id \in EscrowIds |->
                      IF id \in Opened THEN {escrows[id].sender, escrows[id].receiver}
                                       ELSE {}]

KeepsPromise == Promise!Spec
=============================================================================
