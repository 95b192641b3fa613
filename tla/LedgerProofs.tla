---------------------------- MODULE LedgerProofs -----------------------------
(***************************************************************************)
(* Proofs about CreditLedger, LightClient and the buffer of Availability,  *)
(* for every choice of their constants.                                    *)
(*                                                                         *)
(* Credits: the inductive invariant is the conjunction of the type         *)
(* invariant and the named safety invariants.  All need the types, so they *)
(* are proved one by one, each relative to TypeOK; the conservation of     *)
(* credits needs besides that what was lost had been paid out, and the     *)
(* sums of Sums.                                                           *)
(* Light clients: pins are endorsed by quorums, which share an honest      *)
(* validator.  Folding: what an accumulator shows is the last of the       *)
(* values that folding its history runs through.                           *)
(***************************************************************************)
EXTENDS CreditLedger, LightClient, Availability, Sums

USE LedgerAssumption

\* The record that a settling or advancing call leaves behind is an HTLC, and
\* it differs from the old one only in the fields that the call assigns.
LEMMA HtlcUpdate ==
    ASSUME NEW h \in Htlc
    PROVE  /\ \A p \in Preimages : Claim(h, p) \in Htlc
           /\ Refund(h) \in Htlc
           /\ VdfCancel(h) \in Htlc
           /\ \A n \in 1 .. MaxVdfSteps : Advance(h, n) \in Htlc
  <1>1. ASSUME NEW n \in 1 .. MaxVdfSteps PROVE Advance(h, n) \in Htlc
    <2> DEFINE done == IF h.steps_completed + n < h.steps_required
                       THEN h.steps_completed + n ELSE h.steps_required
    <2>1. h.steps_completed \in 0 .. MaxVdfSteps /\ h.steps_required \in 0 .. MaxVdfSteps
      BY DEF Htlc
    <2>2. done \in 0 .. MaxVdfSteps
      BY <2>1, LedgerAssumption
    <2>3. Advance(h, n) = [h EXCEPT !.steps_completed = done]
      BY DEF Advance, Htlc
    <2> QED
      BY <2>2, <2>3 DEF Htlc
  <1>2. /\ \A p \in Preimages : Claim(h, p) \in Htlc
        /\ Refund(h) \in Htlc
        /\ VdfCancel(h) \in Htlc
    BY DEF Claim, Refund, VdfCancel, Htlc, HtlcState
  <1> QED
    BY <1>1, <1>2

LEMMA FundedHtlc ==
    ASSUME NEW s \in Accounts, NEW r \in Accounts, NEW n \in Amounts, n # 0,
           NEW h \in Digests, h # ZeroDigest, NEW t \in Heights,
           NEW v \in 0 .. MaxVdfSteps
    PROVE  Fund(s, r, n, h, t, v) \in Htlc
    BY DEF Fund, Htlc, HtlcState, Balances

-----------------------------------------------------------------------------
LEMMA InitTypeOK == Init => TypeOK
    BY DEF Init, TypeOK, Opened, Balances

LEMMA CreditFreeTypes ==
    ASSUME TypeOK, NEW id \in Opened, NEW a \in Accounts, CreditFree(id, a)
    PROVE  /\ accounts' \subseteq Accounts
           /\ free' \in [Accounts -> Balances]
           /\ payouts' \in [EscrowIds -> Nat]
           /\ lost' \subseteq EscrowIds
  <1>1. escrows[id].amount \in Balances
    BY DEF TypeOK, Htlc
  <1>2. CASE free[a] + escrows[id].amount <= MaxU64
    <2>1. free[a] + escrows[id].amount \in Balances
      BY <1>1, <1>2 DEF TypeOK, Balances
    <2>2. QED
      BY <1>2, <2>1 DEF TypeOK, CreditFree
  <1>3. CASE free[a] + escrows[id].amount > MaxU64
    BY <1>1, <1>3 DEF TypeOK, CreditFree, Balances
  <1>4. QED
    BY <1>1, <1>2, <1>3 DEF TypeOK, Balances

\* Every settling call replaces one record and credits one account.
LEMMA SettleTypes ==
    ASSUME TypeOK, NEW id \in Opened, NEW h \in Htlc, NEW a \in Accounts,
           escrows' = [escrows EXCEPT ![id] = h], CreditFree(id, a),
           UNCHANGED minted
    PROVE  TypeOK'
    BY CreditFreeTypes DEF TypeOK, Opened

LEMMA NextTypeOK == TypeOK /\ [Next]_vars => TypeOK'
  <1> SUFFICES ASSUME TypeOK, [Next]_vars PROVE TypeOK'
    OBVIOUS
  <1>0. \A id \in Opened : /\ escrows[id] \in Htlc
                           /\ escrows[id].sender \in Accounts
                           /\ escrows[id].receiver \in Accounts
    BY DEF TypeOK, Htlc
  <1>1. ASSUME NEW a \in Accounts, NEW n \in Amounts, Mint(a, n)
        PROVE  TypeOK'
    <2>1. free[a] + n \in Balances
      BY <1>1 DEF TypeOK, Mint, Balances
    <2>2. QED
      BY <1>1, <2>1 DEF TypeOK, Mint, Opened
  <1>2. ASSUME NEW id \in EscrowIds, NEW s \in Accounts, NEW r \in Accounts,
               NEW n \in Amounts, NEW h \in Digests, NEW t \in Heights,
               NEW v \in 0 .. MaxVdfSteps, OpenEscrow(id, s, r, n, h, t, v)
        PROVE  TypeOK'
    <2>1. Fund(s, r, n, h, t, v) \in Htlc
      BY <1>2, FundedHtlc DEF OpenEscrow
    <2>2. escrows' \in [Opened \cup {id} -> Htlc]
      BY <1>2, <2>1 DEF OpenEscrow, TypeOK
    <2>3. free[s] - n \in Balances
      BY <1>2 DEF OpenEscrow, TypeOK, Balances
    <2>4. QED
      BY <1>2, <2>2, <2>3 DEF OpenEscrow, TypeOK, Opened, historyVars
  <1>3. ASSUME NEW id \in EscrowIds, NEW p \in Preimages, ClaimEscrow(id, p)
        PROVE  TypeOK'
    <2>1. id \in Opened
      BY <1>3 DEF ClaimEscrow, IsOpen
    <2>2. QED
      BY <1>0, <1>3, <2>1, HtlcUpdate, SettleTypes DEF ClaimEscrow
  <1>4. ASSUME NEW id \in EscrowIds, NEW height \in Heights,
               RefundEscrow(id, height)
        PROVE  TypeOK'
    <2>1. id \in Opened
      BY <1>4 DEF RefundEscrow, IsOpen
    <2>2. QED
      BY <1>0, <1>4, <2>1, HtlcUpdate, SettleTypes DEF RefundEscrow
  <1>5. ASSUME NEW id \in EscrowIds, NEW n \in 1 .. MaxVdfSteps,
               AdvanceVdf(id, n)
        PROVE  TypeOK'
    <2>1. id \in Opened
      BY <1>5 DEF AdvanceVdf, IsOpen
    <2>3. Advance(escrows[id], n) \in Htlc
      BY <1>0, <2>1, HtlcUpdate
    <2>4. escrows' = [escrows EXCEPT ![id] = Advance(escrows[id], n)]
      BY <1>5 DEF AdvanceVdf
    <2>5. QED
      BY <1>5, <2>1, <2>3, <2>4 DEF AdvanceVdf, TypeOK, Opened, historyVars
  <1>6. ASSUME NEW id \in EscrowIds, VdfCancelEscrow(id)
        PROVE  TypeOK'
    <2>1. id \in Opened
      BY <1>6 DEF VdfCancelEscrow, IsOpen
    <2>2. QED
      BY <1>0, <1>6, <2>1, HtlcUpdate, SettleTypes DEF VdfCancelEscrow
  <1>7. CASE UNCHANGED vars
    BY <1>7 DEF vars, TypeOK, Opened
  <1>8. QED
    BY <1>1, <1>2, <1>3, <1>4, <1>5, <1>6, <1>7 DEF Next

\* The ledger's variables keep their types in every state it can reach.
THEOREM TypeCorrect == Spec => []TypeOK
  BY InitTypeOK, NextTypeOK, PTL DEF Spec

-----------------------------------------------------------------------------
(***************************************************************************)
(* The two shapes of a step that touches the escrow map: a settlement      *)
(* (claim, refund, cancellation) replaces the record of one funded escrow  *)
(* by a settled one and credits one account; every other step leaves the   *)
(* state field of every opened escrow alone and pays nobody.               *)
(***************************************************************************)
Settles(id, h, a) ==
    /\ IsOpen(id)
    /\ h \in Htlc /\ h.state # "Funded"
    /\ Terms(h) = Terms(escrows[id])
    /\ h.state = "Claimed" => /\ a = escrows[id].receiver
                              /\ h.claimed_preimage \in Preimages
                              /\ HashOf[h.claimed_preimage] = h.payment_hash
    /\ h.state # "Claimed" => /\ a = escrows[id].sender
                              /\ h.claimed_preimage = escrows[id].claimed_preimage
    /\ h.state = "VdfCancelled" => VdfComplete(h)
    /\ escrows' = [escrows EXCEPT ![id] = h]
    /\ CreditFree(id, a)
    /\ UNCHANGED minted

LEMMA SettlingActions ==
    ASSUME TypeOK,
           \/ \E id \in EscrowIds, p \in Preimages : ClaimEscrow(id, p)
           \/ \E id \in EscrowIds, height \in Heights : RefundEscrow(id, height)
           \/ \E id \in EscrowIds : VdfCancelEscrow(id)
    PROVE  \E id \in Opened, h \in Htlc, a \in Accounts : Settles(id, h, a)
  <1>0. \A id \in Opened : /\ escrows[id] \in Htlc
                           /\ escrows[id].sender \in Accounts
                           /\ escrows[id].receiver \in Accounts
    BY DEF TypeOK, Htlc
  <1>1. ASSUME NEW id \in EscrowIds, NEW p \in Preimages, ClaimEscrow(id, p)
        PROVE  \E i \in Opened, h \in Htlc, a \in Accounts : Settles(i, h, a)
    <2> DEFINE h == Claim(escrows[id], p)
    <2>1. id \in Opened /\ IsOpen(id)
      BY <1>1 DEF ClaimEscrow, IsOpen
    <2>2. h \in Htlc
      BY <1>0, <2>1, HtlcUpdate
    <2>3. /\ h.state = "Claimed" /\ h.claimed_preimage = p
          /\ h.payment_hash = escrows[id].payment_hash
          /\ Terms(h) = Terms(escrows[id])
      BY <1>0, <2>1 DEF Htlc, Terms, Claim
    <2>4. Settles(id, h, escrows[id].receiver)
      BY <1>1, <2>1, <2>2, <2>3 DEF Settles, ClaimEscrow
    <2>5. QED
      BY <1>0, <2>1, <2>2, <2>4
  <1>2. ASSUME NEW id \in EscrowIds, NEW height \in Heights,
               RefundEscrow(id, height)
        PROVE  \E i \in Opened, h \in Htlc, a \in Accounts : Settles(i, h, a)
    <2> DEFINE h == Refund(escrows[id])
    <2>1. id \in Opened /\ IsOpen(id)
      BY <1>2 DEF RefundEscrow, IsOpen
    <2>2. h \in Htlc
      BY <1>0, <2>1, HtlcUpdate
    <2>3. /\ h.state = "Refunded"
          /\ h.claimed_preimage = escrows[id].claimed_preimage
          /\ Terms(h) = Terms(escrows[id])
      BY <1>0, <2>1 DEF Htlc, Terms, Refund
    <2>4. Settles(id, h, escrows[id].sender)
      BY <1>2, <2>1, <2>2, <2>3 DEF Settles, RefundEscrow
    <2>5. QED
      BY <1>0, <2>1, <2>2, <2>4
  <1>3. ASSUME NEW id \in EscrowIds, VdfCancelEscrow(id)
        PROVE  \E i \in Opened, h \in Htlc, a \in Accounts : Settles(i, h, a)
    <2> DEFINE h == VdfCancel(escrows[id])
    <2>1. id \in Opened /\ IsOpen(id)
      BY <1>3 DEF VdfCancelEscrow, IsOpen
    <2>2. h \in Htlc
      BY <1>0, <2>1, HtlcUpdate
    <2>3. /\ h.state = "VdfCancelled" /\ VdfComplete(h)
          /\ h.claimed_preimage = escrows[id].claimed_preimage
          /\ Terms(h) = Terms(escrows[id])
      BY <1>0, <1>3, <2>1 DEF Htlc, Terms, VdfCancelEscrow, VdfComplete, VdfCancel
    <2>4. Settles(id, h, escrows[id].sender)
      BY <1>3, <2>1, <2>2, <2>3 DEF Settles, VdfCancelEscrow
    <2>5. QED
      BY <1>0, <2>1, <2>2, <2>4
  <1>4. QED
    BY <1>1, <1>2, <1>3

LEMMA NextCases ==
    ASSUME TypeOK, [Next]_vars
    PROVE  \/ \E a \in Accounts, n \in Amounts : Mint(a, n)
           \/ \E id \in EscrowIds, s, r \in Accounts, n \in Amounts, h \in Digests,
                 t \in Heights, v \in 0 .. MaxVdfSteps : OpenEscrow(id, s, r, n, h, t, v)
           \/ \E id \in EscrowIds, n \in 1 .. MaxVdfSteps : AdvanceVdf(id, n)
           \/ \E id \in Opened, h \in Htlc, a \in Accounts : Settles(id, h, a)
           \/ UNCHANGED vars
    BY SettlingActions DEF Next

\* What advance_vdf changes: the completed steps of one funded escrow.
LEMMA AdvanceEffect ==
    ASSUME TypeOK, NEW id \in EscrowIds, NEW n \in 1 .. MaxVdfSteps,
           AdvanceVdf(id, n)
    PROVE  /\ id \in Opened /\ escrows[id].state = "Funded"
           /\ Opened' = Opened
           /\ Terms(escrows'[id]) = Terms(escrows[id])
           /\ escrows'[id].state = "Funded"
           /\ escrows'[id].claimed_preimage = escrows[id].claimed_preimage
           /\ \A j \in Opened \ {id} : escrows'[j] = escrows[j]
  <1>1. id \in Opened /\ escrows[id].state = "Funded"
    BY DEF AdvanceVdf, IsOpen
  <1>2. escrows[id] \in Htlc
    BY <1>1 DEF TypeOK
  <1>3. escrows' = [escrows EXCEPT ![id] = Advance(@, n)]
    BY DEF AdvanceVdf
  <1>4. escrows'[id] = Advance(escrows[id], n)
    BY <1>1, <1>3 DEF Opened
  <1>5. QED
    BY <1>1, <1>2, <1>3, <1>4 DEF Opened, TypeOK, Terms, Htlc, Advance

LEMMA OpenEffect ==
    ASSUME TypeOK, NEW id \in EscrowIds, NEW s \in Accounts, NEW r \in Accounts,
           NEW n \in Amounts, NEW h \in Digests, NEW t \in Heights,
           NEW v \in 0 .. MaxVdfSteps, OpenEscrow(id, s, r, n, h, t, v)
    PROVE  /\ id \notin Opened /\ Opened' = Opened \cup {id}
           /\ escrows'[id] = Fund(s, r, n, h, t, v)
           /\ escrows'[id].state = "Funded"
           /\ \A j \in Opened : escrows'[j] = escrows[j]
  <1>1. Fund(s, r, n, h, t, v).state = "Funded"
    BY DEF Fund
  <1>2. QED
    BY <1>1 DEF OpenEscrow, Opened

LEMMA SettleEffect ==
    ASSUME TypeOK, NEW id \in Opened, NEW h \in Htlc, NEW a \in Accounts,
           Settles(id, h, a)
    PROVE  /\ escrows[id].state = "Funded"
           /\ Opened' = Opened
           /\ escrows'[id] = h
           /\ \A j \in Opened \ {id} : escrows'[j] = escrows[j]
    BY DEF Settles, IsOpen, Opened, TypeOK

-----------------------------------------------------------------------------
LEMMA NextPaidOnce == TypeOK /\ PaidExactlyOnce /\ [Next]_vars => PaidExactlyOnce'
  <1> SUFFICES ASSUME TypeOK, PaidExactlyOnce, [Next]_vars,
                      NEW j \in EscrowIds
               PROVE  /\ ~Settled(j)' => payouts'[j] = 0 /\ j \notin lost'
                      /\ Settled(j)'  => payouts'[j] = (IF j \in lost' THEN 0 ELSE 1)
    BY DEF PaidExactlyOnce
  <1>0. /\ ~Settled(j) => payouts[j] = 0 /\ j \notin lost
        /\ Settled(j)  => payouts[j] = (IF j \in lost THEN 0 ELSE 1)
    BY DEF PaidExactlyOnce
  <1>1. ASSUME NEW a \in Accounts, NEW n \in Amounts, Mint(a, n)
        PROVE  (Settled(j)' <=> Settled(j)) /\ UNCHANGED <<payouts, lost>>
    BY <1>1 DEF Mint, Settled, Opened
  <1>2. ASSUME NEW id \in EscrowIds, NEW s \in Accounts, NEW r \in Accounts,
               NEW n \in Amounts, NEW h \in Digests, NEW t \in Heights,
               NEW v \in 0 .. MaxVdfSteps, OpenEscrow(id, s, r, n, h, t, v)
        PROVE  (Settled(j)' <=> Settled(j)) /\ UNCHANGED <<payouts, lost>>
    <2>1. UNCHANGED <<payouts, lost>>
      BY <1>2 DEF OpenEscrow, historyVars
    <2>2. /\ id \notin Opened /\ Opened' = Opened \cup {id}
          /\ escrows'[id].state = "Funded"
          /\ \A i \in Opened : escrows'[i] = escrows[i]
      BY <1>2, OpenEffect
    <2>3. Settled(j)' <=> Settled(j)
      BY <2>2 DEF Settled
    <2>4. QED
      BY <2>1, <2>3
  <1>3. ASSUME NEW id \in EscrowIds, NEW n \in 1 .. MaxVdfSteps, AdvanceVdf(id, n)
        PROVE  (Settled(j)' <=> Settled(j)) /\ UNCHANGED <<payouts, lost>>
    <2>1. UNCHANGED <<payouts, lost>>
      BY <1>3 DEF AdvanceVdf, historyVars
    <2>2. (Settled(j)' <=> Settled(j))
      BY <1>3, AdvanceEffect DEF Settled
    <2>3. QED
      BY <2>1, <2>2
  <1>4. ASSUME NEW id \in Opened, NEW h \in Htlc, NEW a \in Accounts,
               Settles(id, h, a)
        PROVE  /\ ~Settled(j)' => payouts'[j] = 0 /\ j \notin lost'
               /\ Settled(j)'  => payouts'[j] = (IF j \in lost' THEN 0 ELSE 1)
    <2>1. CreditFree(id, a) /\ h.state # "Funded"
      BY <1>4 DEF Settles
    <2>2. CASE j # id
      <3>1. (Settled(j)' <=> Settled(j))
        BY <1>4, <2>2, SettleEffect DEF Settled
      <3>2. payouts'[j] = payouts[j] /\ (j \in lost' <=> j \in lost)
        BY <2>1, <2>2 DEF CreditFree, TypeOK
      <3>3. QED
        BY <1>0, <3>1, <3>2
    <2>3. CASE j = id
      <3>1. ~Settled(id) /\ Settled(id)'
        BY <1>4, <2>1, SettleEffect DEF Settled
      <3>2. id \in EscrowIds /\ payouts[id] = 0 /\ id \notin lost
        BY <1>0, <2>3, <3>1
      <3>3. payouts'[id] = (IF id \in lost' THEN 0 ELSE 1)
        BY <2>1, <3>2 DEF CreditFree, TypeOK
      <3>4. QED
        BY <2>3, <3>1, <3>3
    <2>4. QED
      BY <2>2, <2>3
  <1>5. CASE UNCHANGED vars
    BY <1>0, <1>5 DEF vars, Settled, Opened
  <1>6. QED
    BY <1>0, <1>1, <1>2, <1>3, <1>4, <1>5, NextCases

\* H5 and H6: whatever the order of claims, refunds, cancellations and
\* overflows, no escrow pays twice and none is settled without its one payment
\* or its recorded loss.
THEOREM EscrowsPayOnce == Spec => []PaidExactlyOnce
  <1>1. Init => PaidExactlyOnce
    BY DEF Init, PaidExactlyOnce, Settled, Opened
  <1>2. QED
    BY <1>1, NextPaidOnce, TypeCorrect, PTL DEF Spec

-----------------------------------------------------------------------------
Evidence(h) ==
    /\ h.state = "Claimed" => /\ h.claimed_preimage \in Preimages
                              /\ HashOf[h.claimed_preimage] = h.payment_hash
    /\ h.state # "Claimed" => h.claimed_preimage = NoPreimage
    /\ h.state = "VdfCancelled" => VdfComplete(h)

LEMMA NextEvidence ==
    TypeOK /\ SettledWithEvidence /\ [Next]_vars => SettledWithEvidence'
  <1> SUFFICES ASSUME TypeOK, SettledWithEvidence, [Next]_vars,
                      NEW j \in Opened'
               PROVE  Evidence(escrows'[j])
    BY DEF SettledWithEvidence, Evidence, VdfComplete
  <1>0. \A i \in Opened : Evidence(escrows[i])
    BY DEF SettledWithEvidence, Evidence
  <1>1. ASSUME NEW a \in Accounts, NEW n \in Amounts, Mint(a, n)
        PROVE  Evidence(escrows'[j])
    BY <1>0, <1>1 DEF Mint, Opened
  <1>2. ASSUME NEW id \in EscrowIds, NEW s \in Accounts, NEW r \in Accounts,
               NEW n \in Amounts, NEW h \in Digests, NEW t \in Heights,
               NEW v \in 0 .. MaxVdfSteps, OpenEscrow(id, s, r, n, h, t, v)
        PROVE  Evidence(escrows'[j])
    <2>1. /\ Opened' = Opened \cup {id}
          /\ escrows'[id] = Fund(s, r, n, h, t, v)
          /\ \A i \in Opened : escrows'[i] = escrows[i]
      BY <1>2, OpenEffect
    <2>2. Evidence(Fund(s, r, n, h, t, v))
      BY DEF Evidence, Fund
    <2>3. QED
      BY <1>0, <2>1, <2>2
  <1>3. ASSUME NEW id \in EscrowIds, NEW n \in 1 .. MaxVdfSteps, AdvanceVdf(id, n)
        PROVE  Evidence(escrows'[j])
    <2>1. /\ id \in Opened /\ escrows[id].state = "Funded"
          /\ Opened' = Opened
          /\ escrows'[id].state = "Funded"
          /\ escrows'[id].claimed_preimage = escrows[id].claimed_preimage
          /\ \A i \in Opened \ {id} : escrows'[i] = escrows[i]
      BY <1>3, AdvanceEffect
    <2>2. Evidence(escrows'[id])
      BY <1>0, <2>1 DEF Evidence
    <2>3. QED
      BY <1>0, <2>1, <2>2
  <1>4. ASSUME NEW id \in Opened, NEW h \in Htlc, NEW a \in Accounts,
               Settles(id, h, a)
        PROVE  Evidence(escrows'[j])
    <2>1. /\ escrows[id].state = "Funded"
          /\ Opened' = Opened /\ escrows'[id] = h
          /\ \A i \in Opened \ {id} : escrows'[i] = escrows[i]
      BY <1>4, SettleEffect
    <2>2. Evidence(h)
      BY <1>0, <1>4, <2>1 DEF Evidence, Settles
    <2>3. QED
      BY <1>0, <2>1, <2>2
  <1>5. CASE UNCHANGED vars
    BY <1>0, <1>5 DEF vars, Opened
  <1>6. QED
    BY <1>1, <1>2, <1>3, <1>4, <1>5, NextCases

\* H1 and H4: a claimed escrow exhibits a preimage of its hash, no other escrow
\* exhibits any, and a cancelled one has sat through its whole VDF.
THEOREM SettlementsHaveEvidence == Spec => []SettledWithEvidence
  <1>1. Init => SettledWithEvidence
    BY DEF Init, SettledWithEvidence, Opened
  <1>2. QED
    BY <1>1, NextEvidence, TypeCorrect, PTL DEF Spec

-----------------------------------------------------------------------------
LEMMA NextFrozen == TypeOK /\ [Next]_vars => [FrozenStep]_vars
  <1> SUFFICES ASSUME TypeOK, [Next]_vars, NEW j \in Opened
               PROVE  /\ j \in Opened'
                      /\ Terms(escrows'[j]) = Terms(escrows[j])
                      /\ Settled(j) => escrows'[j] = escrows[j]
    BY DEF FrozenStep
  <1>1. ASSUME NEW a \in Accounts, NEW n \in Amounts, Mint(a, n)
        PROVE  Opened' = Opened /\ escrows' = escrows
    BY <1>1 DEF Mint, Opened
  <1>2. ASSUME NEW id \in EscrowIds, NEW s \in Accounts, NEW r \in Accounts,
               NEW n \in Amounts, NEW h \in Digests, NEW t \in Heights,
               NEW v \in 0 .. MaxVdfSteps, OpenEscrow(id, s, r, n, h, t, v)
        PROVE  j \in Opened' /\ escrows'[j] = escrows[j]
    BY <1>2, OpenEffect
  <1>3. ASSUME NEW id \in EscrowIds, NEW n \in 1 .. MaxVdfSteps, AdvanceVdf(id, n)
        PROVE  /\ j \in Opened'
               /\ Terms(escrows'[j]) = Terms(escrows[j])
               /\ Settled(j) => escrows'[j] = escrows[j]
    BY <1>3, AdvanceEffect DEF Settled
  <1>4. ASSUME NEW id \in Opened, NEW h \in Htlc, NEW a \in Accounts,
               Settles(id, h, a)
        PROVE  /\ j \in Opened'
               /\ Terms(escrows'[j]) = Terms(escrows[j])
               /\ Settled(j) => escrows'[j] = escrows[j]
    <2>1. Terms(h) = Terms(escrows[id])
      BY <1>4 DEF Settles
    <2>2. QED
      BY <1>4, <2>1, SettleEffect DEF Settled
  <1>5. CASE UNCHANGED vars
    BY <1>5 DEF vars, Opened
  <1>6. QED
    BY <1>1, <1>2, <1>3, <1>4, <1>5, NextCases

\* H5 and H7: no call rewrites a settled escrow, re-registers an id or alters
\* the terms of an escrow.
THEOREM SettledNeverChanges == Spec => SettlementIsFinal
  BY NextFrozen, TypeCorrect, PTL DEF Spec, SettlementIsFinal

-----------------------------------------------------------------------------
(***************************************************************************)
(* The conservation law.  Its three sums are totals of functions; a step   *)
(* changes one summand of at most two of them, or moves a summand from the *)
(* open escrows to the lost ones.                                          *)
(***************************************************************************)
HeldBy == [id \in EscrowIds |-> Held(id)]

LostBy == [id \in lost |-> escrows[id].amount]

Books == Total(free, Accounts) + Total(HeldBy, EscrowIds) + Total(LostBy, lost) = minted

LEMMA BooksFinite ==
    /\ IsFiniteSet(Accounts) /\ IsFiniteSet(EscrowIds)
    /\ \A S \in SUBSET EscrowIds : IsFiniteSet(S)
BY FS_Subset

LEMMA BooksTyped ==
    ASSUME TypeOK, PaidExactlyOnce
    PROVE  /\ free \in [Accounts -> Nat] /\ HeldBy \in [EscrowIds -> Nat]
           /\ lost \subseteq EscrowIds /\ lost \subseteq Opened /\ IsFiniteSet(lost)
           /\ LostBy \in [lost -> Nat]
           /\ \A id \in lost : escrows[id].state # "Funded"
  <1>1. \A id \in Opened : escrows[id] \in Htlc /\ escrows[id].amount \in Nat
    BY DEF TypeOK, Htlc, Balances
  <1>2. free \in [Accounts -> Nat] /\ lost \subseteq EscrowIds
    BY DEF TypeOK, Balances
  <1>3. \A id \in lost : id \in Opened /\ escrows[id].state # "Funded"
    BY <1>2 DEF PaidExactlyOnce, Settled
  <1>4. HeldBy \in [EscrowIds -> Nat]
    BY <1>1 DEF HeldBy, Held, IsOpen
  <1>5. LostBy \in [lost -> Nat]
    BY <1>1, <1>3 DEF LostBy
  <1>6. QED
    BY <1>2, <1>3, <1>4, <1>5, BooksFinite

LEMMA SumsAreTotals ==
    /\ MapThenSumSet(LAMBDA a : free[a], Accounts) = Total(free, Accounts)
    /\ MapThenSumSet(Held, EscrowIds) = Total(HeldBy, EscrowIds)
    /\ lost \subseteq EscrowIds => LostCredits = Total(LostBy, lost)
  <1>1. MapThenSumSet(LAMBDA a : free[a], Accounts) = Total(free, Accounts)
    BY DEF MapThenSumSet, MapThenFoldSet, Total, Summing, Picked
  <1>2. MapThenSumSet(Held, EscrowIds) = Total(HeldBy, EscrowIds)
    <2> DEFINE Rec(f) == [s \in SUBSET EscrowIds |->
                             IF s = {} THEN 0 ELSE Held(Picked(s)) + f[s \ {Picked(s)}]]
               iter == CHOOSE f : f = Rec(f)
    <2>1. MapThenSumSet(Held, EscrowIds) = iter[EscrowIds]
      BY DEF MapThenSumSet, MapThenFoldSet, Picked
    <2>2. \A s \in SUBSET EscrowIds : s # {} => HeldBy[Picked(s)] = Held(Picked(s))
      BY PickedIsIn DEF HeldBy
    <2>3. \A f : Summing(f, HeldBy, EscrowIds) <=> f = Rec(f)
      BY <2>2 DEF Summing
    <2>4. \E f : f = Rec(f)
      BY <2>3, BooksFinite, SummingExists
    <2>5. Summing(iter, HeldBy, EscrowIds)
      BY <2>3, <2>4
    <2> HIDE DEF iter
    <2>6. QED
      BY <2>1, <2>5, BooksFinite, SumIsTotal
  <1>3. ASSUME lost \subseteq EscrowIds
        PROVE  LostCredits = Total(LostBy, lost)
    <2> DEFINE Rec(f) == [s \in SUBSET lost |->
                             IF s = {} THEN 0 ELSE escrows[Picked(s)].amount + f[s \ {Picked(s)}]]
               iter == CHOOSE f : f = Rec(f)
    <2>1. LostCredits = iter[lost]
      BY DEF LostCredits, MapThenSumSet, MapThenFoldSet, Picked
    <2>2. \A s \in SUBSET lost : s # {} => LostBy[Picked(s)] = escrows[Picked(s)].amount
      BY PickedIsIn DEF LostBy
    <2>3. \A f : Summing(f, LostBy, lost) <=> f = Rec(f)
      BY <2>2 DEF Summing
    <2>4. IsFiniteSet(lost)
      BY <1>3, BooksFinite
    <2>5. \E f : f = Rec(f)
      BY <2>3, <2>4, SummingExists
    <2>6. Summing(iter, LostBy, lost)
      BY <2>3, <2>5
    <2> HIDE DEF iter
    <2>7. QED
      BY <2>1, <2>4, <2>6, SumIsTotal
  <1>4. QED
    BY <1>1, <1>2, <1>3

LEMMA SupplyIsBooks == TypeOK => (SupplyAccounted <=> Books)
  BY SumsAreTotals DEF TypeOK, SupplyAccounted, ConservedSupply, Books

LEMMA InitBooks == Init => Books
  <1> SUFFICES ASSUME Init PROVE Books
    OBVIOUS
  <1>1. /\ \A a \in Accounts : free[a] = 0
        /\ \A id \in EscrowIds : HeldBy[id] = 0
        /\ lost = {} /\ minted = 0
    BY DEF Init, HeldBy, Held, IsOpen, Opened
  <1>2. Total(free, Accounts) = 0 /\ Total(HeldBy, EscrowIds) = 0
    BY <1>1, BooksFinite, TotalOfZeros
  <1>3. Total(LostBy, lost) = 0
    BY <1>1, FS_EmptySet, TotalOfZeros
  <1>4. QED
    BY <1>1, <1>2, <1>3 DEF Books

\* Unless an escrow is opened or settled, what escrows hold and what was lost
\* stay as they are.
LEMMA QuietEscrows ==
    ASSUME TypeOK, PaidExactlyOnce, lost' = lost, Opened' = Opened,
           \A j \in Opened : /\ escrows'[j].state = escrows[j].state
                             /\ escrows'[j].amount = escrows[j].amount
    PROVE  HeldBy' = HeldBy /\ LostBy' = LostBy
  <1>1. HeldBy' = HeldBy
    BY DEF HeldBy, Held, IsOpen
  <1>2. \A j \in lost : j \in Opened
    BY BooksTyped
  <1>3. LostBy' = LostBy
    BY <1>2 DEF LostBy
  <1>4. QED
    BY <1>1, <1>3

LEMMA NextBooks ==
    TypeOK /\ TypeOK' /\ PaidExactlyOnce /\ PaidExactlyOnce' /\ Books /\ [Next]_vars => Books'
  <1> SUFFICES ASSUME TypeOK, TypeOK', PaidExactlyOnce, PaidExactlyOnce', Books, [Next]_vars
               PROVE  Books'
    OBVIOUS
  <1> DEFINE F == Total(free, Accounts)
             H == Total(HeldBy, EscrowIds)
             L == Total(LostBy, lost)
  <1>0. /\ free \in [Accounts -> Nat] /\ free' \in [Accounts -> Nat]
        /\ HeldBy \in [EscrowIds -> Nat] /\ HeldBy' \in [EscrowIds -> Nat]
        /\ lost \subseteq EscrowIds /\ lost \subseteq Opened /\ IsFiniteSet(lost)
        /\ LostBy \in [lost -> Nat] /\ LostBy' \in [lost' -> Nat]
        /\ minted \in Nat
        /\ \A id \in lost : escrows[id].state # "Funded"
    <2>1. (TypeOK /\ PaidExactlyOnce => /\ free \in [Accounts -> Nat]
                                        /\ HeldBy \in [EscrowIds -> Nat]
                                        /\ LostBy \in [lost -> Nat])'
      BY BooksTyped, PTL
    <2>2. QED
      BY <2>1, BooksTyped DEF TypeOK
  <1>a. /\ \A x \in Accounts : free[x] \in Nat /\ free'[x] \in Nat
        /\ \A x \in EscrowIds : HeldBy[x] \in Nat /\ HeldBy'[x] \in Nat
        /\ \A x \in lost : LostBy[x] \in Nat
    BY <1>0
  <1>1. F \in Nat /\ H \in Nat /\ L \in Nat
    BY <1>0, <1>a, BooksFinite, TotalIsNat
  <1>2. F + H + L = minted
    BY DEF Books
  <1>3. ASSUME NEW a \in Accounts, NEW n \in Amounts, Mint(a, n) PROVE Books'
    <2>1. HeldBy' = HeldBy /\ LostBy' = LostBy /\ lost' = lost /\ minted' = minted + n
      BY <1>3, QuietEscrows DEF Mint, Opened
    <2>2. free' = [free EXCEPT ![a] = @ + n]
      BY <1>3 DEF Mint
    <2>3. Total(free', Accounts) + free[a] = F + free'[a]
      <3>1. \A x \in Accounts \ {a} : free'[x] = free[x]
        BY <2>2
      <3>2. QED
        BY <1>a, <3>1, BooksFinite, TotalChanges
    <2>4. Total(free', Accounts) \in Nat /\ free[a] \in Nat /\ free'[a] = free[a] + n /\ n \in Nat
      <3>1. Total(free', Accounts) \in Nat
        BY <1>a, BooksFinite, TotalIsNat
      <3>2. free[a] \in Nat /\ free'[a] = free[a] + n
        BY <1>0, <2>2
      <3>3. n \in Nat
        OBVIOUS
      <3>4. QED
        BY <3>1, <3>2, <3>3
    <2> HIDE DEF F, H, L
    <2>5. Total(free', Accounts) = F + n
      BY <1>1, <2>3, <2>4
    <2>6. QED
      BY <1>0, <1>1, <1>2, <2>1, <2>4, <2>5 DEF Books, H, L
  <1>4. ASSUME NEW id \in EscrowIds, NEW s \in Accounts, NEW r \in Accounts,
               NEW n \in Amounts, NEW h \in Digests, NEW t \in Heights,
               NEW v \in 0 .. MaxVdfSteps, OpenEscrow(id, s, r, n, h, t, v)
        PROVE  Books'
    <2>1. /\ id \notin Opened /\ Opened' = Opened \cup {id}
          /\ escrows'[id].state = "Funded" /\ escrows'[id].amount = n
          /\ \A j \in Opened : escrows'[j] = escrows[j]
      <3>1. Fund(s, r, n, h, t, v).amount = n
        BY DEF Fund
      <3>2. QED
        BY <1>4, <3>1, OpenEffect
    <2>2. /\ free' = [free EXCEPT ![s] = @ - n] /\ free[s] >= n
          /\ lost' = lost /\ minted' = minted
      BY <1>4 DEF OpenEscrow, historyVars
    <2>3. HeldBy'[id] = n /\ HeldBy[id] = 0 /\ \A j \in EscrowIds \ {id} : HeldBy'[j] = HeldBy[j]
      BY <2>1 DEF HeldBy, Held, IsOpen
    <2>4. LostBy' = LostBy
      BY <1>0, <2>1, <2>2 DEF LostBy
    <2>5. Total(HeldBy', EscrowIds) + HeldBy[id] = H + HeldBy'[id]
      BY <1>a, <2>3, BooksFinite, TotalChanges
    <2>6. Total(free', Accounts) + free[s] = F + free'[s]
      <3>1. \A x \in Accounts \ {s} : free'[x] = free[x]
        BY <2>2
      <3>2. QED
        BY <1>a, <3>1, BooksFinite, TotalChanges
    <2>7. /\ Total(free', Accounts) \in Nat /\ Total(HeldBy', EscrowIds) \in Nat
          /\ free[s] \in Nat /\ n \in Nat /\ free'[s] = free[s] - n
      <3>1. Total(free', Accounts) \in Nat /\ Total(HeldBy', EscrowIds) \in Nat
        BY <1>a, BooksFinite, TotalIsNat
      <3>2. free[s] \in Nat /\ free'[s] = free[s] - n
        BY <1>0, <2>2
      <3>3. n \in Nat
        OBVIOUS
      <3>4. QED
        BY <3>1, <3>2, <3>3
    <2> HIDE DEF F, H, L
    <2>8. Total(free', Accounts) = F - n /\ Total(HeldBy', EscrowIds) = H + n
      BY <1>1, <2>3, <2>5, <2>6, <2>7
    <2>9. QED
      BY <1>0, <1>1, <1>2, <2>2, <2>4, <2>7, <2>8 DEF Books, L
  <1>5. ASSUME NEW id \in EscrowIds, NEW n \in 1 .. MaxVdfSteps, AdvanceVdf(id, n)
        PROVE  Books'
    <2>1. lost' = lost /\ free' = free /\ minted' = minted
      BY <1>5 DEF AdvanceVdf, historyVars
    <2>2. /\ Opened' = Opened
          /\ \A j \in Opened : /\ escrows'[j].state = escrows[j].state
                                /\ escrows'[j].amount = escrows[j].amount
      BY <1>5, AdvanceEffect DEF Terms
    <2>3. HeldBy' = HeldBy /\ LostBy' = LostBy
      BY <2>1, <2>2, QuietEscrows
    <2>4. QED
      BY <2>1, <2>3 DEF Books
  <1>6. ASSUME NEW id \in Opened, NEW h \in Htlc, NEW a \in Accounts, Settles(id, h, a)
        PROVE  Books'
    <2> DEFINE n == escrows[id].amount
    <2>1. /\ id \in EscrowIds /\ escrows[id].state = "Funded" /\ n \in Nat
          /\ Opened' = Opened /\ escrows'[id] = h
          /\ h.state # "Funded" /\ h.amount = n
          /\ \A j \in Opened \ {id} : escrows'[j] = escrows[j]
          /\ minted' = minted
      <3>1. id \in EscrowIds /\ escrows[id] \in Htlc
        BY DEF TypeOK
      <3>2. n \in Nat
        BY <3>1 DEF Htlc, Balances
      <3>3. h.state # "Funded" /\ h.amount = n /\ minted' = minted
        BY <1>6 DEF Settles, Terms
      <3>4. QED
        BY <1>6, <3>1, <3>2, <3>3, SettleEffect
    <2>2. HeldBy[id] = n /\ HeldBy'[id] = 0 /\ \A j \in EscrowIds \ {id} : HeldBy'[j] = HeldBy[j]
      BY <2>1 DEF HeldBy, Held, IsOpen
    <2>3. Total(HeldBy', EscrowIds) + HeldBy[id] = H + HeldBy'[id]
      BY <1>a, <2>1, <2>2, BooksFinite, TotalChanges
    <2>4. Total(HeldBy', EscrowIds) \in Nat
      BY <1>a, BooksFinite, TotalIsNat
    <2>5. id \notin lost
      BY <1>0, <2>1
    <2>6. CASE free' = [free EXCEPT ![a] = @ + n] /\ lost' = lost
      <3>1. Total(free', Accounts) + free[a] = F + free'[a]
        <4>1. \A x \in Accounts \ {a} : free'[x] = free[x]
          BY <2>6
        <4>2. QED
          BY <1>a, <4>1, BooksFinite, TotalChanges
      <3>2. Total(free', Accounts) \in Nat /\ free[a] \in Nat /\ free'[a] = free[a] + n
        BY <1>0, <2>6, BooksFinite, TotalIsNat
      <3>3. LostBy' = LostBy
        BY <1>0, <2>1, <2>5, <2>6 DEF LostBy
      <3> HIDE DEF F, H, L, n
      <3>4. Total(free', Accounts) = F + n /\ Total(HeldBy', EscrowIds) + n = H
        BY <1>1, <2>1, <2>2, <2>3, <2>4, <3>1, <3>2
      <3>5. QED
        BY <1>1, <1>2, <2>1, <2>4, <2>6, <3>2, <3>3, <3>4 DEF Books, L
    <2>7. CASE free' = free /\ lost' = lost \cup {id}
      <3>1. LostBy'[id] = n /\ \A j \in lost : LostBy'[j] = LostBy[j]
        BY <1>0, <2>1, <2>5, <2>7 DEF LostBy
      <3>2. Total(LostBy', lost) = L
        BY <1>0, <3>1, TotalsAgree
      <3>3. Total(LostBy', lost \cup {id}) = LostBy'[id] + Total(LostBy', lost)
        <4> DEFINE R == lost \cup {id}
                   g == LostBy'
        <4>1. IsFiniteSet(R) /\ id \in R /\ R \ {id} = lost
          BY <1>0, <2>5, FS_AddElement
        <4>2. Counting(g, R)
          BY <1>a, <2>1, <3>1 DEF Counting
        <4> HIDE DEF R, g
        <4>3. Total(g, R) = g[id] + Total(g, R \ {id})
          BY <4>1, <4>2, TotalTakesOut
        <4> QED
          BY <4>1, <4>3 DEF R, g
      <3> HIDE DEF F, H, L, n
      <3>4. Total(LostBy', lost') = L + n /\ Total(HeldBy', EscrowIds) + n = H
        BY <1>1, <2>1, <2>2, <2>3, <2>4, <2>7, <3>1, <3>2, <3>3
      <3>5. QED
        BY <1>1, <1>2, <2>1, <2>4, <2>7, <3>4 DEF Books, F
    <2>8. QED
      BY <1>6, <2>6, <2>7 DEF Settles, CreditFree
  <1>7. CASE UNCHANGED vars
    <2>1. lost' = lost /\ free' = free /\ minted' = minted
      BY <1>7 DEF vars
    <2>2. HeldBy' = HeldBy /\ LostBy' = LostBy
      BY <1>7 DEF vars, HeldBy, Held, IsOpen, Opened, LostBy
    <2>3. QED
      BY <2>1, <2>2 DEF Books
  <1>8. QED
    BY <1>3, <1>4, <1>5, <1>6, <1>7, NextCases

\* Section 1.5 of docs/math-htlc-twamm.md, with the payments that overflow: free
\* credits, escrowed credits and those that were lost add up to what was
\* minted, for any number of accounts and escrows and every amount.
THEOREM SupplyIsAccounted == Spec => []SupplyAccounted
  <1>1. Spec => [](TypeOK /\ PaidExactlyOnce)
    BY TypeCorrect, EscrowsPayOnce, PTL
  <1>2. Spec => []Books
    BY <1>1, InitBooks, NextBooks, PTL DEF Spec
  <1>3. QED
    BY <1>1, <1>2, SupplyIsBooks, PTL

-----------------------------------------------------------------------------
\* The refinement mapping of CreditLedger!Promise, named.
HeldNow == [id \in EscrowIds |-> Held(id)]
EntitledNow == [id \in EscrowIds |->
                   IF id \in Opened THEN {escrows[id].sender, escrows[id].receiver}
                                    ELSE {}]

LEMMA InitPromise == Init => Promise!Init
    BY DEF Init, Promise!Init, Held, IsOpen, Opened

LEMMA MintDeposits ==
    ASSUME NEW a \in Accounts, NEW n \in Amounts, Mint(a, n)
    PROVE  Promise!Deposit(a, n)
    BY DEF Mint, Promise!Deposit, Held, IsOpen, Opened

LEMMA OpenOpens ==
    ASSUME TypeOK, NEW id \in EscrowIds, NEW s \in Accounts, NEW r \in Accounts,
           NEW n \in Amounts, NEW h \in Digests, NEW t \in Heights,
           NEW v \in 0 .. MaxVdfSteps, OpenEscrow(id, s, r, n, h, t, v)
    PROVE  Promise!Open(id, s, r, n)
  <1>1. /\ id \notin Opened /\ Opened' = Opened \cup {id}
        /\ escrows'[id] = Fund(s, r, n, h, t, v)
        /\ \A j \in Opened : escrows'[j] = escrows[j]
    BY OpenEffect
  <1>2. /\ n > 0 /\ n <= free[s]
        /\ free' = [free EXCEPT ![s] = @ - n]
    BY DEF OpenEscrow, TypeOK, Balances
  <1>3. /\ escrows'[id].state = "Funded" /\ escrows'[id].amount = n
        /\ escrows'[id].sender = s /\ escrows'[id].receiver = r
    BY <1>1 DEF Fund
  <1>4. HeldNow' = [HeldNow EXCEPT ![id] = n]
    BY <1>1, <1>3 DEF HeldNow, Held, IsOpen
  <1>5. EntitledNow' = [EntitledNow EXCEPT ![id] = {s, r}]
    BY <1>1, <1>3 DEF EntitledNow
  <1>6. EntitledNow[id] = {}
    BY <1>1 DEF EntitledNow
  <1>7. QED
    BY <1>2, <1>4, <1>5, <1>6 DEF Promise!Open, HeldNow, EntitledNow

LEMMA AdvanceStutters ==
    ASSUME TypeOK, NEW id \in EscrowIds, NEW n \in 1 .. MaxVdfSteps,
           AdvanceVdf(id, n)
    PROVE  UNCHANGED Promise!vars
  <1>1. /\ id \in Opened /\ escrows[id].state = "Funded"
        /\ Opened' = Opened
        /\ Terms(escrows'[id]) = Terms(escrows[id])
        /\ escrows'[id].state = "Funded"
        /\ \A j \in Opened \ {id} : escrows'[j] = escrows[j]
    BY AdvanceEffect
  <1>2. /\ escrows'[id].amount = escrows[id].amount
        /\ escrows'[id].sender = escrows[id].sender
        /\ escrows'[id].receiver = escrows[id].receiver
    BY <1>1 DEF Terms
  <1>3. HeldNow' = HeldNow
    BY <1>1, <1>2 DEF HeldNow, Held, IsOpen
  <1>4. EntitledNow' = EntitledNow
    BY <1>1, <1>2 DEF EntitledNow
  <1>5. free' = free
    BY DEF AdvanceVdf
  <1>6. QED
    BY <1>3, <1>4, <1>5 DEF Promise!vars, HeldNow, EntitledNow

LEMMA SettlementReleases ==
    ASSUME TypeOK,
           NEW id \in Opened, NEW h \in Htlc, NEW a \in Accounts, Settles(id, h, a)
    PROVE  id \in EscrowIds /\ Promise!Release(id, a)
  <1>1. /\ escrows[id].state = "Funded"
        /\ Opened' = Opened /\ escrows'[id] = h
        /\ \A j \in Opened \ {id} : escrows'[j] = escrows[j]
    BY SettleEffect
  <1>2. id \in EscrowIds
    BY <1>1 DEF TypeOK
  <1>3. free' = IF free[a] + escrows[id].amount <= MaxU64
                THEN [free EXCEPT ![a] = @ + escrows[id].amount] ELSE free
    <2>1. free[a] \in Int /\ escrows[id].amount \in Int /\ MaxU64 \in Int
      BY LedgerAssumption DEF TypeOK, Htlc, Balances
    <2>2. QED
      BY <2>1 DEF Settles, CreditFree
  <1>4. /\ h.state # "Funded"
        /\ h.sender = escrows[id].sender /\ h.receiver = escrows[id].receiver
        /\ a \in {escrows[id].sender, escrows[id].receiver}
    BY DEF Settles, Terms
  <1>5. HeldNow[id] = escrows[id].amount /\ escrows[id].amount > 0
    BY <1>1, <1>2 DEF HeldNow, Held, IsOpen, TypeOK, Htlc, Balances
  <1>6. HeldNow' = [HeldNow EXCEPT ![id] = 0]
    BY <1>1, <1>4 DEF HeldNow, Held, IsOpen
  <1>7. EntitledNow' = EntitledNow
    BY <1>1, <1>4 DEF EntitledNow
  <1>8. a \in EntitledNow[id]
    BY <1>2, <1>4 DEF EntitledNow
  <1>9. QED
    BY <1>2, <1>3, <1>5, <1>6, <1>7, <1>8 DEF Promise!Release, HeldNow, EntitledNow

LEMMA StepKeepsPromise ==
    TypeOK /\ [Next]_vars => [Promise!Next]_Promise!vars
  <1> SUFFICES ASSUME TypeOK, [Next]_vars
               PROVE  [Promise!Next]_Promise!vars
    OBVIOUS
  <1>1. ASSUME NEW a \in Accounts, NEW n \in Amounts, Mint(a, n)
        PROVE  Promise!Next
    BY <1>1, MintDeposits DEF Promise!Next
  <1>2. ASSUME NEW id \in EscrowIds, NEW s \in Accounts, NEW r \in Accounts,
               NEW n \in Amounts, NEW h \in Digests, NEW t \in Heights,
               NEW v \in 0 .. MaxVdfSteps, OpenEscrow(id, s, r, n, h, t, v)
        PROVE  Promise!Next
    <2>1. Promise!Open(id, s, r, n)
      BY <1>2, OpenOpens
    <2>2. QED
      BY <2>1 DEF Promise!Next
  <1>3. ASSUME NEW id \in EscrowIds, NEW n \in 1 .. MaxVdfSteps, AdvanceVdf(id, n)
        PROVE  UNCHANGED Promise!vars
    BY <1>3, AdvanceStutters
  <1>4. ASSUME NEW id \in Opened, NEW h \in Htlc, NEW a \in Accounts,
               Settles(id, h, a)
        PROVE  Promise!Next
    BY <1>4, SettlementReleases DEF Promise!Next
  <1>5. CASE UNCHANGED vars
    BY <1>5 DEF vars, Promise!vars, Held, IsOpen, Opened
  <1>6. QED
    BY <1>1, <1>2, <1>3, <1>4, <1>5, NextCases

\* The ledger implements EscrowPromise: every credit that enters an escrow
\* leaves it once, for a party of that escrow.
THEOREM LedgerKeepsPromise == Spec => KeepsPromise
  BY InitPromise, StepKeepsPromise, TypeCorrect, PTL
     DEF Spec, KeepsPromise, Promise!Spec
-----------------------------------------------------------------------------
(* Light clients agree, for every set of validators whose quorums share an    *)
(* honest one and for every bound on heights and times.                       *)

\* An honest validator has signed one checkpoint of a height at most.
HonestSignOnce ==
    \A s, t \in signed :
        s[1] \in Honest /\ s[1] = t[1] /\ s[2].height = t[2].height => s[2] = t[2]

\* A quorum has signed the checkpoint.
Endorsed(checkpoint) ==
    \E P \in SUBSET Validators, q \in Quorums :
        Cardinality(P) >= q /\ \A v \in P : <<v, checkpoint>> \in signed

\* What a client has pinned is the genesis root or a root that a quorum has signed.
PinsAreEndorsed ==
    \A c \in Clients :
        IF pin[c].trusted_height = 0 THEN pin[c].trusted_root = Genesis
        ELSE \E k \in Checkpoint : /\ k.height = pin[c].trusted_height
                                   /\ k.root = pin[c].trusted_root
                                   /\ Endorsed(k)

PinType ==
    /\ pin \in [Clients -> [trusted_root : Roots \union {Genesis}, trusted_height : 0..MaxHeight,
                            quorum : Quorums \union {0}]]
    /\ signed \subseteq Validators \X Checkpoint

ClientInv == PinType /\ HonestSignOnce /\ PinsAreEndorsed

\* A list that passes holds the signatures of a quorum.
LEMMA QuorumEndorses ==
    ASSUME NEW q \in Quorums, NEW k \in Checkpoint, NEW sigs, verify_quorum(q, k, sigs)
    PROVE  Endorsed(k)
<1> DEFINE P == Endorsers(k, sigs)
<1>1. P \in SUBSET Validators /\ \A v \in P : <<v, k>> \in signed
  BY DEF Endorsers
<1>2. Cardinality(P) >= q
  BY DEF verify_quorum
<1> QED BY <1>1, <1>2 DEF Endorsed

\* Two checkpoints of one height that quorums have signed are the same.
LEMMA OneCheckpointAHeight ==
    ASSUME HonestSignOnce, NEW j \in Checkpoint, NEW k \in Checkpoint,
           Endorsed(j), Endorsed(k), j.height = k.height
    PROVE  j = k
<1>1. PICK P \in SUBSET Validators, p \in Quorums :
         Cardinality(P) >= p /\ \A v \in P : <<v, j>> \in signed
  BY DEF Endorsed
<1>2. PICK Q \in SUBSET Validators, q \in Quorums :
         Cardinality(Q) >= q /\ \A v \in Q : <<v, k>> \in signed
  BY DEF Endorsed
<1>3. PICK v \in P \cap Q : v \in Honest
  BY <1>1, <1>2, QuorumAssumption
<1>4. <<v, j>> \in signed /\ <<v, k>> \in signed
  BY <1>1, <1>2, <1>3
<1> QED BY <1>3, <1>4 DEF HonestSignOnce

LEMMA ClientInitEstablishes == ASSUME ClientInit PROVE ClientInv
<1>1. PinType
  BY HeightAssumption DEF ClientInit, PinType
<1>2. HonestSignOnce
  BY DEF ClientInit, HonestSignOnce
<1>3. PinsAreEndorsed
  BY DEF ClientInit, PinsAreEndorsed
<1> QED BY <1>1, <1>2, <1>3 DEF ClientInv

\* Signatures that exist stay.
LEMMA EndorsedStays ==
    ASSUME NEW k \in Checkpoint, Endorsed(k), signed \subseteq signed' PROVE Endorsed(k)'
BY DEF Endorsed

LEMMA ClientStepPreserves == ASSUME ClientInv, [ClientNext]_clientVars PROVE ClientInv'
<1> USE DEF ClientInv
<1>1. ASSUME NEW c \in Clients, NEW q \in Quorums, with_validators(c, q)
      PROVE  ClientInv'
  <2>1. PinType'
    BY <1>1 DEF with_validators, PinType
  <2>2. HonestSignOnce'
    BY <1>1 DEF with_validators, HonestSignOnce
  <2>3. \A d \in Clients : /\ pin'[d].trusted_height = pin[d].trusted_height
                           /\ pin'[d].trusted_root = pin[d].trusted_root
    BY <1>1 DEF with_validators, PinType
  <2>4. signed' = signed
    BY <1>1 DEF with_validators
  <2>5. PinsAreEndorsed'
    BY <2>3, <2>4, EndorsedStays DEF PinsAreEndorsed
  <2> QED BY <2>1, <2>2, <2>5
<1>2. ASSUME NEW c \in Clients, NEW k \in Checkpoint, NEW S \in SUBSET Validators,
             retarget(c, k, Offer(S, k))
      PROVE  ClientInv'
  <2>1. signed' = signed /\ pin[c].quorum \in Quorums
    BY <1>2 DEF retarget, PinType
  <2>2. Endorsed(k)
    BY <1>2, <2>1, QuorumEndorses DEF retarget
  <2>3. k.height \in 1..MaxHeight /\ k.root \in Roots
    BY DEF Checkpoint
  <2>4. PinType'
    BY <1>2, <2>1, <2>3 DEF retarget, PinType
  <2>5. HonestSignOnce'
    BY <2>1 DEF HonestSignOnce
  <2>6. ASSUME NEW d \in Clients, d # c
        PROVE  pin'[d] = pin[d]
    BY <1>2, <2>6 DEF retarget, PinType
  <2>7. pin'[c].trusted_height = k.height /\ pin'[c].trusted_root = k.root
    BY <1>2 DEF retarget, PinType
  <2>8. Endorsed(k)'
    BY <2>1, <2>2, EndorsedStays
  <2>9. PinsAreEndorsed'
    BY <2>1, <2>3, <2>6, <2>7, <2>8, EndorsedStays DEF PinsAreEndorsed
  <2> QED BY <2>4, <2>5, <2>9
<1>3. ASSUME NEW v \in Honest, NEW k \in Checkpoint, Sign(v, k)
      PROVE  ClientInv'
  <2>1. pin' = pin /\ signed' = signed \union {<<v, k>>}
    BY <1>3 DEF Sign
  <2>2. PinType'
    BY <2>1, ValidatorsAssumption DEF PinType
  <2>3. HonestSignOnce'
    BY <1>3, <2>1 DEF Sign, HonestSignOnce
  <2>4. PinsAreEndorsed'
    BY <2>1, EndorsedStays DEF PinsAreEndorsed
  <2> QED BY <2>2, <2>3, <2>4
<1>4. ASSUME ClockMoves \/ UNCHANGED clientVars
      PROVE  ClientInv'
  <2>1. pin' = pin /\ signed' = signed
    BY <1>4 DEF ClockMoves, clientVars
  <2> QED BY <2>1 DEF PinType, HonestSignOnce, PinsAreEndorsed, Endorsed
<1> QED BY <1>1, <1>2, <1>3, <1>4 DEF ClientNext

\* Two clients that pin the same height pin the same root (LightClient::retarget),
\* whatever the validators, the lists of signatures and the clocks.
THEOREM Agreement == ClientSpec => []ClientsAgree
<1>1. ASSUME ClientInv PROVE ClientsAgree
  <2> SUFFICES ASSUME NEW c \in Clients, NEW d \in Clients,
                      pin[c].trusted_height = pin[d].trusted_height
               PROVE  pin[c].trusted_root = pin[d].trusted_root
    BY DEF ClientsAgree
  <2>1. CASE pin[c].trusted_height = 0
    BY <1>1, <2>1 DEF ClientInv, PinsAreEndorsed
  <2>2. CASE pin[c].trusted_height # 0
    <3>1. PICK j \in Checkpoint : j.height = pin[c].trusted_height
                                  /\ j.root = pin[c].trusted_root /\ Endorsed(j)
      BY <1>1, <2>2 DEF ClientInv, PinsAreEndorsed
    <3>2. PICK k \in Checkpoint : k.height = pin[d].trusted_height
                                  /\ k.root = pin[d].trusted_root /\ Endorsed(k)
      BY <1>1, <2>2 DEF ClientInv, PinsAreEndorsed
    <3>3. j = k
      BY <1>1, <3>1, <3>2, OneCheckpointAHeight DEF ClientInv
    <3> QED BY <3>1, <3>2, <3>3
  <2> QED BY <2>1, <2>2
<1> QED BY <1>1, ClientInitEstablishes, ClientStepPreserves, PTL DEF ClientSpec
-----------------------------------------------------------------------------
(* A folded proof stands for one history, whatever was folded and taken over. *)

\* The public part of a proof after one more step.
PublicAfter(public, step) ==
    LET n == public.fold_count + 1
    IN  encode_folded_public(<<"fold", public.commitment, StepDigest(step), step.next, n>>,
                             <<"agg", public.step_digest, StepDigest(step), n>>, n)

\* What a proof shows after each of the entries of a history.
Trail(shown, h) ==
    /\ shown[1] = h[1]
    /\ \A k \in 2..Len(h) : shown[k] = PublicAfter(shown[k - 1], h[k])

IsStep(s) == s = [prev |-> s.prev, next |-> s.next, witness |-> s.witness]
IsStart(b) == (\E r : b = GenesisProof(r).public) \/ b \in Fabricated
IsHistory(h) == /\ Len(h) >= 1 /\ AnySeq(h)
                /\ IsStart(h[1])
                /\ \A k \in 2..Len(h) : IsStep(h[k])

\* The public bytes are what folding this history gives.
Comes(public, h) == IsHistory(h) /\ \E shown : Trail(shown, h) /\ public = shown[Len(h)]

Linked(h, from) ==
    \A k \in (from.after + 1)..Len(h) :
        h[k].prev = IF k = from.after + 1 THEN from.root ELSE h[k - 1].next

LastRoot(h, from) == IF Len(h) = from.after THEN from.root ELSE h[Len(h)].next

\* An accumulator carries the root that its own steps lead to.
Accumulates(a, h, from, root) ==
    /\ is_well_formed(a) /\ a.fold_count \in Nat
    /\ from.after \in 1..Len(h)
    /\ Linked(h, from)
    /\ a.claimed = LastRoot(h, from)
    /\ from.by = "genesis" => h[1] = GenesisProof(root).public /\ from.root = root /\ from.after = 1
    /\ a.fold_count = 0 => from.by = "genesis" /\ Len(h) = from.after

FoldInv ==
    /\ acc = [f \in Folders |-> acc[f]]
    /\ history = [f \in Folders |-> history[f]]
    /\ told = [f \in Folders |-> told[f]]
    /\ \A m \in made : Comes(m[1], m[2])
    /\ \A f \in Folders : /\ <<acc[f].public, history[f]>> \in made
                          /\ Accumulates(acc[f], history[f], told[f], genesis[f])

LEMMA HistoryLength ==
    ASSUME NEW h, IsHistory(h) PROVE Len(h) \in Nat /\ Len(h) >= 1 /\ DOMAIN h = 1..Len(h)
BY AnyLength DEF IsHistory

LEMMA AppendedStep ==
    ASSUME NEW h, NEW step, IsHistory(h), IsStep(step)
    PROVE  /\ IsHistory(Append(h, step)) /\ Len(Append(h, step)) = Len(h) + 1
           /\ \A k \in 1..Len(h) : Append(h, step)[k] = h[k]
           /\ Append(h, step)[Len(h) + 1] = step
<1> DEFINE n == Len(h)
           g == Append(h, step)
<1>1. n \in Nat /\ n >= 1
  BY HistoryLength
<1>2. AnySeq(g) /\ Len(g) = n + 1 /\ (\A k \in 1..n : g[k] = h[k]) /\ g[n + 1] = step
  BY <1>1, AnyAppended DEF IsHistory
<1>3. IsStart(h[1]) /\ \A k \in 2..n : IsStep(h[k])
  BY DEF IsHistory
<1> HIDE DEF n, g
<1>4. \A k \in 2..(n + 1) : IsStep(g[k])
  BY <1>1, <1>2, <1>3
<1>5. IsStart(g[1])
  BY <1>1, <1>2, <1>3
<1>6. IsHistory(g)
  BY <1>1, <1>2, <1>4, <1>5 DEF IsHistory
<1> QED BY <1>2, <1>6 DEF n, g

\* Bytes that are folded once more come of a history that is one step longer.
LEMMA ComesLonger ==
    ASSUME NEW public, NEW h, NEW step, Comes(public, h), IsStep(step)
    PROVE  Comes(PublicAfter(public, step), Append(h, step))
<1> DEFINE n == Len(h)
           g == Append(h, step)
<1>1. n \in Nat /\ n >= 1
  BY HistoryLength DEF Comes
<1>2. IsHistory(g) /\ Len(g) = n + 1 /\ (\A k \in 1..n : g[k] = h[k]) /\ g[n + 1] = step
  BY AppendedStep DEF Comes
<1>3. PICK shown : Trail(shown, h) /\ public = shown[n]
  BY DEF Comes
<1>4. shown[1] = h[1] /\ \A k \in 2..n : shown[k] = PublicAfter(shown[k - 1], h[k])
  BY <1>3 DEF Trail
<1> DEFINE last == PublicAfter(public, step)
           longer == [k \in 1..(n + 1) |-> IF k <= n THEN shown[k] ELSE last]
<1>5. (\A k \in 1..n : longer[k] = shown[k]) /\ longer[n + 1] = last
  BY <1>1
<1> HIDE DEF longer, n, g
<1>6. longer[1] = g[1]
  BY <1>1, <1>2, <1>4, <1>5
<1>7. ASSUME NEW k \in 2..(n + 1) PROVE longer[k] = PublicAfter(longer[k - 1], g[k])
  <2>1. CASE k \in 2..n
    <3>1. longer[k] = shown[k] /\ longer[k - 1] = shown[k - 1] /\ g[k] = h[k]
      BY <1>1, <1>2, <1>5, <2>1
    <3> QED BY <1>4, <2>1, <3>1
  <2>2. CASE k = n + 1
    BY <1>1, <1>2, <1>3, <1>5, <2>2
  <2> QED BY <1>1, <2>1, <2>2
<1>8. Trail(longer, g)
  BY <1>2, <1>6, <1>7 DEF Trail
<1>9. Comes(last, g)
  BY <1>2, <1>5, <1>8 DEF Comes
<1> QED BY <1>9 DEF g

\* One history runs through one trail.
LEMMA TrailIsFixed ==
    ASSUME NEW h, NEW p, NEW q, IsHistory(h), Trail(p, h), Trail(q, h)
    PROVE  p[Len(h)] = q[Len(h)]
<1> DEFINE n == Len(h)
           apart == {k \in 1..n : p[k] # q[k]}
<1>1. n \in Nat /\ n >= 1
  BY HistoryLength
<1>2. CASE apart # {}
  <2>1. apart \subseteq Nat
    BY <1>1
  <2> HIDE DEF apart
  <2>2. PICK k \in apart : \A l \in apart : k <= l
    BY <1>2, <2>1, LeastNumber
  <2>3. k \in 1..n /\ p[k] # q[k]
    BY <2>2 DEF apart
  <2>4. k # 1
    BY <2>3 DEF Trail
  <2>5. k - 1 \in 1..n /\ k \in 2..n /\ ~(k <= k - 1)
    BY <1>1, <2>3, <2>4
  <2>6. p[k - 1] = q[k - 1]
    BY <2>2, <2>5 DEF apart
  <2>7. p[k] = PublicAfter(p[k - 1], h[k]) /\ q[k] = PublicAfter(q[k - 1], h[k])
    BY <2>5 DEF Trail
  <2> QED BY <2>3, <2>6, <2>7
<1>3. CASE apart = {}
  <2>1. n \in 1..n
    BY <1>1
  <2> QED BY <1>3, <2>1
<1> QED BY <1>2, <1>3

\* What two proofs have in common when one cannot be told from the other by what
\* is folded on top of them.
Alike(p, q) == p.commitment = q.commitment /\ p.step_digest = q.step_digest

\* What a history may start with is told by its commitment, and was not folded.
LEMMA StartsApart ==
    ASSUME NEW b, IsStart(b)
    PROVE  /\ \A c : IsStart(c) /\ Alike(b, c) => b = c
           /\ \A p, s : ~Alike(b, PublicAfter(p, s))
<1>1. ASSUME NEW c, IsStart(c)
      PROVE  \/ \E r : c = encode_public(<<"proof", r, 0>>, <<"step", r>>, 0, 0)
             \/ \E n \in 1..MaxFolds : c = encode_public(<<"none", n>>, <<"none", n>>, n, 1)
  BY <1>1 DEF IsStart, GenesisProof, Fabricated
<1>2. ASSUME NEW c, IsStart(c), Alike(b, c) PROVE b = c
  <2>1. b.commitment = c.commitment
    BY <1>2 DEF Alike
  <2>2. CASE \E r : b = encode_public(<<"proof", r, 0>>, <<"step", r>>, 0, 0)
    <3>1. PICK r : b = encode_public(<<"proof", r, 0>>, <<"step", r>>, 0, 0)
      BY <2>2
    <3>2. b.commitment[1] = "proof"
      BY <3>1 DEF encode_public
    <3>3. CASE \E s : c = encode_public(<<"proof", s, 0>>, <<"step", s>>, 0, 0)
      <4>1. PICK s : c = encode_public(<<"proof", s, 0>>, <<"step", s>>, 0, 0)
        BY <3>3
      <4>2. <<"proof", r, 0>> = <<"proof", s, 0>>
        BY <2>1, <3>1, <4>1 DEF encode_public
      <4>3. r = s
        BY <4>2
      <4> QED BY <3>1, <4>1, <4>3
    <3>4. CASE \E n \in 1..MaxFolds : c = encode_public(<<"none", n>>, <<"none", n>>, n, 1)
      <4>1. c.commitment[1] = "none"
        BY <3>4 DEF encode_public
      <4> QED BY <2>1, <3>2, <4>1
    <3> QED BY <1>1, <1>2, <3>3, <3>4
  <2>3. CASE \E n \in 1..MaxFolds : b = encode_public(<<"none", n>>, <<"none", n>>, n, 1)
    <3>1. PICK n \in 1..MaxFolds : b = encode_public(<<"none", n>>, <<"none", n>>, n, 1)
      BY <2>3
    <3>2. b.commitment[1] = "none"
      BY <3>1 DEF encode_public
    <3>3. CASE \E s : c = encode_public(<<"proof", s, 0>>, <<"step", s>>, 0, 0)
      <4>1. c.commitment[1] = "proof"
        BY <3>3 DEF encode_public
      <4> QED BY <2>1, <3>2, <4>1
    <3>4. CASE \E m \in 1..MaxFolds : c = encode_public(<<"none", m>>, <<"none", m>>, m, 1)
      <4>1. PICK m \in 1..MaxFolds : c = encode_public(<<"none", m>>, <<"none", m>>, m, 1)
        BY <3>4
      <4>2. <<"none", n>> = <<"none", m>>
        BY <2>1, <3>1, <4>1 DEF encode_public
      <4>3. n = m
        BY <4>2
      <4> QED BY <3>1, <4>1, <4>3
    <3> QED BY <1>1, <1>2, <3>3, <3>4
  <2> QED BY <1>1, <2>2, <2>3
<1>3. ASSUME NEW p, NEW s, Alike(b, PublicAfter(p, s)) PROVE FALSE
  <2>1. b.commitment[1] = "fold"
    BY <1>3 DEF Alike, PublicAfter, encode_folded_public, encode_public
  <2>2. b.commitment[1] = "proof" \/ b.commitment[1] = "none"
    BY <1>1 DEF encode_public
  <2> QED BY <2>1, <2>2
<1> QED BY <1>2, <1>3

\* A folded proof unfolds into the proof before and the step in one way only.
LEMMA StepUnfolds ==
    ASSUME NEW p, NEW q, NEW s, NEW t, IsStep(s), IsStep(t),
           Alike(PublicAfter(p, s), PublicAfter(q, t))
    PROVE  s = t /\ Alike(p, q)
<1> DEFINE n == p.fold_count + 1
           m == q.fold_count + 1
<1>1. <<"fold", p.commitment, StepDigest(s), s.next, n>>
        = <<"fold", q.commitment, StepDigest(t), t.next, m>>
  BY DEF Alike, PublicAfter, encode_folded_public, encode_public
<1>2. <<"agg", p.step_digest, StepDigest(s), n>> = <<"agg", q.step_digest, StepDigest(t), m>>
  BY DEF Alike, PublicAfter, encode_folded_public, encode_public
<1> HIDE DEF n, m
<1>3. p.commitment = q.commitment /\ StepDigest(s) = StepDigest(t) /\ s.next = t.next
  BY <1>1
<1>4. p.step_digest = q.step_digest
  BY <1>2
<1>5. s.prev = t.prev /\ s.witness = t.witness
  BY <1>3 DEF StepDigest
<1>6. [prev |-> s.prev, next |-> s.next, witness |-> s.witness]
        = [prev |-> t.prev, next |-> t.next, witness |-> t.witness]
  BY <1>3, <1>5
<1>7. s = t
  BY <1>6, Zenon DEF IsStep
<1> QED BY <1>3, <1>4, <1>7 DEF Alike

\* The last j steps of two histories are the same.
SameEnd(h, g, j) == \A i \in 0..j : i < j => h[Len(h) - i] = g[Len(g) - i]

\* Trails that end alike are alike all the way back to where one of them starts.
LEMMA TrailsRunTogether ==
    ASSUME NEW h, NEW g, NEW p, NEW q, IsHistory(h), IsHistory(g), Trail(p, h), Trail(q, g),
           Alike(p[Len(h)], q[Len(g)]),
           NEW j \in Nat, j < Len(h), j < Len(g)
    PROVE  /\ Alike(p[Len(h) - j], q[Len(g) - j])
           /\ SameEnd(h, g, j)
<1> DEFINE n == Len(h)
           m == Len(g)
           apart == {i \in 0..j : ~Alike(p[n - i], q[m - i])}
<1>1. n \in Nat /\ n >= 1 /\ m \in Nat /\ m >= 1 /\ j < n /\ j < m
  BY HistoryLength
<1>2. ASSUME NEW i \in 0..j, i < j, Alike(p[n - i], q[m - i])
      PROVE  h[n - i] = g[m - i] /\ Alike(p[n - i - 1], q[m - i - 1])
  <2>1. n - i \in 2..n /\ m - i \in 2..m
    BY <1>1, <1>2
  <2> DEFINE k == n - i
             l == m - i
  <2> HIDE DEF k, l
  <2>2. p[k] = PublicAfter(p[k - 1], h[k]) /\ q[l] = PublicAfter(q[l - 1], g[l])
    BY <2>1 DEF Trail, k, l
  <2>3. IsStep(h[k]) /\ IsStep(g[l])
    BY <2>1 DEF IsHistory, k, l
  <2>4. Alike(PublicAfter(p[k - 1], h[k]), PublicAfter(q[l - 1], g[l]))
    BY <1>2, <2>2 DEF k, l
  <2>5. h[k] = g[l] /\ Alike(p[k - 1], q[l - 1])
    BY <2>3, <2>4, StepUnfolds
  <2> QED BY <2>5 DEF k, l
<1>3. apart = {}
  <2> SUFFICES ASSUME apart # {} PROVE FALSE
    OBVIOUS
  <2>1. apart \subseteq Nat
    OBVIOUS
  <2>2. 0 \notin apart
    BY <1>1
  <2> HIDE DEF apart
  <2>3. PICK i \in apart : \A l \in apart : i <= l
    BY <2>1, LeastNumber
  <2>4. i \in 0..j /\ ~Alike(p[n - i], q[m - i]) /\ i # 0
    BY <2>2, <2>3 DEF apart
  <2>5. i - 1 \in 0..j /\ ~(i <= i - 1) /\ i - 1 < j
    BY <2>4
  <2>6. Alike(p[n - (i - 1)], q[m - (i - 1)])
    BY <2>3, <2>5 DEF apart
  <2>7. n - (i - 1) - 1 = n - i /\ m - (i - 1) - 1 = m - i
    BY <1>1, <2>4
  <2> QED BY <1>2, <2>4, <2>5, <2>6, <2>7
<1>4. \A i \in 0..j : Alike(p[n - i], q[m - i])
  BY <1>3
<1> HIDE DEF apart, n, m
<1>5. j \in 0..j
  OBVIOUS
<1>6. \A i \in 0..j : i < j => h[n - i] = g[m - i]
  BY <1>2, <1>4
<1> QED BY <1>4, <1>5, <1>6 DEF n, m, SameEnd

\* Bytes come of one history only.
LEMMA BytesComeOfOne ==
    ASSUME NEW x, NEW y, NEW h, NEW g, Comes(x, h), Comes(y, g), x = y
    PROVE  h = g
<1> DEFINE n == Len(h)
           m == Len(g)
<1>1. PICK p : Trail(p, h) /\ x = p[n]
  BY DEF Comes
<1>2. PICK q : Trail(q, g) /\ y = q[m]
  BY DEF Comes
<1>3. IsHistory(h) /\ IsHistory(g) /\ n \in Nat /\ n >= 1 /\ m \in Nat /\ m >= 1
  BY HistoryLength DEF Comes
<1>4. Alike(p[n], q[m])
  BY <1>1, <1>2 DEF Alike
<1>5. IsStart(h[1]) /\ IsStart(g[1]) /\ p[1] = h[1] /\ q[1] = g[1]
  BY <1>1, <1>2, <1>3 DEF IsHistory, Trail
<1>6. ASSUME n < m PROVE FALSE
  <2>1. n - 1 \in Nat /\ n - 1 < n /\ n - 1 < m /\ n - (n - 1) = 1 /\ m - (n - 1) \in 2..m
    BY <1>3, <1>6
  <2> DEFINE l == m - (n - 1)
  <2>2. Alike(p[1], q[l])
    BY <1>1, <1>2, <1>3, <1>4, <2>1, TrailsRunTogether
  <2>3. q[l] = PublicAfter(q[l - 1], g[l])
    BY <1>2, <2>1 DEF Trail
  <2> HIDE DEF l
  <2> QED BY <1>5, <2>2, <2>3, StartsApart
<1>7. ASSUME m < n PROVE FALSE
  <2>1. m - 1 \in Nat /\ m - 1 < n /\ m - 1 < m /\ m - (m - 1) = 1 /\ n - (m - 1) \in 2..n
    BY <1>3, <1>7
  <2> DEFINE l == n - (m - 1)
  <2>2. Alike(p[l], q[1])
    BY <1>1, <1>2, <1>3, <1>4, <2>1, TrailsRunTogether
  <2>3. p[l] = PublicAfter(p[l - 1], h[l])
    BY <1>1, <2>1 DEF Trail
  <2> HIDE DEF l
  <2>4. Alike(q[1], PublicAfter(p[l - 1], h[l]))
    BY <2>2, <2>3 DEF Alike
  <2> QED BY <1>5, <2>4, StartsApart
<1>8. n = m
  BY <1>3, <1>6, <1>7
<1>9. n - 1 \in Nat /\ n - 1 < n /\ n - 1 < m /\ n - (n - 1) = 1 /\ m - (n - 1) = 1
  BY <1>3, <1>8
<1>10. /\ Alike(p[1], q[1])
       /\ \A i \in 0..(n - 1) : i < n - 1 => h[n - i] = g[m - i]
  <2> DEFINE j == n - 1
             k == n - j
             l == m - j
  <2>1. j \in Nat /\ j < Len(h) /\ j < Len(g)
    BY <1>9
  <2>2. k = 1 /\ l = 1
    BY <1>9
  <2> HIDE DEF j
  <2>3. Alike(p[k], q[l])
    BY <1>1, <1>2, <1>3, <1>4, <2>1, TrailsRunTogether
  <2>4. SameEnd(h, g, j)
    BY <1>1, <1>2, <1>3, <1>4, <2>1, TrailsRunTogether
  <2>5. \A i \in 0..j : i < j => h[n - i] = g[m - i]
    BY <2>4 DEF SameEnd
  <2> HIDE DEF k, l
  <2> QED BY <2>2, <2>3, <2>5 DEF j
<1>11. h[1] = g[1]
  BY <1>5, <1>10, StartsApart
<1>12. ASSUME NEW k \in 1..n PROVE h[k] = g[k]
  <2>1. CASE k = 1
    BY <1>11, <2>1
  <2>2. CASE k # 1
    <3>1. n - k \in 0..(n - 1) /\ n - k < n - 1 /\ n - (n - k) = k
      BY <1>3, <2>2
    <3>2. h[n - (n - k)] = g[m - (n - k)]
      BY <1>10, <3>1
    <3> QED BY <1>8, <3>1, <3>2
  <2> QED BY <2>1, <2>2
<1>13. PICK S : h \in Seq(S)
  BY <1>3 DEF IsHistory, AnySeq
<1>14. PICK T : g \in Seq(T)
  BY <1>3 DEF IsHistory, AnySeq
<1>15. h \in [1..n -> S] /\ g \in [1..n -> T]
  BY <1>8, <1>13, <1>14, LenProperties
<1> HIDE DEF n, m
<1>16. h = [k \in 1..n |-> h[k]] /\ g = [k \in 1..n |-> g[k]]
  BY <1>15
<1>17. [k \in 1..n |-> h[k]] = [k \in 1..n |-> g[k]]
  BY <1>12
<1> QED BY <1>16, <1>17, Zenon

\* A proof that was not folded comes of itself.
LEMMA StartComes == ASSUME NEW b, IsStart(b) PROVE Comes(b, <<b>>) /\ Len(<<b>>) = 1 /\ <<b>>[1] = b
<1> DEFINE h == <<b>>
<1>1. h \in Seq({b}) /\ Len(h) = 1 /\ h[1] = b
  OBVIOUS
<1> HIDE DEF h
<1>2. IsHistory(h)
  BY <1>1 DEF IsHistory, AnySeq
<1>3. Trail([k \in {1} |-> b], h)
  BY <1>1 DEF Trail
<1>4. \E shown : Trail(shown, h) /\ b = shown[Len(h)]
  BY <1>1, <1>3
<1>5. Comes(b, h) /\ Len(h) = 1 /\ h[1] = b
  BY <1>1, <1>2, <1>4 DEF Comes
<1> QED BY <1>5 DEF h

LEMMA InitAccumulates == ASSUME FoldInit PROVE FoldInv
<1>1. ASSUME NEW f \in Folders
      PROVE  /\ Comes(acc[f].public, history[f])
             /\ Accumulates(acc[f], history[f], told[f], genesis[f])
  <2> DEFINE r == genesis[f]
             a == GenesisProof(r)
             h == <<a.public>>
             from == [by |-> "genesis", root |-> r, after |-> 1]
  <2>1. acc[f] = a /\ history[f] = h /\ told[f] = from
    BY DEF FoldInit
  <2>2. IsStart(a.public)
    BY DEF IsStart
  <2> HIDE DEF r
  <2>3. a.claimed = r /\ a.fold_count = 0 /\ is_well_formed(a)
    BY DEF GenesisProof, is_well_formed, encode_public
  <2> HIDE DEF a
  <2>4. Comes(a.public, h) /\ Len(h) = 1 /\ h[1] = a.public
    BY <2>2, StartComes
  <2> HIDE DEF h
  <2>5. from.by = "genesis" /\ from.root = r /\ from.after = 1
    OBVIOUS
  <2> HIDE DEF from
  <2>6. Linked(h, from) /\ LastRoot(h, from) = r
    BY <2>4, <2>5 DEF Linked, LastRoot
  <2>7. Accumulates(a, h, from, r)
    BY <2>3, <2>4, <2>5, <2>6 DEF Accumulates, a
  <2> QED BY <2>1, <2>4, <2>7 DEF r
<1>2. ASSUME NEW m \in made PROVE Comes(m[1], m[2])
  <2>1. PICK f \in Folders : m = <<acc[f].public, history[f]>>
    BY DEF FoldInit
  <2>2. m[1] = acc[f].public /\ m[2] = history[f]
    BY <2>1
  <2> QED BY <1>1, <2>2
<1>3. \A f \in Folders : <<acc[f].public, history[f]>> \in made
  BY DEF FoldInit
<1>4. /\ acc = [f \in Folders |-> acc[f]] /\ history = [f \in Folders |-> history[f]]
      /\ told = [f \in Folders |-> told[f]]
  BY DEF FoldInit
<1> QED BY <1>1, <1>2, <1>3, <1>4 DEF FoldInv

\* A step that begins where the accumulator stands leaves it linked.
LEMMA FoldExtends ==
    ASSUME NEW a, NEW h, NEW from, NEW root, NEW step, IsHistory(h), Accumulates(a, h, from, root),
           IsStep(step), step.prev = a.claimed
    PROVE  /\ Accumulates(fold_proofs(a, step), Append(h, step), from, root)
           /\ fold_proofs(a, step).public = PublicAfter(a.public, step)
<1> DEFINE n == Len(h)
           g == Append(h, step)
           b == fold_proofs(a, step)
<1>1. n \in Nat /\ n >= 1
  BY HistoryLength
<1>2. Len(g) = n + 1 /\ (\A k \in 1..n : g[k] = h[k]) /\ g[n + 1] = step
  BY AppendedStep
<1>3. a.fold_count \in Nat /\ a.public.fold_count = a.fold_count /\ from.after \in 1..n
      /\ Linked(h, from) /\ a.claimed = LastRoot(h, from)
      /\ (from.by = "genesis" => h[1] = GenesisProof(root).public /\ from.root = root /\ from.after = 1)
  BY DEF Accumulates, is_well_formed
<1>4. /\ b.fold_count = a.fold_count + 1 /\ b.claimed = step.next
      /\ b.public = PublicAfter(a.public, step) /\ b.public.fold_count = a.fold_count + 1
  BY <1>3 DEF fold_proofs, PublicAfter, encode_folded_public, encode_public
<1> HIDE DEF n, g, b
<1>5. is_well_formed(b) /\ b.fold_count \in Nat /\ b.fold_count # 0
  BY <1>3, <1>4 DEF is_well_formed
<1> DEFINE from1 == from.after
<1>6. Linked(g, from)
  <2> SUFFICES ASSUME NEW k \in (from1 + 1)..(n + 1)
               PROVE  g[k].prev = IF k = from1 + 1 THEN from.root ELSE g[k - 1].next
    BY <1>2 DEF Linked
  <2>0. from1 \in 1..n
    BY <1>3
  <2> HIDE DEF from1
  <2>1. CASE k \in (from1 + 1)..n
    <3>1. g[k] = h[k] /\ (k # from1 + 1 => g[k - 1] = h[k - 1])
      BY <1>1, <1>2, <2>0, <2>1
    <3>2. h[k].prev = IF k = from1 + 1 THEN from.root ELSE h[k - 1].next
      BY <1>3, <2>1 DEF Linked, n, from1
    <3> QED BY <3>1, <3>2
  <2>2. CASE k = n + 1
    <3>1. g[k] = step /\ g[k - 1] = h[n]
      BY <1>1, <1>2, <2>2
    <3>2. step.prev = IF n = from1 THEN from.root ELSE h[n].next
      BY <1>3 DEF LastRoot, n, from1
    <3>3. k = from1 + 1 <=> n = from1
      BY <1>1, <2>0, <2>2
    <3> QED BY <3>1, <3>2, <3>3
  <2> QED BY <1>1, <2>0, <2>1, <2>2
<1>7. LastRoot(g, from) = step.next
  <2>1. Len(g) # from.after
    BY <1>1, <1>2, <1>3
  <2> QED BY <1>2, <2>1 DEF LastRoot
<1>8. from.after \in 1..Len(g) /\ g[1] = h[1]
  BY <1>1, <1>2, <1>3
<1>9. Accumulates(b, g, from, root)
  BY <1>3, <1>4, <1>5, <1>6, <1>7, <1>8 DEF Accumulates
<1> QED BY <1>4, <1>9 DEF b, g

LEMMA FoldedPreserves ==
    ASSUME FoldInv, NEW f \in Folders, NEW step, IsStep(step), step.prev = acc[f].claimed,
           Folded(f, step)
    PROVE  FoldInv'
<1> DEFINE a == fold_proofs(acc[f], step)
           h == Append(history[f], step)
<1>1. /\ acc' = [acc EXCEPT ![f] = a]
      /\ history' = [history EXCEPT ![f] = h]
      /\ made' = made \union {<<acc'[f].public, history'[f]>>}
      /\ genesis' = genesis /\ told' = told
  BY DEF Folded
<1>2. Comes(acc[f].public, history[f])
  <2> DEFINE x == acc[f].public
             g == history[f]
             m == <<x, g>>
  <2>1. m \in made
    BY DEF FoldInv
  <2> HIDE DEF x, g
  <2>2. m[1] = x /\ m[2] = g
    OBVIOUS
  <2> HIDE DEF m
  <2>3. Comes(m[1], m[2])
    BY <2>1 DEF FoldInv
  <2>4. Comes(x, g)
    BY <2>2, <2>3
  <2> QED BY <2>4 DEF x, g
<1>3. Accumulates(a, h, told[f], genesis[f]) /\ a.public = PublicAfter(acc[f].public, step)
  <2>1. IsHistory(history[f])
    BY <1>2 DEF Comes
  <2>2. Accumulates(acc[f], history[f], told[f], genesis[f])
    BY DEF FoldInv
  <2> QED BY <2>1, <2>2, FoldExtends
<1>4. Comes(a.public, h)
  BY <1>2, <1>3, ComesLonger
<1> HIDE DEF a, h
<1>5. /\ acc'[f] = a /\ history'[f] = h
      /\ \A g \in Folders \ {f} : acc'[g] = acc[g] /\ history'[g] = history[g]
      /\ acc' = [g \in Folders |-> acc'[g]] /\ history' = [g \in Folders |-> history'[g]]
      /\ told' = [g \in Folders |-> told'[g]]
  BY <1>1 DEF FoldInv
<1>6. ASSUME NEW m \in made' PROVE Comes(m[1], m[2])
  <2>1. CASE m \in made
    BY <2>1 DEF FoldInv
  <2>2. CASE m = <<a.public, h>>
    <3>1. m[1] = a.public /\ m[2] = h
      BY <2>2
    <3> QED BY <1>4, <3>1
  <2> QED BY <1>1, <1>5, <2>1, <2>2
<1>7. ASSUME NEW g \in Folders
      PROVE  <<acc'[g].public, history'[g]>> \in made'
             /\ Accumulates(acc'[g], history'[g], told'[g], genesis'[g])
  <2>1. CASE g = f
    BY <1>1, <1>3, <1>5, <2>1
  <2>2. CASE g # f
    BY <1>1, <1>5, <2>2 DEF FoldInv
  <2> QED BY <2>1, <2>2
<1> QED BY <1>5, <1>6, <1>7 DEF FoldInv, Accumulates, Comes

LEMMA AdoptPreserves ==
    ASSUME FoldInv, NEW f \in Folders, NEW proof \in Received, Adopt(f, proof)
    PROVE  FoldInv'
<1> DEFINE x == proof.public
           h == HistoryOf(x)
           from == [by |-> "caller", root |-> proof.claimed, after |-> Len(h)]
<1>1. /\ acc' = [acc EXCEPT ![f] = proof]
      /\ history' = [history EXCEPT ![f] = h]
      /\ told' = [told EXCEPT ![f] = from]
      /\ made' = made \union {<<x, h>>}
      /\ genesis' = genesis
      /\ is_well_formed(proof) /\ proof.fold_count > 1
  BY DEF Adopt
<1>2. proof.fold_count \in Nat /\ proof.fold_count # 0
  BY <1>1 DEF Received
<1>3. Comes(x, h)
  <2>1. CASE \E m \in made : m[1] = x
    <3> DEFINE c == CHOOSE m \in made : m[1] = x
    <3>1. c \in made /\ c[1] = x
      BY <2>1
    <3>2. h = c[2]
      BY <2>1 DEF HistoryOf
    <3> HIDE DEF c, h
    <3>3. Comes(c[1], c[2])
      BY <3>1 DEF FoldInv
    <3> QED BY <3>1, <3>2, <3>3
  <2>2. CASE ~\E m \in made : m[1] = x
    <3>1. x \in {from_step(s).public : s \in StepInstance} \union Fabricated
      BY <2>2 DEF Received
    <3>2. ASSUME NEW s \in StepInstance, x = from_step(s).public PROVE FALSE
      <4>1. x.fold_count = 1
        BY <3>2 DEF from_step, encode_public
      <4>2. x.fold_count = proof.fold_count
        BY <1>1 DEF is_well_formed
      <4> HIDE DEF x
      <4> QED BY <1>1, <1>2, <4>1, <4>2
    <3>3. IsStart(x)
      BY <3>1, <3>2 DEF IsStart
    <3>4. h = <<x>>
      BY <2>2 DEF HistoryOf
    <3> HIDE DEF h, x
    <3> QED BY <3>3, <3>4, StartComes
  <2> QED BY <2>1, <2>2
<1> HIDE DEF h
<1>4. Len(h) \in Nat /\ Len(h) >= 1
  BY <1>3, HistoryLength DEF Comes
<1>5. from.by = "caller" /\ from.root = proof.claimed /\ from.after = Len(h)
  OBVIOUS
<1> HIDE DEF from
<1>6. Linked(h, from) /\ LastRoot(h, from) = proof.claimed
  BY <1>4, <1>5 DEF Linked, LastRoot
<1>7. Accumulates(proof, h, from, genesis[f])
  BY <1>1, <1>2, <1>4, <1>5, <1>6 DEF Accumulates
<1>8. /\ acc'[f] = proof /\ history'[f] = h /\ told'[f] = from
      /\ \A g \in Folders \ {f} : acc'[g] = acc[g] /\ history'[g] = history[g] /\ told'[g] = told[g]
      /\ acc' = [g \in Folders |-> acc'[g]] /\ history' = [g \in Folders |-> history'[g]]
      /\ told' = [g \in Folders |-> told'[g]]
  BY <1>1 DEF FoldInv
<1>9. ASSUME NEW m \in made' PROVE Comes(m[1], m[2])
  <2>1. CASE m \in made
    BY <2>1 DEF FoldInv
  <2>2. CASE m = <<x, h>>
    <3>1. m[1] = x /\ m[2] = h
      BY <2>2
    <3> QED BY <1>3, <3>1
  <2> QED BY <1>1, <2>1, <2>2
<1>10. ASSUME NEW g \in Folders
       PROVE  <<acc'[g].public, history'[g]>> \in made'
              /\ Accumulates(acc'[g], history'[g], told'[g], genesis'[g])
  <2>1. CASE g = f
    BY <1>1, <1>7, <1>8, <2>1
  <2>2. CASE g # f
    BY <1>1, <1>8, <2>2 DEF FoldInv
  <2> QED BY <2>1, <2>2
<1> QED BY <1>8, <1>9, <1>10 DEF FoldInv, Accumulates, Comes

LEMMA FoldStepPreserves == ASSUME FoldInv, [FoldNext]_foldVars PROVE FoldInv'
<1>1. ASSUME NEW f \in Folders, NEW s \in StepInstance, fold_step(f, s) PROVE FoldInv'
  <2>1. IsStep(s)
    BY DEF StepInstance, IsStep
  <2> QED BY <1>1, <2>1, FoldedPreserves DEF fold_step, CanFold
<1>2. ASSUME NEW f \in Folders, NEW proof, FoldSnark(f, proof) PROVE FoldInv'
  <2> DEFINE step == StepOfProof(acc[f], proof)
  <2>1. IsStep(step) /\ step.prev = acc[f].claimed
    BY DEF StepOfProof, IsStep
  <2> QED BY <1>2, <2>1, FoldedPreserves DEF FoldSnark
<1>3. ASSUME NEW f \in Folders, NEW proof \in Received, Adopt(f, proof) PROVE FoldInv'
  BY <1>3, AdoptPreserves
<1>4. CASE UNCHANGED foldVars
  BY <1>4 DEF foldVars, FoldInv, Accumulates, Comes
<1> QED BY <1>1, <1>2, <1>3, <1>4 DEF FoldNext

\* Equal public bytes were folded of the same steps from the same start, whatever
\* was folded, taken over, held back or handed on with another root; and a folder
\* verifies for the one root that its own steps lead to from the root it was told
\* (AccumulatorSnarkFolder::fold, verify).
THEOREM ProofsFixHistory == FoldSpec => []PublicFixesHistory
<1>1. ASSUME FoldInv PROVE PublicFixesHistory
  <2>1. ASSUME NEW m \in made, NEW n \in made
        PROVE  m[1] = n[1] <=> m[2] = n[2]
    <3> DEFINE x == m[1]
               y == n[1]
               h == m[2]
               g == n[2]
    <3>1. Comes(x, h) /\ Comes(y, g)
      BY <1>1 DEF FoldInv
    <3> HIDE DEF x, y, h, g
    <3>2. ASSUME x = y PROVE h = g
      BY <3>1, <3>2, BytesComeOfOne
    <3>3. ASSUME h = g PROVE x = y
      <4>1. PICK p : Trail(p, h) /\ x = p[Len(h)]
        BY <3>1 DEF Comes
      <4>2. PICK q : Trail(q, h) /\ y = q[Len(h)]
        BY <3>1, <3>3 DEF Comes
      <4> QED BY <3>1, <4>1, <4>2, TrailIsFixed DEF Comes
    <3>4. x = y <=> h = g
      BY <3>2, <3>3
    <3> QED BY <3>4 DEF x, y, h, g
  <2>2. ASSUME NEW f \in Folders PROVE FolderIsLinked(f)
    <3> DEFINE a == acc[f]
               h == history[f]
               from == told[f]
    <3>1. <<a.public, h>> \in made /\ Accumulates(a, h, from, genesis[f])
      BY <1>1 DEF FoldInv
    <3>2. ReachedRoot(f) = LastRoot(h, from)
      BY DEF ReachedRoot, LastRoot
    <3>3. ASSUME NEW r \in StateRoots PROVE Verify(f, r) <=> r = LastRoot(h, from)
      <4> HIDE DEF a, h, from
      <4>1. is_well_formed(a) /\ a.fold_count >= 0 /\ a.claimed = LastRoot(h, from)
        BY <3>1 DEF Accumulates
      <4>2. a.fold_count = 0 => a.claimed = genesis[f]
        BY <3>1, <4>1 DEF Accumulates, LastRoot
      <4> QED BY <4>1, <4>2 DEF Verify, verify_folded_proof, a
    <3>4. /\ from.by = "genesis" => h[1] = GenesisProof(genesis[f]).public /\ from.root = genesis[f]
                                                                         /\ from.after = 1
          /\ Linked(h, from)
      <4> HIDE DEF a, h, from
      <4> QED BY <3>1 DEF Accumulates
    <3> QED BY <3>1, <3>2, <3>3, <3>4 DEF FolderIsLinked, Linked
  <2> QED BY <2>1, <2>2 DEF PublicFixesHistory, BytesFixHistory
<1> QED BY <1>1, InitAccumulates, FoldStepPreserves, PTL DEF FoldSpec

-----------------------------------------------------------------------------
(***************************************************************************)
(* The buffer.  What it accounts for is a sum of Sums over the keys it     *)
(* holds, and the queue is the keys, each once.                            *)
(***************************************************************************)
QueuedOnce(q) == q \in Seq(RingKeys) /\ \A i, j \in 1..Len(q) : q[i] = q[j] => i = j

Load(m) == [k \in DOMAIN m |-> KeyLen + m[k]]
Holds(m) == \A k \in DOMAIN m : m[k] \in Nat

\* The inductive invariant: with the count of entries as the length of the queue.
RingInv ==
    /\ Holds(map) /\ bytes = SizeOf(map, DOMAIN map)
    /\ QueuedOnce(order) /\ ToSet(order) = DOMAIN map
    /\ ~over_capacity(Len(order), bytes)
    /\ QueuedOnce(typed) /\ ~over_capacity(Len(typed), 0)

\* What RingAssumption says.
LEMMA RingSizes == KeyLen \in Nat /\ ValueLens \subseteq Nat /\ MaxEntries \in Nat /\ MaxBytes \in Nat
BY RingAssumption DEF RingAssumption

\* A queue is as long as the keys in it are many.
LEMMA QueueCounts ==
    ASSUME NEW q, QueuedOnce(q)
    PROVE  /\ Len(q) \in Nat /\ DOMAIN q = 1..Len(q)
           /\ \A i \in 1..Len(q) : q[i] \in RingKeys
           /\ IsFiniteSet(ToSet(q)) /\ Cardinality(ToSet(q)) = Len(q)
<1>1. Len(q) \in Nat /\ DOMAIN q = 1..Len(q) /\ \A i \in 1..Len(q) : q[i] \in RingKeys
  <2>1. q \in Seq(RingKeys)
    BY DEF QueuedOnce
  <2> QED  BY <2>1, LenProperties, ElementOfSeq
<1> DEFINE S == 1..Len(q)
           T == ToSet(q)
<1>2. q \in [S -> T] /\ \A x \in T : \E k \in S : q[k] = x
  <2>1. q = [i \in 1..Len(q) |-> q[i]]
    BY <1>1, LenProperties DEF QueuedOnce
  <2> QED  BY <1>1, <2>1 DEF ToSet
<1>3. \A k, l \in S : q[k] = q[l] => k = l
  BY DEF QueuedOnce
<1>4. IsFiniteSet(S) /\ Cardinality(S) = Len(q)
  <2> DEFINE l == Len(q)
  <2>1. l \in Nat /\ 1 \in Int /\ l \in Int
    BY <1>1
  <2> HIDE DEF l
  <2>2. IsFiniteSet(1..l) /\ Cardinality(1..l) = IF 1 > l THEN 0 ELSE l - 1 + 1
    BY <2>1, FS_Interval
  <2> QED  BY <2>1, <2>2 DEF l
<1> HIDE DEF S, T
<1>5. q \in Injection(S, T)
  BY <1>2, <1>3 DEF Injection, IsInjective
<1>6. q \in Surjection(S, T)
  BY <1>2 DEF Surjection
<1>7. ExistsBijection(S, T)
  BY <1>5, <1>6 DEF Bijection, ExistsBijection
<1>8. IsFiniteSet(T) /\ Cardinality(T) = Cardinality(S)
  BY <1>4, <1>7, FS_Bijection
<1> QED  BY <1>1, <1>4, <1>8 DEF T

\* What the keys of a buffer take is such a total.
LEMMA SizeIsTotal ==
    ASSUME NEW m, Holds(m), NEW keys \in SUBSET DOMAIN m, IsFiniteSet(keys)
    PROVE  SizeOf(m, keys) = Total(Load(m), keys) /\ SizeOf(m, keys) \in Nat
<1>1. \A k \in DOMAIN m : Load(m)[k] = KeyLen + m[k] /\ Load(m)[k] \in Nat
  BY RingSizes DEF Load, Holds
<1> DEFINE g == Load(m)
           Rec(f) == [s \in SUBSET keys |->
                IF s = {} THEN 0 ELSE (KeyLen + m[Picked(s)]) + f[s \ {Picked(s)}]]
           iter == CHOOSE f : f = Rec(f)
<1>2. SizeOf(m, keys) = iter[keys]
  BY DEF SizeOf, MapThenSumSet, MapThenFoldSet, Picked
<1>3. \A s \in SUBSET keys : s # {} => g[Picked(s)] = KeyLen + m[Picked(s)]
  BY <1>1, PickedIsIn
<1>4. \A f : Summing(f, g, keys) <=> f = Rec(f)
  BY <1>3 DEF Summing
<1>5. \E f : f = Rec(f)
  <2> HIDE DEF g
  <2> QED  BY <1>4, SummingExists
<1>6. Summing(iter, g, keys)
  BY <1>4, <1>5
<1> HIDE DEF iter, g
<1>7. iter[keys] = Total(g, keys)
  BY <1>6, SumIsTotal
<1>8. Total(g, keys) \in Nat
  BY <1>1, TotalIsNat DEF g
<1> QED  BY <1>2, <1>7, <1>8 DEF g

\* Keys that come in or move go to the back, once.
LEMMA PromotedKeeps ==
    ASSUME NEW q, QueuedOnce(q), NEW k \in RingKeys
    PROVE  /\ QueuedOnce(Promoted(q, k)) /\ ToSet(Promoted(q, k)) = ToSet(q) \union {k}
           /\ Len(Promoted(q, k)) = IF k \in ToSet(q) THEN Len(q) ELSE Len(q) + 1
<1> DEFINE n == Len(q)
           places == {i \in DOMAIN q : q[i] = k}
<1>1. n \in Nat /\ DOMAIN q = 1..n /\ \A i \in 1..n : q[i] \in RingKeys
  BY QueueCounts
<1>2. q \in Seq(RingKeys) /\ \A i, j \in 1..n : q[i] = q[j] => i = j
  BY DEF QueuedOnce
<1>3. PICK rest : /\ Promoted(q, k) = Append(rest, k)
                  /\ rest \in Seq(RingKeys)
                  /\ Len(rest) = IF k \in ToSet(q) THEN n - 1 ELSE n
                  /\ \A i, j \in 1..Len(rest) : rest[i] = rest[j] => i = j
                  /\ {rest[i] : i \in 1..Len(rest)} = ToSet(q) \ {k}
  <2>1. CASE places = {}
    <3>1. Promoted(q, k) = Append(q, k)
      BY <2>1 DEF Promoted
    <3>2. k \notin ToSet(q) /\ {q[i] : i \in 1..n} = ToSet(q)
      BY <1>1, <2>1 DEF ToSet
    <3> QED  BY <1>2, <3>1, <3>2
  <2>2. CASE places # {}
    <3>1. PICK i \in 1..n : q[i] = k
      BY <1>1, <2>2
    <3>2. places = {i}
      BY <1>1, <1>2, <3>1
    <3>3. Min(places) = i
      <4>1. {i} \subseteq Nat /\ {i} # {}
        BY <1>1
      <4> QED  BY <3>2, <4>1, MinIsLeast
    <3> DEFINE r == SubSeq(q, 1, i - 1) \o SubSeq(q, i + 1, Len(q))
    <3>4. Promoted(q, k) = Append(r, k)
      BY <2>2, <3>3 DEF Promoted, RemoveAt
    <3>5. r \in Seq(RingKeys) /\ Len(r) = n - 1 /\ \A j \in 1..Len(r) : r[j] = q[IF j < i THEN j ELSE j + 1]
      BY <1>2, <3>1, RemovedPlace
    <3> HIDE DEF r
    <3>6. \A a, b \in 1..Len(r) : r[a] = r[b] => a = b
      <4> SUFFICES ASSUME NEW a \in 1..Len(r), NEW b \in 1..Len(r), r[a] = r[b] PROVE a = b
        OBVIOUS
      <4> DEFINE x == IF a < i THEN a ELSE a + 1
                 y == IF b < i THEN b ELSE b + 1
      <4>1. x \in 1..n /\ y \in 1..n /\ (x = y => a = b)
        BY <1>1, <3>5
      <4>2. r[a] = q[x] /\ r[b] = q[y]
        BY <3>5
      <4> HIDE DEF x, y
      <4> QED  BY <1>2, <4>1, <4>2
    <3>7. k \in ToSet(q)
      BY <1>1, <3>1 DEF ToSet
    <3>8. {r[j] : j \in 1..Len(r)} = ToSet(q) \ {k}
      <4>1. ASSUME NEW j \in 1..Len(r) PROVE r[j] \in ToSet(q) \ {k}
        <5> DEFINE x == IF j < i THEN j ELSE j + 1
        <5>1. x \in 1..n /\ x # i /\ r[j] = q[x]
          BY <1>1, <3>5
        <5> HIDE DEF x
        <5> QED  BY <1>1, <1>2, <3>1, <5>1 DEF ToSet
      <4>2. ASSUME NEW o \in ToSet(q) \ {k} PROVE o \in {r[j] : j \in 1..Len(r)}
        <5>1. PICK x \in 1..n : q[x] = o
          BY <1>1 DEF ToSet
        <5>2. x # i
          BY <3>1, <5>1
        <5> DEFINE j == IF x < i THEN x ELSE x - 1
        <5>3. j \in 1..(n - 1) /\ (IF j < i THEN j ELSE j + 1) = x
          BY <1>1, <3>1, <5>2
        <5> HIDE DEF j
        <5>4. r[j] = o
          BY <3>5, <5>1, <5>3
        <5> QED  BY <3>5, <5>3, <5>4
      <4> QED  BY <4>1, <4>2
    <3> QED  BY <3>4, <3>5, <3>6, <3>7, <3>8
  <2> QED  BY <2>1, <2>2
<1> DEFINE p == Append(rest, k)
           l == Len(rest)
<1>4. /\ p \in Seq(RingKeys) /\ Len(p) = l + 1 /\ p[l + 1] = k
      /\ \A i \in 1..l : p[i] = rest[i]
  BY <1>3, AppendProperties
<1>5. l \in Nat /\ DOMAIN p = 1..(l + 1)
  BY <1>3, <1>4, LenProperties
<1>6. {p[i] : i \in 1..(l + 1)} = ToSet(q) \union {k}
  <2>1. 1..(l + 1) = 1..l \union {l + 1}
    BY <1>5
  <2>2. {p[i] : i \in 1..(l + 1)} = {p[i] : i \in 1..l} \union {p[l + 1]}
    BY <2>1
  <2>3. {p[i] : i \in 1..l} = {rest[i] : i \in 1..l}
    BY <1>4
  <2> QED  BY <1>3, <1>4, <2>2, <2>3
<1>7. \A i, j \in 1..(l + 1) : p[i] = p[j] => i = j
  <2>1. \A i \in 1..l : p[i] # k
    BY <1>3, <1>4
  <2>2. \A i, j \in 1..l : p[i] = p[j] => i = j
    BY <1>3, <1>4
  <2>3. \A i \in 1..(l + 1) : i \in 1..l \/ i = l + 1
    BY <1>5
  <2> HIDE DEF p
  <2> QED  BY <1>4, <2>1, <2>2, <2>3
<1>8. ToSet(p) = ToSet(q) \union {k}
  BY <1>5, <1>6 DEF ToSet
<1>9. l + 1 = IF k \in ToSet(q) THEN n ELSE n + 1
  <2>1. l \in Nat /\ n \in Nat /\ l = IF k \in ToSet(q) THEN n - 1 ELSE n
    BY <1>1, <1>3, <1>5
  <2> HIDE DEF p, l, n
  <2> QED  BY <2>1
<1> HIDE DEF p, l
<1> QED  BY <1>3, <1>4, <1>7, <1>8, <1>9 DEF QueuedOnce, p

\* The loop of retain.
LEMMA RetainedKeeps ==
    ASSUME NEW q, QueuedOnce(q), NEW k
    PROVE  QueuedOnce(Retained(q, k)) /\ ToSet(Retained(q, k)) = ToSet(q) \ {k}
<1> DEFINE n == Len(q)
           S == Seq(RingKeys)
           Kept(z, o) == IF o = k THEN z ELSE Append(z, o)
           step == [z \in S \X (1..n) |-> Kept(z[1], q[z[2]])]
           Rec(f) == [s \in SUBSET DOMAIN q |-> IF s = {} THEN << >> ELSE Kept(f[s \ {Max(s)}], q[Max(s)])]
           iter == CHOOSE f : f = Rec(f)
           g == [i \in 0..n |-> <<i, iter[1..i]>>]
           Good(z, i) == /\ z \in S /\ \A a, b \in 1..Len(z) : z[a] = z[b] => a = b
                         /\ \A o : (\E a \in 1..Len(z) : z[a] = o) <=> (o # k /\ \E b \in 1..i : q[b] = o)
           X == {y \in (0..n) \X S : Good(y[2], y[1])}
<1>1. n \in Nat /\ DOMAIN q = 1..n /\ \A i \in 1..n : q[i] \in RingKeys
  BY QueueCounts
<1>2. \A i, j \in 1..n : q[i] = q[j] => i = j
  BY DEF QueuedOnce
<1>3. Retained(q, k) = iter[DOMAIN q]
  BY DEF Retained, FoldLeft, MapThenFoldSet
<1>4. << >> \in S /\ Len(<< >>) = 0
  BY EmptySeq
<1> HIDE DEF n
<1>5. \A z \in S, i \in 1..n : Kept(z, q[i]) \in S
  BY <1>1, AppendProperties
<1>6. step \in [S \X (1..n) -> S] /\ \A z \in S, i \in 1..n : step[<<z, i>>] = Kept(z, q[i])
  BY <1>5
<1> HIDE DEF S, step
<1>7. \E f : f = Rec(f) /\ \A s \in SUBSET (1..n) : f[s] \in S
  <2>1. PICK f : Folding(f, step, << >>, n)
    BY <1>1, FoldingExists
  <2>2. \A s \in SUBSET (1..n) : f[s] \in S
    BY <1>1, <1>4, <1>6, <2>1, FoldingTyped
  <2>3. ASSUME NEW s \in SUBSET (1..n), s # {}
        PROVE  f[s] = Kept(f[s \ {Max(s)}], q[Max(s)])
    <3> DEFINE r == s \ {Max(s)}
    <3>1. n # 0
      <4>1. 1..0 = {}
        OBVIOUS
      <4> QED  BY <2>3, <4>1
    <3>2. r \in SUBSET (1..n) /\ Max(s) \in 1..n
      BY <1>1, <2>3, <3>1, WithoutTheLast
    <3> HIDE DEF r, Kept
    <3>3. f[s] = step[<<f[r], Max(s)>>]
      BY <2>1, <2>3 DEF Folding, r
    <3> QED  BY <1>6, <2>2, <3>2, <3>3 DEF r
  <2>4. f = Rec(f)
    <3> HIDE DEF Kept
    <3>1. f = [s \in SUBSET (1..n) |-> IF s = {} THEN << >> ELSE step[<<f[s \ {Max(s)}], Max(s)>>]]
      BY <2>1 DEF Folding
    <3>2. f = [s \in SUBSET (1..n) |-> f[s]]
      BY <3>1
    <3>3. {} \in SUBSET (1..n) /\ f[{}] = << >>
      BY <3>1
    <3> QED  BY <1>1, <2>3, <3>2, <3>3
  <2> QED  BY <2>2, <2>4
<1>8. iter = Rec(iter)
  BY <1>7
<1> HIDE DEF iter
<1>9. iter[{}] = << >> /\ \A i \in 1..n : iter[1..i] = Kept(iter[1..(i - 1)], q[i])
  <2>1. iter[{}] = << >>
    BY <1>1, <1>8
  <2>2. ASSUME NEW i \in 1..n PROVE iter[1..i] = Kept(iter[1..(i - 1)], q[i])
    <3>1. 1..i \in SUBSET (1..n) /\ 1..i # {} /\ i \in Nat /\ i # 0
      <4>1. i \in Nat /\ i # 0 /\ i \in 1..i /\ i <= n
        BY <1>1
      <4> QED  BY <1>1, <4>1
    <3>2. Max(1..i) = i /\ (1..i) \ {i} = 1..(i - 1)
      BY <3>1, LastOfPlaces
    <3> QED  BY <1>1, <1>8, <3>1, <3>2
  <2> QED  BY <2>1, <2>2
<1>10. g[0] \in X
  <2>1. 1..0 = {} /\ 0 \in 0..n /\ g[0] = <<0, << >> >>
    BY <1>1, <1>9
  <2> DEFINE e == << >>
  <2>2. e \in S /\ Len(e) = 0
    BY <1>4
  <2> HIDE DEF e
  <2>3. Good(e, 0)
    BY <2>1, <2>2
  <2> QED  BY <2>1, <2>2, <2>3 DEF e
<1>11. ASSUME NEW i \in 1..n, g[i - 1] \in X PROVE g[i] \in X
  <2> DEFINE z == iter[1..(i - 1)]
             y == iter[1..i]
  <2>1. i - 1 \in 0..n /\ i \in 0..n
    BY <1>1
  <2>2. Good(z, i - 1)
    <3>1. g[i - 1] = <<i - 1, z>>
      BY <2>1
    <3> HIDE DEF g, z, Good
    <3> QED  BY <1>11, <3>1
  <2>3. y = Kept(z, q[i])
    BY <1>9
  <2> HIDE DEF z, y
  <2>4. Good(y, i)
    <3>1. \A b : b \in 1..i <=> (b \in 1..(i - 1) \/ b = i)
      BY <1>1
    <3>2. CASE q[i] = k
      <4>1. y = z
        BY <2>3, <3>2
      <4>2. \A o : (o # k /\ \E b \in 1..i : q[b] = o) <=> (o # k /\ \E b \in 1..(i - 1) : q[b] = o)
        BY <3>1, <3>2
      <4> QED  BY <2>2, <4>1, <4>2
    <3>3. CASE q[i] # k
      <4> DEFINE l == Len(z)
      <4>1. z \in S /\ q[i] \in RingKeys /\ y = Append(z, q[i])
        BY <1>1, <2>2, <2>3, <3>3
      <4>2. l \in Nat
        BY <4>1, LenProperties DEF S
      <4>3. y \in S /\ Len(y) = l + 1 /\ y[l + 1] = q[i] /\ \A a \in 1..l : y[a] = z[a]
        BY <4>1, AppendProperties DEF S
      <4> HIDE DEF l
      <4>4. \A a : a \in 1..(l + 1) <=> (a \in 1..l \/ a = l + 1)
        BY <4>2
      <4>5. \A a \in 1..l : y[a] # q[i]
        <5> SUFFICES ASSUME NEW a \in 1..l, y[a] = q[i] PROVE FALSE
          OBVIOUS
        <5>1. PICK b \in 1..(i - 1) : q[b] = z[a]
          BY <2>2 DEF l
        <5>2. b \in 1..n /\ b # i
          BY <1>1
        <5> QED  BY <1>2, <4>3, <5>1, <5>2
      <4>6. \A a, b \in 1..(l + 1) : y[a] = y[b] => a = b
        <5>1. \A a, b \in 1..l : z[a] = z[b] => a = b
          BY <2>2 DEF l
        <5> QED  BY <4>3, <4>4, <4>5, <5>1
      <4>7. ASSUME NEW o PROVE (\E a \in 1..(l + 1) : y[a] = o) <=> (o # k /\ \E b \in 1..i : q[b] = o)
        <5>1. (\E a \in 1..l : z[a] = o) <=> (o # k /\ \E b \in 1..(i - 1) : q[b] = o)
          BY <2>2 DEF l
        <5>2. (\E a \in 1..(l + 1) : y[a] = o) <=> ((\E a \in 1..l : z[a] = o) \/ q[i] = o)
          BY <4>3, <4>4
        <5>3. (\E b \in 1..i : q[b] = o) <=> ((\E b \in 1..(i - 1) : q[b] = o) \/ q[i] = o)
          BY <3>1
        <5> QED  BY <3>3, <5>1, <5>2, <5>3
      <4> QED  BY <4>3, <4>6, <4>7
    <3> QED  BY <3>2, <3>3
  <2> QED  BY <2>1, <2>4 DEF y
<1>12. g[n] \in X
  <2> HIDE DEF g, X
  <2>1. \A i \in 0..n : g[i] \in X
    BY <1>1, <1>10, <1>11, StepByStep
  <2> QED  BY <1>1, <2>1
<1>13. Good(iter[1..n], n)
  <2>1. n \in 0..n /\ g[n] = <<n, iter[1..n]>>
    BY <1>1
  <2> HIDE DEF g, Good
  <2> QED  BY <1>12, <2>1
<1> DEFINE z == iter[1..n]
<1>14. Retained(q, k) = z
  BY <1>1, <1>3
<1> HIDE DEF z
<1>15. Good(z, n)
  BY <1>13 DEF z
<1>16. DOMAIN z = 1..Len(z)
  BY <1>15, LenProperties DEF S
<1>17. ToSet(z) = ToSet(q) \ {k}
  <2>1. \A o : o \in ToSet(z) <=> \E a \in 1..Len(z) : z[a] = o
    BY <1>16 DEF ToSet
  <2>2. \A o : o \in ToSet(q) <=> \E b \in 1..n : q[b] = o
    BY <1>1 DEF ToSet
  <2> QED  BY <1>15, <2>1, <2>2
<1> QED  BY <1>14, <1>15, <1>17 DEF QueuedOnce, S

\* An empty queue.
LEMMA EmptyQueue == QueuedOnce(<< >>) /\ ToSet(<< >>) = {} /\ Len(<< >>) = 0
<1> DEFINE e == << >>
<1>1. e \in Seq(RingKeys) /\ Len(e) = 0 /\ DOMAIN e = 1..Len(e) /\ 1..0 = {}
  BY EmptySeq, LenProperties
<1> HIDE DEF e
<1>2. QueuedOnce(e) /\ ToSet(e) = {} /\ Len(e) = 0
  BY <1>1 DEF QueuedOnce, ToSet
<1> QED  BY <1>2 DEF e

\* A queue cut in two.
LEMMA CutQueue ==
    ASSUME NEW q, QueuedOnce(q), NEW n \in 0..Len(q)
    PROVE  LET gone == SubSeq(q, 1, n)
               rest == SubSeq(q, n + 1, Len(q))
           IN  /\ ToSet(gone) \subseteq ToSet(q)
               /\ QueuedOnce(rest) /\ Len(rest) = Len(q) - n
               /\ ToSet(rest) = ToSet(q) \ ToSet(gone)
<1> DEFINE l == Len(q)
           gone == SubSeq(q, 1, n)
           rest == SubSeq(q, n + 1, l)
<1>1. l \in Nat /\ DOMAIN q = 1..l /\ \A i \in 1..l : q[i] \in RingKeys
  BY QueueCounts
<1>2. q \in Seq(RingKeys) /\ \A i, j \in 1..l : q[i] = q[j] => i = j
  BY DEF QueuedOnce
<1>3. n \in Nat /\ n <= l
  BY <1>1
<1>4. gone \in Seq(RingKeys) /\ Len(gone) = n /\ \A i \in 1..n : gone[i] = q[i]
  <2>1. \A i \in 1..n : q[i] \in RingKeys
    BY <1>1, <1>3
  <2>2. /\ SubSeq(q, 1, n) \in Seq(RingKeys)
        /\ Len(SubSeq(q, 1, n)) = IF 1 <= n THEN n - 1 + 1 ELSE 0
        /\ \A i \in 1..(n - 1 + 1) : SubSeq(q, 1, n)[i] = q[1 + i - 1]
    BY <1>3, <2>1, SubSeqProperties
  <2> HIDE DEF l
  <2> QED  BY <1>3, <2>2
<1>5. rest \in Seq(RingKeys) /\ Len(rest) = l - n /\ \A i \in 1..(l - n) : rest[i] = q[n + i]
  <2>1. \A i \in (n + 1)..l : q[i] \in RingKeys
    BY <1>1, <1>3
  <2>2. n + 1 \in Int /\ l \in Int
    BY <1>1, <1>3
  <2>3. /\ SubSeq(q, n + 1, l) \in Seq(RingKeys)
        /\ Len(SubSeq(q, n + 1, l)) = IF n + 1 <= l THEN l - (n + 1) + 1 ELSE 0
        /\ \A i \in 1..(l - (n + 1) + 1) : SubSeq(q, n + 1, l)[i] = q[n + 1 + i - 1]
    <3> HIDE DEF l
    <3> QED  BY <2>1, <2>2, SubSeqProperties
  <2> HIDE DEF l
  <2> QED  BY <1>1, <1>3, <2>3
<1> HIDE DEF gone, rest
<1>6. DOMAIN gone = 1..n /\ DOMAIN rest = 1..(l - n)
  BY <1>4, <1>5, LenProperties
<1>7. /\ \A o : o \in ToSet(gone) <=> \E i \in 1..n : q[i] = o
      /\ \A o : o \in ToSet(rest) <=> \E i \in 1..(l - n) : q[n + i] = o
      /\ \A o : o \in ToSet(q) <=> \E i \in 1..l : q[i] = o
  <2>1. \A o : o \in ToSet(gone) <=> \E i \in 1..n : q[i] = o
    BY <1>4, <1>6 DEF ToSet
  <2>2. \A o : o \in ToSet(rest) <=> \E i \in 1..(l - n) : q[n + i] = o
    BY <1>5, <1>6 DEF ToSet
  <2>3. \A o : o \in ToSet(q) <=> \E i \in 1..l : q[i] = o
    BY <1>1 DEF ToSet
  <2> QED  BY <2>1, <2>2, <2>3
<1> HIDE DEF l
<1>8. /\ \A i \in 1..n : i \in 1..l /\ \A j \in 1..(l - n) : i # n + j
      /\ \A j \in 1..(l - n) : n + j \in 1..l
      /\ \A i \in 1..l : i \in 1..n \/ (i - n \in 1..(l - n) /\ n + (i - n) = i)
      /\ \A i, j \in 1..(l - n) : n + i = n + j => i = j
  BY <1>1, <1>3
<1>9. ToSet(gone) \subseteq ToSet(q)
  BY <1>7, <1>8
<1>10. ToSet(rest) = ToSet(q) \ ToSet(gone)
  <2>1. ASSUME NEW o \in ToSet(rest) PROVE o \in ToSet(q) \ ToSet(gone)
    <3>1. PICK j \in 1..(l - n) : q[n + j] = o
      BY <1>7
    <3>2. n + j \in 1..l /\ \A i \in 1..n : q[i] # o
      BY <1>2, <1>8, <3>1 DEF l
    <3> QED  BY <1>7, <3>1, <3>2
  <2>2. ASSUME NEW o \in ToSet(q) \ ToSet(gone) PROVE o \in ToSet(rest)
    <3>1. PICK i \in 1..l : q[i] = o
      BY <1>7
    <3>2. i - n \in 1..(l - n) /\ n + (i - n) = i
      BY <1>7, <1>8, <2>2, <3>1
    <3> QED  BY <1>7, <3>1, <3>2
  <2> QED  BY <2>1, <2>2
<1>11. QueuedOnce(rest)
  <2> SUFFICES ASSUME NEW i \in 1..(l - n), NEW j \in 1..(l - n), rest[i] = rest[j] PROVE i = j
    BY <1>5 DEF QueuedOnce
  <2>1. n + i \in 1..l /\ n + j \in 1..l /\ q[n + i] = q[n + j]
    BY <1>5, <1>8
  <2> QED  BY <1>2, <1>8, <2>1 DEF l
<1> QED  BY <1>5, <1>9, <1>10, <1>11 DEF gone, rest, l

\* Eviction, from an account that is true but may be over the bounds.
LEMMA EvictionKeeps ==
    ASSUME NEW m, Holds(m), NEW q, QueuedOnce(q), ToSet(q) = DOMAIN m, NEW size,
           size = SizeOf(m, DOMAIN m), evict_if_needed(m, q, size)
    PROVE  /\ Holds(map') /\ bytes' = SizeOf(map', DOMAIN map')
           /\ QueuedOnce(order') /\ ToSet(order') = DOMAIN map'
           /\ ~over_capacity(Len(order'), bytes')
<1> DEFINE fits(c) == LET gone == ToSet(SubSeq(q, 1, c))
                      IN  ~over_capacity(Cardinality(DOMAIN m \ gone), Monus(size, SizeOf(m, gone)))
           places == {c \in 0..Len(q) : c = Len(q) \/ fits(c)}
           n == Evicted(m, q, size)
           out == ToSet(SubSeq(q, 1, n))
           rest == DOMAIN m \ out
           keep == [k \in rest |-> m[k]]
<1>1. Len(q) \in Nat /\ IsFiniteSet(DOMAIN m)
  BY QueueCounts
<1>2. n \in 0..Len(q) /\ (n = Len(q) \/ fits(n))
  <2>1. n = Min(places)
    BY DEF Evicted
  <2>2. places \subseteq Nat /\ places # {}
    BY <1>1
  <2> HIDE DEF places
  <2>3. n \in places
    BY <2>1, <2>2, MinIsLeast
  <2> QED  BY <2>3 DEF places
<1>3. map' = keep /\ order' = SubSeq(q, n + 1, Len(q)) /\ bytes' = Monus(size, SizeOf(m, out))
  BY DEF evict_if_needed
<1> HIDE DEF n
<1>4. /\ out \subseteq DOMAIN m /\ QueuedOnce(order') /\ Len(order') = Len(q) - n
      /\ ToSet(order') = rest
  BY <1>2, <1>3, CutQueue
<1>5. DOMAIN keep = rest /\ Holds(keep) /\ IsFiniteSet(rest) /\ IsFiniteSet(out)
  BY <1>1, <1>4, FS_Subset DEF Holds
<1>6. SizeOf(m, DOMAIN m) = SizeOf(m, out) + SizeOf(m, rest)
  <2>1. \A k \in DOMAIN m : Load(m)[k] \in Nat
    BY RingSizes DEF Load, Holds
  <2>2. out \in SUBSET DOMAIN m /\ rest \in SUBSET DOMAIN m
    BY <1>4
  <2>3. Total(Load(m), DOMAIN m) = Total(Load(m), out) + Total(Load(m), rest)
    BY <1>1, <2>1, <2>2, TotalSplits
  <2>4. SizeOf(m, DOMAIN m) = Total(Load(m), DOMAIN m)
    BY <1>1, SizeIsTotal
  <2>5. SizeOf(m, out) = Total(Load(m), out) /\ SizeOf(m, rest) = Total(Load(m), rest)
    BY <1>5, <2>2, SizeIsTotal
  <2> QED  BY <2>3, <2>4, <2>5
<1>7. SizeOf(m, out) \in Nat /\ SizeOf(m, rest) \in Nat
  BY <1>4, <1>5, SizeIsTotal
<1>8. SizeOf(keep, rest) = SizeOf(m, rest)
  <2>1. \A k \in rest : Load(m)[k] = Load(keep)[k]
    BY DEF Load
  <2>2. SizeOf(keep, rest) = Total(Load(keep), rest)
    BY <1>5, SizeIsTotal
  <2>3. SizeOf(m, rest) = Total(Load(m), rest)
    BY <1>5, SizeIsTotal
  <2> QED  BY <1>5, <2>1, <2>2, <2>3, TotalsAgree
<1>9. bytes' = SizeOf(m, rest)
  <2> DEFINE a == SizeOf(m, out)
             b == SizeOf(m, rest)
  <2>1. bytes' = Monus(size, a) /\ size = a + b /\ a \in Nat /\ b \in Nat
    BY <1>3, <1>6, <1>7
  <2> HIDE DEF a, b
  <2> QED  BY <2>1 DEF Monus, b
<1>10. ~over_capacity(Len(order'), bytes')
  <2>1. Cardinality(rest) = Len(order')
    BY <1>4, QueueCounts
  <2>2. CASE fits(n)
    BY <1>3, <2>1, <2>2
  <2>3. CASE n = Len(q)
    <3>1. Len(order') = 0 /\ rest = {}
      <4>1. Len(order') = 0
        BY <1>1, <1>4, <2>3
      <4>2. DOMAIN order' = {}
        <5>1. DOMAIN order' = 1..Len(order') /\ 1..0 = {}
          BY <1>4, QueueCounts
        <5> QED  BY <4>1, <5>1
      <4> QED  BY <1>4, <4>1, <4>2 DEF ToSet
    <3>2. bytes' = 0
      <4>1. SizeOf(m, rest) = Total(Load(m), rest)
        BY <1>5, SizeIsTotal
      <4>2. Total(Load(m), rest) = 0
        BY <1>5, <3>1, TotalOfZeros
      <4> QED  BY <1>9, <4>1, <4>2
    <3> QED  BY <3>1, <3>2, RingSizes DEF over_capacity
  <2> QED  BY <1>2, <2>2, <2>3
<1> QED  BY <1>3, <1>4, <1>5, <1>8, <1>9, <1>10

\* An entry that is put in, over an old one or not.
LEMMA PutAccount ==
    ASSUME RingInv, NEW k \in RingKeys, NEW v \in Nat
    PROVE  LET m == Inserted(map, k, v)
           IN  /\ Holds(m) /\ DOMAIN m = DOMAIN map \union {k}
               /\ SizeOf(m, DOMAIN m) = (IF k \in DOMAIN map THEN Monus(bytes, KeyLen + map[k]) ELSE bytes)
                                            + KeyLen + v
<1> DEFINE m == Inserted(map, k, v)
           D == DOMAIN map
           E == D \union {k}
           R == D \ {k}
<1>1. IsFiniteSet(D) /\ bytes = SizeOf(map, D) /\ Holds(map)
  BY QueueCounts DEF RingInv
<1>2. DOMAIN m = E /\ Holds(m) /\ m[k] = v /\ \A j \in R : m[j] = map[j]
  BY <1>1 DEF Inserted, Holds
<1>3. IsFiniteSet(E) /\ IsFiniteSet(R) /\ E \ {k} = R
  BY <1>1, FS_AddElement, FS_RemoveElement
<1> HIDE DEF m
<1>4. /\ SizeOf(m, E) = Total(Load(m), E) /\ SizeOf(map, D) = Total(Load(map), D)
      /\ SizeOf(map, R) = Total(Load(map), R) /\ SizeOf(map, R) \in Nat
  BY <1>1, <1>2, <1>3, SizeIsTotal
<1>5. /\ \A j \in E : Load(m)[j] \in Nat /\ Load(m)[k] = KeyLen + v
      /\ \A j \in D : Load(map)[j] \in Nat /\ Load(map)[j] = KeyLen + map[j]
      /\ \A j \in R : Load(map)[j] = Load(m)[j]
  BY <1>1, <1>2, RingSizes DEF Load, Holds
<1>6. Total(Load(m), E) = KeyLen + v + Total(Load(m), R)
  <2>1. Counting(Load(m), E) /\ k \in E
    BY <1>5 DEF Counting
  <2> QED  BY <1>3, <1>5, <2>1, TotalTakesOut
<1>7. Total(Load(m), R) = Total(Load(map), R)
  BY <1>3, <1>5, TotalsAgree
<1>8. CASE k \in D
  <2>1. Counting(Load(map), D)
    BY <1>5 DEF Counting
  <2>2. Total(Load(map), D) = (KeyLen + map[k]) + Total(Load(map), R)
    BY <1>1, <1>5, <1>8, <2>1, TotalTakesOut
  <2> DEFINE a == Total(Load(map), R)
             b == KeyLen + map[k]
  <2>3. a \in Nat /\ b \in Nat /\ bytes = b + a /\ SizeOf(m, E) = KeyLen + v + a
    BY <1>1, <1>4, <1>5, <1>6, <1>7, <1>8, <2>2
  <2> HIDE DEF a, b
  <2>4. Monus(bytes, b) = a
    BY <2>3 DEF Monus
  <2>5. SizeOf(m, E) = Monus(bytes, b) + KeyLen + v
    BY <2>3, <2>4, RingSizes
  <2> QED  BY <1>2, <1>8, <2>5 DEF b, m
<1>9. CASE k \notin D
  <2>1. R = D
    BY <1>9
  <2>2. SizeOf(m, E) = bytes + KeyLen + v
    BY <1>1, <1>4, <1>6, <1>7, <2>1, RingSizes
  <2> QED  BY <1>2, <1>9, <2>2 DEF m
<1> QED  BY <1>8, <1>9

\* Every step of the buffer keeps its account.
LEMMA RingStep == RingInv /\ [RingNext]_ringVars => RingInv'
<1> SUFFICES ASSUME RingInv, [RingNext]_ringVars PROVE RingInv'
  OBVIOUS
<1>1. CASE UNCHANGED ringVars
  BY <1>1 DEF RingInv, ringVars
<1>2. ASSUME NEW k \in RingKeys, UNCHANGED typed, get(k) PROVE RingInv'
  <2>1. QueuedOnce(order') /\ ToSet(order') = ToSet(order) \union {k} /\ k \in ToSet(order)
        /\ Len(order') = Len(order)
    BY <1>2, PromotedKeeps DEF get, RingInv
  <2> QED  BY <1>2, <2>1 DEF get, RingInv
<1>3. ASSUME NEW k \in RingKeys, UNCHANGED typed, remove(k) PROVE RingInv'
  <2> DEFINE D == DOMAIN map
             R == D \ {k}
  <2>1. k \in D /\ map' = [j \in R |-> map[j]] /\ order' = Retained(order, k)
        /\ bytes' = Monus(bytes, KeyLen + map[k])
    BY <1>3 DEF remove
  <2>2. IsFiniteSet(D) /\ bytes = SizeOf(map, D) /\ Holds(map) /\ QueuedOnce(order)
        /\ ToSet(order) = D /\ Cardinality(D) = Len(order) /\ Len(order) \in Nat
    BY QueueCounts DEF RingInv
  <2>3. QueuedOnce(order') /\ ToSet(order') = R
    BY <2>1, <2>2, RetainedKeeps
  <2>4. Cardinality(R) = Len(order') /\ IsFiniteSet(R) /\ Len(order') \in Nat
    BY <2>3, QueueCounts
  <2>5. Len(order') = Len(order) - 1
    BY <2>1, <2>2, <2>4, FS_RemoveElement
  <2>6. DOMAIN map' = R /\ Holds(map') /\ \A j \in R : map'[j] = map[j]
    BY <2>1, <2>2 DEF Holds
  <2>7. Counting(Load(map), D) /\ Load(map)[k] = KeyLen + map[k] /\ Load(map)[k] \in Nat
    BY <2>1, <2>2, RingSizes DEF Load, Holds, Counting
  <2>8. Total(Load(map), D) = Load(map)[k] + Total(Load(map), R)
    BY <2>1, <2>2, <2>7, TotalTakesOut
  <2>9. SizeOf(map, D) = Total(Load(map), D) /\ SizeOf(map, R) = Total(Load(map), R)
        /\ SizeOf(map, R) \in Nat
    BY <2>2, <2>4, SizeIsTotal
  <2>10. SizeOf(map', R) = Total(Load(map'), R)
    BY <2>4, <2>6, SizeIsTotal
  <2>11. Total(Load(map'), R) = Total(Load(map), R)
    <3>1. \A j \in R : Load(map)[j] = Load(map')[j]
      BY <2>6 DEF Load
    <3> QED  BY <2>4, <3>1, TotalsAgree
  <2>12. bytes' = SizeOf(map', R) /\ bytes' <= bytes
    <3> DEFINE a == SizeOf(map, R)
               b == KeyLen + map[k]
    <3>1. a \in Nat /\ b \in Nat /\ bytes = b + a /\ bytes' = Monus(bytes, b) /\ SizeOf(map', R) = a
      BY <2>1, <2>2, <2>7, <2>8, <2>9, <2>10, <2>11
    <3> HIDE DEF a, b
    <3> QED  BY <3>1 DEF Monus
  <2>13. ~over_capacity(Len(order'), bytes')
    <3>1. bytes' \in Nat /\ bytes \in Nat
      <4>1. bytes' \in Nat
        BY <2>9, <2>10, <2>11, <2>12
      <4> QED  BY <2>2, <4>1, SizeIsTotal
    <3>2. ~over_capacity(Len(order), bytes)
      BY DEF RingInv
    <3> QED  BY <2>2, <2>5, <2>12, <3>1, <3>2, RingSizes DEF over_capacity
  <2> QED  BY <1>3, <2>3, <2>6, <2>12, <2>13 DEF RingInv
<1>4. ASSUME NEW k \in RingKeys, UNCHANGED typed, NEW v \in ValueLens, put(k, v) PROVE RingInv'
  <2> DEFINE m == Inserted(map, k, v)
             q == Promoted(order, k)
             size == (IF k \in DOMAIN map THEN Monus(bytes, KeyLen + map[k]) ELSE bytes) + KeyLen + v
  <2>1. evict_if_needed(m, q, size)
    BY <1>4 DEF put
  <2>2. v \in Nat
    BY RingSizes
  <2>3. Holds(m) /\ DOMAIN m = DOMAIN map \union {k} /\ size = SizeOf(m, DOMAIN m)
    BY <2>2, PutAccount
  <2>4. QueuedOnce(q) /\ ToSet(q) = DOMAIN m
    BY <2>3, PromotedKeeps DEF RingInv
  <2> HIDE DEF m, q, size
  <2>5. /\ Holds(map') /\ bytes' = SizeOf(map', DOMAIN map')
        /\ QueuedOnce(order') /\ ToSet(order') = DOMAIN map'
        /\ ~over_capacity(Len(order'), bytes')
    BY <2>1, <2>3, <2>4, EvictionKeeps
  <2> QED  BY <1>4, <2>5 DEF RingInv
<1>5. ASSUME NEW k \in RingKeys, UNCHANGED <<map, order, bytes>>, TypedPut(k) PROVE RingInv'
  <2> DEFINE q == Promoted(typed, k)
             l == Len(q)
  <2>1. QueuedOnce(typed) /\ ~over_capacity(Len(typed), 0)
    BY DEF RingInv
  <2>2. QueuedOnce(q) /\ (l = Len(typed) \/ l = Len(typed) + 1) /\ Len(typed) \in Nat
    BY <2>1, PromotedKeeps, QueueCounts
  <2>3. typed' = IF MaxEntries > 0 /\ l > MaxEntries THEN Tail(q) ELSE q
    BY <1>5 DEF TypedPut
  <2> HIDE DEF q
  <2>4. CASE MaxEntries > 0 /\ l > MaxEntries
    <3>1. l \in Nat /\ l >= 1 /\ l - 1 <= Len(typed)
      BY <2>2, <2>4, RingSizes
    <3>2. q \in Seq(RingKeys) /\ q # << >>
      BY <2>2, <3>1, EmptySeq DEF QueuedOnce
    <3>3. /\ Tail(q) \in Seq(RingKeys) /\ Len(Tail(q)) = l - 1
          /\ \A i \in 1..(l - 1) : Tail(q)[i] = q[i + 1]
      BY <3>2, HeadTailProperties
    <3>4. QueuedOnce(typed') /\ Len(typed') = l - 1
      <4> SUFFICES ASSUME NEW i \in 1..(l - 1), NEW j \in 1..(l - 1), Tail(q)[i] = Tail(q)[j]
                   PROVE  i = j
        BY <2>3, <2>4, <3>3 DEF QueuedOnce
      <4>1. i + 1 \in 1..l /\ j + 1 \in 1..l /\ q[i + 1] = q[j + 1]
        BY <3>1, <3>3
      <4>2. i + 1 = j + 1
        BY <2>2, <4>1 DEF QueuedOnce
      <4> QED  BY <4>2
    <3>5. ~over_capacity(l - 1, 0)
      BY <2>1, <2>2, <3>1, RingSizes DEF over_capacity
    <3> QED  BY <1>5, <3>4, <3>5 DEF RingInv
  <2>5. CASE ~(MaxEntries > 0 /\ l > MaxEntries)
    <3>1. typed' = q
      BY <2>3, <2>5
    <3>2. ~over_capacity(l, 0)
      BY <2>5, RingSizes DEF over_capacity
    <3> QED  BY <1>5, <2>2, <3>1, <3>2 DEF RingInv
  <2> QED  BY <2>4, <2>5
<1>6. ASSUME NEW k \in RingKeys, UNCHANGED <<map, order, bytes>>, TypedGet(k) PROVE RingInv'
  <2>1. QueuedOnce(typed) /\ ~over_capacity(Len(typed), 0)
    BY DEF RingInv
  <2>2. QueuedOnce(typed') /\ Len(typed') = Len(typed)
    BY <1>6, <2>1, PromotedKeeps DEF TypedGet
  <2> QED  BY <1>6, <2>1, <2>2 DEF RingInv
<1> QED  BY <1>1, <1>2, <1>3, <1>4, <1>5, <1>6 DEF RingNext

\* An empty buffer has nothing to account for.
LEMMA RingStart == RingInit => RingInv
<1> SUFFICES ASSUME RingInit PROVE RingInv
  OBVIOUS
<1>1. QueuedOnce(<< >>) /\ ToSet(<< >>) = {} /\ Len(<< >>) = 0
  BY EmptyQueue
<1>2. DOMAIN map = {}
  <2>1. DOMAIN << >> = 1..Len(<< >>) /\ 1..0 = {}
    BY EmptySeq, LenProperties
  <2> QED  BY <1>1, <2>1 DEF RingInit
<1>3. Holds(map)
  BY <1>2 DEF Holds
<1>4. SizeOf(map, DOMAIN map) = 0
  <2>1. IsFiniteSet({})
    BY FS_EmptySet
  <2>2. SizeOf(map, {}) = Total(Load(map), {})
    BY <1>2, <1>3, <2>1, SizeIsTotal
  <2>3. Total(Load(map), {}) = 0
    BY <2>1, TotalOfZeros
  <2> QED  BY <1>2, <2>2, <2>3
<1>5. ~over_capacity(0, 0)
  BY RingSizes DEF over_capacity
<1> QED  BY <1>1, <1>2, <1>3, <1>4, <1>5 DEF RingInit, RingInv

\* After any puts, reads and removals, under any two bounds, the buffer holds
\* what it accounts for, queues each key it holds once and is within its bounds.
THEOREM BufferIsExact == RingSpec => []RingIsExact
<1>1. RingInv => RingIsExact
  <2> SUFFICES ASSUME RingInv PROVE RingIsExact
    OBVIOUS
  <2>1. Len(order) = Cardinality(DOMAIN map)
    BY QueueCounts DEF RingInv
  <2>2. IsInjective(typed)
    BY QueueCounts DEF RingInv, QueuedOnce, IsInjective
  <2> QED  BY <2>1, <2>2 DEF RingInv, RingIsExact
<1> QED  BY <1>1, RingStart, RingStep, PTL DEF RingSpec
=============================================================================
