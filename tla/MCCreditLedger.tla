--------------------------- MODULE MCCreditLedger ---------------------------
(* Values of the CreditLedger constants for TLC. *)
EXTENDS CreditLedger, TLC

CONSTANTS a, b, e1, e2, p, q, dp, dq, zero

MCAccounts == {a, b}
MCPreimages == {p, q}
MCDigests == {dp, dq, zero}
MCHashOf == (p :> dp) @@ (q :> dq)
MCAmounts == 0 .. 2
\* Accounts and escrow ids are interchangeable.
MCSymmetry == Permutations({a, b}) \cup Permutations({e1, e2})
=============================================================================
