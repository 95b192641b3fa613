\* Credits exceed what one balance can hold: a claim can overflow.
CONSTANTS
    a = a
    b = b
    e1 = e1
    e2 = e2
    p = p
    q = q
    dp = dp
    dq = dq
    zero = zero
    NoPreimage = NoPreimage
    ZeroDigest = zero
    Accounts <- MCAccounts
    EscrowIds = {e1, e2}
    Preimages <- MCPreimages
    Digests <- MCDigests
    HashOf <- MCHashOf
    Amounts <- MCAmounts
    MaxU64 = 2
    Heights = {1, 2}
    MaxVdfSteps = 1
    MintCap = 3
SYMMETRY MCSymmetry
SPECIFICATION Spec
INVARIANT SupplyExact
\* Every escrow settled and MintCap reached: the ledger may rest.
CHECK_DEADLOCK FALSE
