\* Two accounts, two escrows; one account's balance alone can reach MaxU64
\* and MintCap exceeds it, so a payment can overflow.
CONSTANTS
    a = a
    b = b
    e1 = e1
    e2 = e2
    p = p
    q = q
    dp = dp
    dq = dq
    zero = zero
    NoPreimage = NoPreimage
    ZeroDigest = zero
    Accounts <- MCAccounts
    EscrowIds = {e1, e2}
    Preimages <- MCPreimages
    Digests <- MCDigests
    HashOf <- MCHashOf
    Amounts <- MCAmounts
    MaxU64 = 2
    Heights = {1, 2}
    MaxVdfSteps = 1
    MintCap = 3
SYMMETRY MCSymmetry
SPECIFICATION Spec
\* Every escrow settled and MintCap reached: the ledger may rest.
CHECK_DEADLOCK FALSE
INVARIANTS PaidExactlyOnce SupplyAccounted
PROPERTY KeepsPromise
