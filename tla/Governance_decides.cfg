\* Three nodes and three consents: enough for a chain, for two invitees of one
\* voucher, for a circle if onboard allowed one, and for one failed consent; no
\* sum of three locks reaches the width.  Two voters, a strong and a weak
\* secret.  Three administrators with one to three keys between them and a
\* threshold of two; days before, in and after a window of three.
CONSTANTS
    a = a
    b = b
    c = c
    n1 = n1
    n2 = n2
    n3 = n3
    k1 = k1
    k2 = k2
    v1 = v1
    v2 = v2
    Nodes = {a, b, c}
    Keys = {k1, k2}
    Nonces = {n1, n2, n3}
    Powers = {0, 1, 2}
    MaxU64 = 7
    Voters = {v1, v2}
    Ballots = {1}
    StrongSecrets = {16}
    WeakSecrets = {3}
    Admins = {1, 2, 3}
    Others = {4}
    AdminKeys = {1, 2, 3}
    Threshold = 2
    Descriptions = {"a", "b"}
    GenesisDay = 1
    DecayDays = 3
    WeightScale = 4
    MaxDay = 5
    MaxProposals = 2
SYMMETRY MCSymmetry
SPECIFICATION MCSpec
\* A run of the multi-signature alone may have executed all it can.
CHECK_DEADLOCK FALSE
INVARIANTS TrustIsRooted CollateralIsBacked ExecutedByQuorum
PROPERTIES SlashedOncePerEdge VotesAreFair
