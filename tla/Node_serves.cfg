\* Three blocks of two bytes and an odd byte left over: runs of one to three,
\* fragmentation, and requests that are too large in total or in one piece.
\* Group of 7 * 11 elements, challenge primes of five bits (17 .. 31, of which
\* 21, 25 and 27 are composite).
CONSTANTS
    BlockSize = 2
    MemLimit = 7
    Sizes = {0, 2, 3, 6}
    Modulus = 77
    Registered = 1
    OtherId = 2
    GroupDigest <- MCGroupDigest
    ChallengeDigest <- MCChallengeDigest
    MintDid <- MCMintDid
    ChallengeBits = 5
    SmallPrimes = {3}
    MRBases = {2, 3}
    Seeds = {0, 1}
    MaxSteps = 4
    MinSteps = 2
    Metas = {1, 2}
    NoReceipt = NoReceipt
    NoDid = NoDid
\* Three slots on two pages; a peer misses a byte, a token, the payload length
\* or part of the shape.
    TokenBytes = 4
    MaxRank = 2
    MaxTokens = 3
    MaxPhysicalPages = 2
    TokenBlobs = {k1, k2}
    Zeroed = Zeroed
    NoPage = NoPage
    Losses = {0, 1, 4, 12, 30}
    MaxClock = 7
\* Scores within 50 of 100 are mates; a search eight plies deep is clamped.
    Positions <- MCPositions
    Games <- MCGames
    MateScore = 100
    MateBand = 50
    MaxDepth = 7
    Depths = {1, 2, 3, 5, 8}
    Files = 2
    Ranks = 2
    Roles = {"King", "Pawn"}
    material_value <- MCMaterial
    pst <- MCSquareWorth
    Tempo = 10
\* A pool of 8 base and 64 quote units (mid 32): one unit moves the price by
\* 20%, the cap; eighty bring it to zero.  Two peers, one more than the table
\* takes; two requests of a peer per window of two; an outbox of two for three
\* requests, all of which may be in hand at once.
    alice = alice
    bob = bob
    peer1 = peer1
    peer2 = peer2
    MaxU64 = 127
    BpsDenom = 10
    MaxSpreadBps = 2
    PriceScale = 4
    MaxSlices = 3
    Amounts <- MCAmounts
    Prices = {1}
    MaxOrders = 3
    Accounts = {alice, bob}
    InitialBase = 8
    InitialQuote = 64
    Balances <- MCBalances
    Peers = {peer1, peer2}
    Bodies = {"move", "eval"}
    BadBodies = {"move without fen"}
    RateLimit = 2
    RateWindow = 2
    PeerCap = 0
    OutboxCap = 2
    MaxInstant = 3
    MaxRequests = 3
    MaxAmount = 3
    MaxCount = 2
SPECIFICATION MCSpec
SYMMETRY Symmetry
\* The window's clock, orders, requests and instants are bounded.
CHECK_DEADLOCK FALSE
INVARIANTS PoolStaysTrue GateIsExact TokensReadTrue SearchIsExact IntakeKeepsItsWord
PROPERTIES BridgeKeepsValue
