CONSTANTS
    Nodes = {1, 2, 3}
    Speakers = {2}
    Listeners = {1}
    Ttl = 1
    MaxNeighbors = 1
    Rssis <- MCRssis
    BatteryOf <- MCBatteryOf
    MaxSeq = 2
    Me = 1
    Names = {2}
    Numbers = {1}
    MaxConns = 2
    MaxEvents = 2
    AdvInterval = 1
    AuthTimeout = 1
    BackoffBase = 1
    BackoffMax = 3
    BleMaxShift = 2
    MaxFrameRejects = 2
\* Short strings over bytes of three bits.
    ByteBase = 8
    MaxNameLen = 2
    ChallengeLen = 2
    SignatureLen = 2
    RelayMtu = 3
SPECIFICATION MCSpec
\* The flood ends when sequence numbers and ages are used up.
CHECK_DEADLOCK FALSE
INVARIANTS ActiveMeansKin NoLinkIsForgotten
PROPERTIES TableIsTrue ComesBackLater
