SPECIFICATION MCSpec
CONSTANTS
    WindowUs = 8  BudgetUs = 2  CcaUs = 1  SlotUs = 1  CwSlots = 2  MaxRetries = 3
    Airtimes = {1, 2}  MaxNow = 18
    Packets <- MCPackets  FragMtu = 1  CountMod = 8  MaxHeard = 3  DedupCapacity = 2
    MaxLoraPayload = 16
    King = King  Queen = Queen
    Size = 3  Pieces <- MCPieces  RankTexts <- MCRankTexts  Clocks = {0}
    PortMod = 16  RemotePort = 1  MaxAttempts = 6  ProbeIntervalMs = 1  TimeoutMs = 9
    PredictionSpread = 5  PortSamples <- MCPortSamples  NatTypes = {"Unknown", "FullCone"}
    WifiNodes = {1, 2}  Weights = {1, 4, 5, 9}  GoHysteresis = 3  MinGoWeight = 2
    Bits = 3  K = 3  ALPHA = 2  Cooldown = 3  MaxRounds = 5
    MeshNodes = {1, 2}  FirstIdentity <- MCFirstIdentity  Strangers <- MCStrangers
    RekeySeed <- MCRekeySeed  MaxAttempt = 2  MaxMet = 4  MaxTick = 6  MaxSynced = 2 Newcomers <- MCNewcomers
    Peers = {1, 2, 3, 4}  IdOf <- MCIdOf  LinkTypes = {"Wifi", "LoRa"}  Qualities = {0, 255}
    MaxLinks = 3
    Watched = {1, 2}  STRIKE_THRESHOLD = 3  DiagnosticDuration = 2  TEST_DIAGNOSTIC_TICKS = 3
    TestMode = FALSE  ANOMALY_BPS_THRESHOLD = 500  BpsScale = 10000
    Tensors <- MCTensors  References <- MCReferences  MaxClock = 4
    TrapJobs = {1, 2}  TrapPeers = {1, 2, 3}  ResultHashes = {"right", "wrong", "odd"}
    Expected <- MCExpected
    Seeds = {1, 2}  VrfJobs = {1}  Metrics <- MCMetrics  TieBreak <- MCTieBreak
    PRIMARY_COUNT = 2  STANDBY_COUNT = 1  MaxCandidates = 4
\* A part that is done stops.
CHECK_DEADLOCK FALSE
INVARIANTS AirTimeIsBounded PacketsArriveOnce GuessesSpreadOut OnlyHysteresisSplits PeersAreKnown PacketsTakeTheCheapestPath TeamsAgree
PROPERTY LiarsAreOut
