------------------------------- MODULE MCMesh -------------------------------
(* The parts of the mesh transport that are checked together. They share no   *)
(* state: one moves while the others rest.                                    *)
EXTENDS LoraLink, PeerLinks, MeshIdentity, Island, Quarantine, VrfAssigner

CONSTANTS King, Queen  \* chess pieces

MCPackets == {<<1, 1, 1>>, <<1, 2>>, <<2, 1>>}
MCPieces == {King, Queen}
MCRankTexts == {<<3>>, <<King, 2>>, <<1, Queen, 1>>, <<1, 1, 1>>, <<King, Queen>>}

\* What a NAT did with four ports in a row: nothing, the same port for all, a
\* port further each time, or no pattern.
MCPortSamples == {<< >>, <<<<1, 1>>, <<2, 2>>>>, <<<<1, 4>>, <<2, 4>>>>,
                  <<<<1, 5>>, <<2, 6>>>>, <<<<1, 5>>, <<2, 7>>>>}

\* Both nodes start with one id; so does one stranger, and two others share one.
Contested == {0}
MCFirstIdentity == [n \in MeshNodes |-> PeerId(n + 3, Contested)]
MCStrangers == {PeerId(9, Contested), PeerId(1, {1}), PeerId(2, {1})}
MCNumber(id) == (IF 0 \in id THEN 1 ELSE 0) + (IF 1 \in id THEN 2 ELSE 0) + (IF 2 \in id THEN 4 ELSE 0)
MCRekeySeed(old, try) ==
    PeerId(20 + MCNumber(old), CHOOSE id \in NodeIds : MCNumber(id) = (MCNumber(old) + 1 + try) % 8)

\* The ids of one bucket, and another.
MCNewcomers == {{2}, {0, 2}, {1, 2}, {0, 1, 2}, {1}}

MCIdOf(n) == CASE n = 1 -> {0} [] n = 2 -> {1} [] n = 3 -> {0, 1} [] n = 4 -> {0, 2}

\* References alike and spread, around nothing, and one of which five hundred basis
\* points are no whole number; results at the threshold and past it, a copy of
\* a reference that is spread, and of another shape.
MCReferences == {<<100, 100>>, <<90, 110>>, <<1, -1>>, <<1999>>}
MCTensors == {<<100, 100>>, <<105, 95>>, <<106, 94>>, <<90, 110>>, <<0, 0>>, <<1, -1>>,
              <<2099>>, <<1899>>, << >>}
MCExpected == [j \in TrapJobs |-> "right"]

MCMetrics == [w \in 1..4 |->
    CASE w = 1 -> [active_jobs |-> 0, temperature_c |-> 40, battery_percent |-> 90]
      [] w = 2 -> [active_jobs |-> 0, temperature_c |-> 80, battery_percent |-> 90]
      [] w = 3 -> [active_jobs |-> 1, temperature_c |-> 40, battery_percent |-> 15]
      [] w = 4 -> [active_jobs |-> 0, temperature_c |-> 40, battery_percent |-> 90]]
MCTieBreak(seed, job, w) == (seed + job) * w % 5

\* Fragments with payloads up to a byte too long, good places and bad, and ids at
\* both ends of their bytes; noise on payloads of up to three bytes.
MCFragments == [message_id : {0, 255, 256, 65537}, index : {0, 1, 256}, count : {0, 1, 257},
                more : BOOLEAN, payload : {<< >>, <<0>>, <<77, 255>>, <<1, 2, 3>>}]
ASSUME FragmentsSurvive == \A f \in MCFragments : FragmentSurvives(f)
ASSUME NoiseIsNoticed == \A bytes \in {<<0>>, <<255>>, <<77, 1, 0>>} : NoiseBreaksCrc(bytes, 7)

ASSUME FramesFitTheBudget ==
    \A cfg \in LoraRadioConfig :
        AirtimeFits(cfg, {0, 1, 8, 9, 41, 254, 255}, 36000000)

\* Charges from none to full and beyond, and temperatures across both limits.
MCThermalStates == {ThermalState(n, t) : n \in 1..2, t \in {400, 649, 650, 700, 750, 751}}
ASSUME NodesAreWeighed ==
    /\ WeightsFollowState(0..255, 600..800)
    /\ \A n \in 0..3 : \A states \in [1..n -> MCThermalStates] : TheHotComeLast(states)

\* Names of up to two letters, of which one may be missing.
ASSUME DestinationsAreDistinct ==
    LET words == BoundedSeq({1, 2}, 2)
    IN  NamesAreDistinct(<<9>>, words, BoundedSeq(words, 2))

\* Sixteen hashes, and weights of which one may be nothing.
ASSUME SortitionIsFair == \A v, w \in 0..20 : SharesAreFair(v, w, 15)

\* A position arrives as it was sent.
ASSUME PositionsSurvive == \A fen \in Fens : PositionSurvives(fen)

\* A chain proves the computation that it tells for its peer and job, and no other.
MCTraces == BoundedSeq({0, 1} \X {"x", "y"}, 3)
ASSUME TrueChainsVerify == \A trace, told \in MCTraces :
                              OnlyTrueChainsVerify(1, 1, trace, {1, 2} \X {1, 2}, told)

Parts == {"mac", "packet", "dedup", "punch", "wifi", "identity", "table",
          "island", "quarantine", "honeypot", "vrf"}

VARIABLE part  \* the one that moves

meshVars == <<loraVars, punchVars, wifiVars, identityVars, islandVars,
              quarantineVars, honeypotVars, vrfVars>>
mcVars == <<meshVars, part>>

\* Where a part may start in several ways, the parts that rest start in one.
MCInit ==
    /\ MacInit /\ PacketInit /\ DedupInit /\ PunchInit /\ WifiInit
    /\ IdentityInit /\ IslandInit /\ QuarantineInit /\ HoneypotInit /\ VrfInit
    /\ part \in Parts
    /\ part # "punch" => samples = << >> /\ remote_nat = "Unknown"
    /\ part # "wifi" => \A n \in WifiNodes : battery_weight[n] = Min(Weights)

MCNext ==
    /\ UNCHANGED part
    /\ \/ /\ part = "mac"
          /\ MacNext
          /\ UNCHANGED <<packetVars, dedupVars, punchVars, wifiVars,
                       identityVars, islandVars, quarantineVars, honeypotVars, vrfVars>>
       \/ /\ part = "packet"
          /\ PacketNext
          /\ UNCHANGED <<macVars, dedupVars, punchVars, wifiVars,
                       identityVars, islandVars, quarantineVars, honeypotVars, vrfVars>>
       \/ /\ part = "dedup"
          /\ DedupNext
          /\ UNCHANGED <<macVars, packetVars, punchVars, wifiVars,
                       identityVars, islandVars, quarantineVars, honeypotVars, vrfVars>>
       \/ /\ part = "punch"
          /\ PunchNext
          /\ UNCHANGED <<loraVars, wifiVars, identityVars, islandVars,
                       quarantineVars, honeypotVars, vrfVars>>
       \/ /\ part = "wifi"
          /\ WifiNext
          /\ UNCHANGED <<loraVars, punchVars, identityVars, islandVars,
                       quarantineVars, honeypotVars, vrfVars>>
       \/ /\ part \in {"identity", "table"}
          /\ \/ part = "identity" /\ IdentityNext
             \/ part = "table" /\ \E n \in MeshNodes : TableNext(n) /\ n = 1
          /\ UNCHANGED <<loraVars, punchVars, wifiVars, islandVars,
                       quarantineVars, honeypotVars, vrfVars>>
       \/ /\ part = "island"
          /\ IslandNext
          /\ UNCHANGED <<loraVars, punchVars, wifiVars, identityVars,
                       quarantineVars, honeypotVars, vrfVars>>
       \/ /\ part = "quarantine"
          /\ QuarantineNext
          /\ UNCHANGED <<loraVars, punchVars, wifiVars, identityVars,
                       islandVars, honeypotVars, vrfVars>>
       \/ /\ part = "honeypot"
          /\ HoneypotNext
          /\ UNCHANGED <<loraVars, punchVars, wifiVars, identityVars,
                       islandVars, quarantineVars, vrfVars>>
       \/ /\ part = "vrf"
          /\ VrfNext
          /\ UNCHANGED <<loraVars, punchVars, wifiVars, identityVars,
                       islandVars, quarantineVars, honeypotVars>>

MCSpec == MCInit /\ [][MCNext]_mcVars
=============================================================================
