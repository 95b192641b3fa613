------------------------------ MODULE PeerLinks -----------------------------
(* Nodes in radio range that elect a group owner by battery                   *)
(* (mesh-transport/src/wifi_direct.rs). What a node knows of a peer is what   *)
(* it last heard; the radio range and the batteries are external.             *)
EXTENDS Integers, FiniteSets, FiniteSetsExt, Sequences, SequencesExt

CONSTANTS
    WifiNodes,     \* numbers: the order of the peer ids
    Weights,       \* battery weights
    GoHysteresis,  \* GO_HYSTERESIS
    MinGoWeight    \* MIN_GO_WEIGHT

ASSUME WifiAssumption == /\ IsFiniteSet(WifiNodes) /\ WifiNodes \subseteq Nat \ {0}
                         /\ Weights \subseteq Nat /\ GoHysteresis \in Nat

VARIABLES
    battery_weight,  \* [WifiNodes -> Weights]
    peers_in_range,  \* [WifiNodes -> [some of the others -> Weights]]
    group_owner_id,  \* [WifiNodes -> WifiNodes or none]
    wifi_state

wifiVars == <<battery_weight, peers_in_range, group_owner_id, wifi_state>>

NoOwner == 0

WeightOf(n, p) == IF p = n THEN battery_weight[n] ELSE peers_in_range[n][p]
Candidates(n) == {n} \union DOMAIN peers_in_range[n]

\* The candidate with the highest weight, of several the greatest id.
elect_group_owner(n) ==
    CHOOSE p \in Candidates(n) : \A q \in Candidates(n) \ {p} :
        \/ WeightOf(n, p) > WeightOf(n, q)
        \/ WeightOf(n, p) = WeightOf(n, q) /\ p > q

\* Of two equal ones the incumbent stays.
challenger_wins_Bug(challenger, wc, incumbent, wi) ==
    challenger # incumbent /\ wc > wi + GoHysteresis

challenger_wins(challenger, wc, incumbent, wi) ==
    /\ challenger # incumbent
    /\ wc > wi + GoHysteresis \/ (wc = wi /\ challenger > incumbent)

apply_election(n, owner) ==
    /\ group_owner_id' = [group_owner_id EXCEPT ![n] = owner]
    /\ wifi_state' = [wifi_state EXCEPT ![n] = IF owner = n THEN "GroupOwner" ELSE "Client"]

Alone(n) ==
    IF battery_weight[n] >= MinGoWeight THEN apply_election(n, n)
    ELSE /\ group_owner_id' = [group_owner_id EXCEPT ![n] = NoOwner]
         /\ wifi_state' = [wifi_state EXCEPT ![n] = "Scanning"]

\* An incumbent that is still in range stays unless it is clearly beaten.
Keeps(n) ==
    LET elected == elect_group_owner(n)
        owner == group_owner_id[n]
    IN  /\ owner \in Candidates(n) \ {elected}
        /\ ~challenger_wins(elected, WeightOf(n, elected), owner, WeightOf(n, owner))

negotiate_group_owner(n) ==
    /\ IF DOMAIN peers_in_range[n] = {} THEN Alone(n)
       ELSE apply_election(n, IF Keeps(n) THEN group_owner_id[n] ELSE elect_group_owner(n))
    /\ UNCHANGED <<battery_weight, peers_in_range>>

add_peer(n, p) ==
    /\ peers_in_range' = [peers_in_range EXCEPT ![n] =
           [q \in DOMAIN @ \union {p} |-> IF q = p THEN battery_weight[p] ELSE @[q]]]
    /\ UNCHANGED <<battery_weight, group_owner_id, wifi_state>>

remove_peer(n, p) ==
    /\ peers_in_range' = [peers_in_range EXCEPT ![n] = [q \in DOMAIN @ \ {p} |-> @[q]]]
    /\ UNCHANGED <<battery_weight, group_owner_id, wifi_state>>

set_battery_weight(n, w) ==
    /\ battery_weight' = [battery_weight EXCEPT ![n] = w]
    /\ UNCHANGED <<peers_in_range, group_owner_id, wifi_state>>

WifiInit ==
    /\ battery_weight \in [WifiNodes -> Weights]
    /\ peers_in_range = [n \in WifiNodes |-> [q \in {} |-> 0]]
    /\ group_owner_id = [n \in WifiNodes |-> NoOwner]
    /\ wifi_state = [n \in WifiNodes |-> "Disconnected"]

WifiNext ==
    \E n \in WifiNodes :
        \/ negotiate_group_owner(n)
        \/ \E p \in WifiNodes \ {n} : add_peer(n, p) \/ remove_peer(n, p)
        \/ \E w \in Weights : set_battery_weight(n, w)

WifiSpec == WifiInit /\ [][WifiNext]_wifiVars
-----------------------------------------------------------------------------
\* The owner that a node would keep or take if it negotiated now.
NextOwner(n) == IF Keeps(n) THEN group_owner_id[n] ELSE elect_group_owner(n)

InformedOfAll ==
    \A n \in WifiNodes : /\ Candidates(n) = WifiNodes
                         /\ \A p \in WifiNodes : WeightOf(n, p) = battery_weight[p]

\* An owner that its followers keep: weaker than the best, by no more than the
\* hysteresis.
Tolerated(p) ==
    LET best == Max({battery_weight[n] : n \in WifiNodes})
    IN  p \in WifiNodes /\ battery_weight[p] < best /\ battery_weight[p] + GoHysteresis >= best

\* Of nodes that know each other's batteries two follow different owners at their
\* next negotiation exactly when they do now and an owner of one of them is
\* tolerated (Keeps, challenger_wins). It is then that a group stays split, and
\* not "every peer converges on the same leader" (wifi_direct.rs:5).
OnlyHysteresisSplits ==
    InformedOfAll =>
        \A m, n \in WifiNodes :
            NextOwner(m) # NextOwner(n)
              <=> /\ group_owner_id[m] # group_owner_id[n]
                  /\ Tolerated(group_owner_id[m]) \/ Tolerated(group_owner_id[n])
-----------------------------------------------------------------------------
(* Hole punching without a server: a session that guesses the port of its     *)
(* peer and probes one guess a tick (mesh-transport/src/stun_hole_punch.rs).  *)
CONSTANTS
    PortMod,           \* 2^16: ports wrap
    RemotePort,        \* remote_base.port
    MaxAttempts, ProbeIntervalMs, TimeoutMs, PredictionSpread,  \* PunchConfig
    PortSamples,       \* the lists of <<local, external>> ports that may be observed
    NatTypes           \* what may be known of the peer

ASSUME PunchAssumption ==
    /\ PortMod \in Nat /\ PortMod >= 9 /\ RemotePort \in 0..(PortMod - 1)
    /\ MaxAttempts \in 0..(PortMod - 1)  \* both are of 16 bits
    /\ {TimeoutMs, PredictionSpread} \subseteq Nat /\ ProbeIntervalMs \in Nat \ {0}

VARIABLES
    punch_state, local_nat, remote_nat, candidates, attempt, started_ms, ms,
    connected_remote,
    samples,  \* port_samples
    probed    \* the ports that were probed (of the model)

punchVars == <<punch_state, local_nat, remote_nat, candidates, attempt, started_ms, ms,
               connected_remote, samples, probed>>

NoPort == PortMod

requires_port_prediction(nat) == nat \in {"Symmetric", "Unknown"}

classify(s) ==
    LET pairs == 1..(Len(s) - 1)
        delta(k, side) == (s[k + 1][side] - s[k][side]) % PortMod
    IN  IF Len(s) < 2 THEN "Unknown"
        ELSE IF \/ \A k \in pairs : s[k][2] = s[k + 1][2]
                \/ \A k \in DOMAIN s : s[k][1] = s[k][2]
          THEN "FullCone"
        ELSE IF \A k \in pairs : delta(k, 1) = delta(k, 2) /\ delta(k, 1) > 0 THEN "Symmetric"
        ELSE "Restricted"

\* Odd attempts round down: the first of them repeats the base.
Spread_Bug(a) == IF a % 2 = 1 THEN a \div 2 ELSE -(a \div 2)

\* +0, +1, -1, +2, -2, ...
Spread(a) == IF a % 2 = 1 THEN (a + 1) \div 2 ELSE -(a \div 2)

predict_nat_port(base, a) == (base + 2 + Spread(a)) % PortMod
predicted_ports(base, n) == [k \in 1..n |-> predict_nat_port(base, k - 1)]

\* The port itself and its neighbours, up and down in turn.
Neighbourhood(base) == [k \in 1..9 |-> (base + Spread(k - 1)) % PortMod]

build_candidates ==
    IF requires_port_prediction(local_nat) \/ requires_port_prediction(remote_nat)
      THEN predicted_ports(RemotePort, PredictionSpread)
      ELSE Neighbourhood(RemotePort)

Active == punch_state \notin {"Connected", "Failed"}
TimedOut == ms - started_ms > TimeoutMs

Begin == /\ punch_state' = "Probing" /\ attempt' = 0
         /\ connected_remote' = NoPort /\ candidates' = << >>
         /\ UNCHANGED <<local_nat, probed>>

Probing == /\ local_nat' = classify(samples)
           /\ punch_state' = "Predicting"
           /\ UNCHANGED <<candidates, attempt, connected_remote, probed>>

Predicting == /\ candidates' = build_candidates
              /\ punch_state' = "Punching" /\ attempt' = 0
              /\ UNCHANGED <<local_nat, connected_remote, probed>>

Exhausted == attempt >= Len(candidates) \/ attempt >= MaxAttempts

\* The peer answers a probe or not.
Punching(ok) ==
    /\ ~Exhausted
    /\ LET port == candidates[attempt + 1]
       IN  /\ probed' = Append(probed, port)
           /\ attempt' = attempt + 1
           /\ IF ok THEN connected_remote' = port /\ punch_state' = "Connected"
                    ELSE UNCHANGED <<connected_remote, punch_state>>
    /\ UNCHANGED <<local_nat, candidates>>

Give_up == /\ punch_state' = "Failed"
           /\ UNCHANGED <<local_nat, candidates, attempt, connected_remote, probed>>

\* One step of the machine; the clock goes on by an interval between two.
tick ==
    /\ Active
    /\ IF TimedOut THEN Give_up
       ELSE \/ punch_state = "Idle" /\ Begin
            \/ punch_state = "Probing" /\ Probing
            \/ punch_state = "Predicting" /\ Predicting
            \/ punch_state = "Punching" /\ ((Exhausted /\ Give_up) \/ \E ok \in BOOLEAN : Punching(ok))
    /\ ms' = ms + ProbeIntervalMs
    /\ UNCHANGED <<started_ms, remote_nat, samples>>

\* The caller of a driven session stops it after max_ticks.
OutOfTicks == /\ Active /\ punch_state # "Idle" /\ Give_up
              /\ UNCHANGED <<ms, started_ms, remote_nat, samples>>

\* A session that is driven starts its clock when it leaves the idle state.
run_until_done == /\ punch_state = "Idle" /\ Begin
                  /\ started_ms' = ms
                  /\ UNCHANGED <<ms, remote_nat, samples>>

\* Time before a session is driven.
Wait == /\ punch_state = "Idle" /\ ms <= TimeoutMs /\ ms' = ms + ProbeIntervalMs
        /\ UNCHANGED <<punch_state, local_nat, remote_nat, candidates, attempt, started_ms,
                       connected_remote, samples, probed>>

PunchInit ==
    /\ punch_state = "Idle" /\ local_nat = "Unknown" /\ remote_nat \in NatTypes
    /\ candidates = << >> /\ attempt = 0 /\ started_ms = 0 /\ ms = 0
    /\ connected_remote = NoPort /\ samples \in PortSamples /\ probed = << >>

PunchNext == tick \/ OutOfTicks \/ run_until_done \/ Wait

PunchSpec == PunchInit /\ [][PunchNext]_punchVars

-----------------------------------------------------------------------------
\* The guesses of a session are all different and lie without a gap around the
\* first, and what it ends up connected to is the port that answered last.
GuessesSpreadOut ==
    /\ Cardinality(ToSet(probed)) = Len(probed)
    /\ probed # << >> =>
          LET far == Len(probed) \div 2
          IN  ToSet(probed) \subseteq {(probed[1] + d) % PortMod : d \in (-far)..far}
    /\ punch_state = "Connected" <=> connected_remote # NoPort
    /\ connected_remote # NoPort => connected_remote = Last(probed)
=============================================================================
