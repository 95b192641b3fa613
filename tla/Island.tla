------------------------------- MODULE Island -------------------------------
(* An island of nodes without an uplink: the graph of its links and the       *)
(* cheapest paths in it (mesh-transport/src/topology.rs), and the routing of  *)
(* a packet, which finds the peer with the tables of its neighbours and their *)
(* neighbours and then takes the cheapest path (simulation.rs). A node is a   *)
(* number, the order of the names.                                            *)
EXTENDS KademliaTable, Integers, Sequences, SequencesExt

CONSTANTS
    Peers,         \* add_peer: the nodes of the island
    IdOf(_),       \* node_id_from_u64
    LinkTypes,     \* of LoRa, Ble and Wifi
    Qualities,     \* within 0..255
    MaxLinks       \* bound: links of the island

\* Different nodes have different ids: callers number them so, add_peer does not
\* look. A lookup is not cut short before it could ask a bucket full of contacts.
ASSUME IslandAssumption ==
    /\ Peers \subseteq Nat \ {0} /\ IsFiniteSet(Peers)
    /\ \A n \in Peers : IdOf(n) \in NodeIds
    /\ \A m, n \in Peers : IdOf(m) = IdOf(n) => m = n
    /\ LinkTypes \subseteq {"LoRa", "Ble", "Wifi"} /\ Qualities \subseteq 0..255
    /\ K <= MaxRounds

VARIABLES
    edges,   \* TopologyGraph: a set of LinkEdge
    tables,  \* [Peers -> routing table]
    fresh    \* whether the tables show the links of now (of the model)

islandVars == <<edges, tables, fresh>>

base_cost(link) == CASE link = "Wifi" -> 10 [] link = "Ble" -> 40 [] link = "LoRa" -> 100
LinkRank(link) == CASE link = "LoRa" -> 0 [] link = "Ble" -> 1 [] link = "Wifi" -> 2

compute_edge_cost(link, quality) == base_cost(link) + (255 - quality) \div 4

LinkEdge(from, to, link, quality) ==
    [from |-> from, to |-> to, link |-> link, quality |-> quality,
     cost |-> compute_edge_cost(link, quality)]

\* An edge replaces the one between the same nodes over the same kind of link.
push_edge(es, e) ==
    {f \in es : ~(f.from = e.from /\ f.to = e.to /\ f.link = e.link)} \union {e}

add_bidirectional(a, b, link, quality) ==
    push_edge(push_edge(edges, LinkEdge(a, b, link, quality)), LinkEdge(b, a, link, quality))
-----------------------------------------------------------------------------
(* Cheapest paths *)

\* The cheapest edge from u to v, of several the one over the first kind of link.
BestEdge(u, v) ==
    CHOOSE e \in edges :
        /\ e.from = u /\ e.to = v
        /\ \A f \in edges : f.from = u /\ f.to = v =>
              e.cost < f.cost \/ (e.cost = f.cost /\ LinkRank(e.link) <= LinkRank(f.link))

Neighbours(u) == {e.to : e \in {f \in edges : f.from = u}}

Better(s, v, alt, u) ==
    \/ v \notin DOMAIN s.dist
    \/ alt < s.dist[v]
    \/ alt = s.dist[v] /\ v \in DOMAIN s.prev /\ u < s.prev[v].from

Relax(s, u) ==
    LET better == {v \in Neighbours(u) \ (s.visited \union {u}) :
                      Better(s, v, s.dist[u] + BestEdge(u, v).cost, u)}
    IN  [dist |-> [v \in better \union DOMAIN s.dist |->
                      IF v \in better THEN s.dist[u] + BestEdge(u, v).cost ELSE s.dist[v]],
         prev |-> [v \in better \union DOMAIN s.prev |->
                      IF v \in better THEN BestEdge(u, v) ELSE s.prev[v]],
         visited |-> s.visited \union {u}]

\* The unvisited node that is closest, of several the smallest.
Nearest(s) ==
    CHOOSE u \in DOMAIN s.dist \ s.visited : \A v \in DOMAIN s.dist \ s.visited :
        s.dist[u] < s.dist[v] \/ (s.dist[u] = s.dist[v] /\ u <= v)

Explored(src, dst) ==
    LET after[n \in 0..Cardinality(Peers)] ==
            IF n = 0 THEN [dist |-> [v \in {src} |-> 0], prev |-> << >>, visited |-> {}]
            ELSE LET s == after[n - 1]
                 IN  IF DOMAIN s.dist \subseteq s.visited \/ Nearest(s) = dst THEN s
                     ELSE Relax(s, Nearest(s))
    IN  after[Cardinality(Peers)]

\* The hops of the path, and its cost; NoPath when there is none.
NoPath == [total_cost |-> -1, hops |-> << >>]

shortest_path(src, dst) ==
    LET s == Explored(src, dst)
        back[n \in 0..Cardinality(Peers)] ==
            IF n = 0 THEN << >>
            ELSE LET hops == back[n - 1]
                     at == IF hops = << >> THEN dst ELSE Head(hops).from
                 IN  IF at = src THEN hops ELSE <<s.prev[at]>> \o hops
    IN  IF src = dst THEN [total_cost |-> 0, hops |-> << >>]
        ELSE IF dst \notin DOMAIN s.dist THEN NoPath
        ELSE [total_cost |-> s.dist[dst], hops |-> back[Cardinality(Peers)]]

next_hop(src, dst) == Head(shortest_path(src, dst).hops).to
-----------------------------------------------------------------------------
(* The island *)

link(a, b, kind, quality) ==
    /\ edges' = add_bidirectional(a, b, kind, quality)
    /\ Cardinality(edges') <= 2 * MaxLinks
    /\ fresh' = (fresh /\ b \in Neighbours(a))
    /\ UNCHANGED tables

ByName(nodes) ==
    CHOOSE s \in [1..Cardinality(nodes) -> nodes] : \A i, j \in DOMAIN s : i < j => s[i] < s[j]

\* Every table starts again with the direct neighbours, in the order of names.
seed_kademlia_from_topology ==
    /\ tables' = [n \in Peers |-> FoldLeft(LAMBDA t, m : insert(t, IdOf(m)), NewTable(IdOf(n)),
                                           ByName(Neighbours(n)))]
    /\ fresh' = TRUE
    /\ UNCHANGED edges

NodeOf(id) == CHOOSE n \in Peers : IdOf(n) = id

kad_find(src, dst) ==
    FindNode(StartLookup(tables[src], IdOf(dst)),
             [p \in {IdOf(n) : n \in Peers} |-> closest(tables[NodeOf(p)], IdOf(dst), K)])

\* The target is found, then the packet goes along the cheapest path.
route_packet(src, dst) ==
    IF kad_find(src, dst).found THEN shortest_path(src, dst) ELSE NoPath

IslandInit ==
    /\ edges = {}
    /\ tables = [n \in Peers |-> NewTable(IdOf(n))]
    /\ fresh = TRUE

IslandNext ==
    \/ \E a, b \in Peers, kind \in LinkTypes, q \in Qualities : a < b /\ link(a, b, kind, q)
    \/ seed_kademlia_from_topology

IslandSpec == IslandInit /\ [][IslandNext]_islandVars
-----------------------------------------------------------------------------
\* What the paths to a node cost, by the number of their hops.
Cheapest(src, dst) ==
    LET within[n \in 0..Cardinality(Peers)] ==
            IF n = 0 THEN [v \in Peers |-> IF v = src THEN {0} ELSE {}]
            ELSE [v \in Peers |->
                     within[n - 1][v]
                     \union UNION {{c + e.cost : c \in within[n - 1][e.from]} :
                                      e \in {f \in edges : f.to = v}}]
    IN  within[Cardinality(Peers) - 1][dst]

\* The path found is as cheap as the cheapest there is, its hops lead from the
\* one node to the other and cost what it says, and a packet that every node
\* hands to its own next hop comes closer with every hop.
PathIsCheapest(src, dst) ==
    LET p == shortest_path(src, dst)
        there == Cheapest(src, dst)
    IN  /\ p = NoPath <=> there = {}
        /\ there # {} => p.total_cost = Min(there)
        /\ p.total_cost > 0 =>
              /\ p.hops[1].from = src /\ Last(p.hops).to = dst
              /\ \A k \in 2..Len(p.hops) : p.hops[k - 1].to = p.hops[k].from
              /\ MapThenSumSet(LAMBDA k : p.hops[k].cost, DOMAIN p.hops) = p.total_cost
              /\ shortest_path(next_hop(src, dst), dst).total_cost < p.total_cost

\* A packet takes the cheapest path; and on an island of no more nodes than a
\* bucket holds contacts it finds its peer, by the tables of neighbours and their
\* neighbours, whenever a path leads there, unless new neighbours came up since
\* the tables were seeded. Every lookup has asked all the contacts it kept.
PacketsTakeTheCheapestPath ==
    edges # {} => \A src, dst \in Peers :
        /\ PathIsCheapest(src, dst)
        /\ LookupIsComplete(kad_find(src, dst))
        /\ fresh /\ Cardinality(Peers) <= K + 1 /\ src # dst =>
              /\ kad_find(src, dst).found <=> shortest_path(src, dst) # NoPath
              /\ route_packet(src, dst) = shortest_path(src, dst)
-----------------------------------------------------------------------------
(* How much work a node should get by its battery and its temperature         *)
(* (mesh-transport/src/battery_tracker.rs, thermal_aware.rs). Temperatures    *)
(* are in tenths of a degree, where rounding a float has nothing to decide.   *)
MAX_TEMP == 750
THERMAL_SOFT == 650

\* An integer sigmoid around a fifth; the division rounds towards zero.
calculate_battery_weight(level) ==
    LET diff == level - 20
        size == IF diff < 0 THEN -diff ELSE diff
        bend == (size * 1000) \div (2 * (1 + size))
    IN  CASE diff <= -10 -> 0
          [] diff >= 10  -> 1000
          [] OTHER       -> IF diff < 0 THEN 500 - bend ELSE 500 + bend

should_deprioritize(temp) == temp > MAX_TEMP

classify_temperature(temp) ==
    IF temp > MAX_TEMP THEN "Deprioritized"
    ELSE IF temp >= THERMAL_SOFT THEN "Reduced" ELSE "Full"

\* From all to a tenth between the two limits.
thermal_schedule_weight(temp) ==
    IF temp > MAX_TEMP THEN 0
    ELSE IF temp < THERMAL_SOFT THEN 1000
    ELSE 1000 - (900 * (temp - THERMAL_SOFT)) \div (MAX_TEMP - THERMAL_SOFT)

ThermalState(peer, temp) ==
    [peer_id |-> peer, temp |-> temp, priority |-> classify_temperature(temp)]

filter_cool_peers(states) == SelectSeq(states, LAMBDA s : ~should_deprioritize(s.temp))

\* Among equals by name.
sort_by_thermal_weight(states) ==
    LET Before(s, t) ==
            LET v == thermal_schedule_weight(s.temp)
                w == thermal_schedule_weight(t.temp)
            IN  v > w \/ (v = w /\ s.peer_id < t.peer_id)
        order == SetToSortSeq(DOMAIN states,
                    LAMBDA i, j : \/ Before(states[i], states[j])
                                  \/ ~Before(states[j], states[i]) /\ i < j)
    IN  [k \in DOMAIN order |-> states[order[k]]]
-----------------------------------------------------------------------------
\* No node gains by a lower charge or a higher temperature, whatever a division
\* or a limit does to the curves, and the three views of a temperature tell the
\* same: "nodes above the thermal ceiling are deprioritized (or excluded)".
WeightsFollowState(levels, temps) ==
    /\ \A a, b \in levels : a <= b => calculate_battery_weight(a) <= calculate_battery_weight(b)
    /\ \A a \in levels : calculate_battery_weight(a) \in 0..1000
    /\ \A s, t \in temps : s <= t => thermal_schedule_weight(s) >= thermal_schedule_weight(t)
    /\ \A t \in temps :
          LET weight == thermal_schedule_weight(t)
              class == classify_temperature(t)
          IN  /\ weight \in 0..1000
              /\ {weight = 0, class = "Deprioritized"} = {should_deprioritize(t)}
              /\ class = "Full" => weight = 1000

\* Sorting loses nobody and puts those that are filtered out behind all others.
TheHotComeLast(states) ==
    LET sorted == sort_by_thermal_weight(states)
        cool == filter_cool_peers(states)
    IN  /\ Len(sorted) = Len(states) /\ ToSet(sorted) = ToSet(states)
        /\ ToSet(SubSeq(sorted, 1, Len(cool))) = ToSet(cool)
        /\ \A k \in 2..Len(sorted) :
              /\ thermal_schedule_weight(sorted[k - 1].temp)
                    >= thermal_schedule_weight(sorted[k].temp)
              /\ sorted[k - 1].priority = "Deprioritized" => sorted[k].priority = "Deprioritized"
=============================================================================
