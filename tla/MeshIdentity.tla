---------------------------- MODULE MeshIdentity ----------------------------
(* Nodes that learn of each other, find that two of them hold the same id and *)
(* give one up (mesh-transport/src/identity_manager.rs), each with the        *)
(* routing table it keeps for its id (MeshNode of network.rs).                *)
(*                                                                            *)
(* A key is a number: the order of the public keys. The id of a peer is what  *)
(* it announces: several keys may come with one id.                           *)
EXTENDS KademliaTable

CONSTANTS
    MeshNodes,
    FirstIdentity,  \* [MeshNodes -> PeerId]: bootstrap_from_seed
    Strangers,      \* peers that others announce
    RekeySeed(_, _), \* the identity of a rekey: by the id that was lost and the attempt
    MaxAttempt,     \* bound: attempts that are looked at
    Newcomers,      \* bound: the ids that are inserted one by one
    MaxTick, MaxSynced,  \* bounds: insertions, and those of a synchronised table
    MaxMet          \* bound: different checks

PeerId(key, id) == [key |-> key, id |-> id]
PeerIds == [key : Nat, id : NodeIds]

ASSUME IdentityAssumption ==
    /\ FirstIdentity \in [MeshNodes -> PeerIds]
    /\ Strangers \subseteq PeerIds /\ Newcomers \subseteq NodeIds
    /\ \A id \in NodeIds, try \in 0..MaxAttempt : RekeySeed(id, try) \in PeerIds

VARIABLES
    local,    \* [MeshNodes -> PeerId]
    peers,    \* [MeshNodes -> Seq(PeerId)]: IdentityManager
    routing,  \* [MeshNodes -> table]: MeshNode
    lost,     \* the nodes whose last check told them to rekey (the caller's part)
    met       \* <<node, its identity, peer>>: checks of the peer by the node (of the model)

identityVars == <<local, peers, routing, lost, met>>

\* Whoever was there first keeps the id.
deterministic_id_winner_Bug(a, b) == a

deterministic_id_winner(a, b) == IF a.key >= b.key THEN a ELSE b

At(n, id) == CHOOSE k \in DOMAIN peers[n] : peers[n][k].id = id

\* A duplicate is ignored; of two peers with an id the winner keeps it; a peer
\* with our own id is not taken, and we must rekey when it wins.
add_peer_checked(n, p) ==
    /\ IF p \in ToSet(peers[n]) THEN UNCHANGED <<peers, lost>>
       ELSE IF \E q \in ToSet(peers[n]) : q.id = p.id
         THEN /\ peers' = [peers EXCEPT ![n][At(n, p.id)] = deterministic_id_winner(@, p)]
              /\ UNCHANGED lost
       ELSE IF local[n].id = p.id
         THEN /\ lost' = IF deterministic_id_winner(local[n], p) = p THEN lost \union {n} ELSE lost
              /\ UNCHANGED peers
       ELSE peers' = [peers EXCEPT ![n] = Append(@, p)] /\ UNCHANGED lost
    /\ met' = met \union {<<n, local[n], p>>}
    /\ UNCHANGED <<local, routing>>

\* The first identity that no known peer holds; the table stays as it is.
rekey_after_collision(n) ==
    LET free == {a \in 0..MaxAttempt :
                    \A q \in ToSet(peers[n]) : q.id # RekeySeed(local[n].id, a).id}
    IN  /\ n \in lost /\ free # {}
        /\ local' = [local EXCEPT ![n] = RekeySeed(local[n].id, Min(free))]
        /\ lost' = lost \ {n}
        /\ UNCHANGED <<peers, routing, met>>

\* A table of another id is thrown away.
sync_peers_into_table(n) ==
    LET base == IF routing[n].local_id = local[n].id THEN routing[n] ELSE NewTable(local[n].id)
    IN  /\ base.tick + Len(peers[n]) <= MaxTick
        /\ routing' = [routing EXCEPT ![n] =
                          FoldLeft(LAMBDA t, p : insert(t, p.id), base, peers[n])]
        /\ UNCHANGED <<local, peers, lost, met>>

insert_peer(n, id, alive) ==
    /\ routing[n].tick < MaxTick
    /\ routing' = [routing EXCEPT ![n] = insert_with_probe(@, id, alive)]
    /\ UNCHANGED <<local, peers, lost, met>>

IdentityInit ==
    /\ local = FirstIdentity
    /\ peers = [n \in MeshNodes |-> << >>]
    /\ routing = [n \in MeshNodes |-> NewTable(FirstIdentity[n].id)]
    /\ lost = {}
    /\ met = {}

IdentityNext ==
    \E n \in MeshNodes :
        \/ \E p \in Strangers \union {local[m] : m \in MeshNodes \ {n}} :
              Cardinality(met) < MaxMet /\ add_peer_checked(n, p)
        \/ rekey_after_collision(n)
        \/ sync_peers_into_table(n)

TableNext(n) == \E id \in Newcomers, alive \in BOOLEAN : insert_peer(n, id, alive)
\* What the hash of a destination is taken over: the announcing peer, the name of
\* the application, and each aspect behind a zero byte.
DestinationName(id, app_name, aspects) ==
    FoldLeft(LAMBDA bytes, aspect : bytes \o <<0>> \o aspect, id \o app_name, aspects)
-----------------------------------------------------------------------------
\* Two destinations of a peer, neither with a zero byte in its name, are taken
\* over different bytes: none can be resolved for another (resolve_destination).
NamesAreDistinct(id, apps, aspectLists) ==
    \A a, b \in apps, x, y \in aspectLists :
        DestinationName(id, a, x) = DestinationName(id, b, y) => a = b /\ x = y

\* Whatever order the announcements came in, an id belongs to one key, the
\* greatest that was announced with it, unless the node itself held the id: nodes
\* that heard the same agree on who is who. Of two nodes that have checked each
\* other while they held the same id, one knows that it has to give it up.
IdentitiesSettle ==
    /\ \A n \in MeshNodes, k, l \in 1..MaxMet :
          {k, l} \subseteq DOMAIN peers[n] /\ peers[n][k].id = peers[n][l].id => k = l
    /\ \A m \in met : \/ m[2].id = m[3].id
                      \/ \E q \in ToSet(peers[m[1]]) : q.id = m[3].id /\ q.key >= m[3].key
    /\ \A m, n \in MeshNodes :
          /\ m # n /\ local[m].id = local[n].id
          /\ <<m, local[m], local[n]>> \in met /\ <<n, local[n], local[m]>> \in met
          => {m, n} \intersect lost # {}

\* Every bucket holds the right contacts once, none of them the node itself,
\* no more than k, in the order they were last heard of; and each is found there
\* by its id.
BucketsAreOrdered ==
    \A n \in MeshNodes :
        LET t == routing[n]
        IN  /\ \A c \in Contacts(t) : find_node_local(t, c) = {c}
            /\ \A b \in BitIndexes :
                /\ Len(t.buckets[b]) <= K
                /\ \A k \in DOMAIN t.buckets[b] :
                      /\ \A j \in DOMAIN t.buckets[b] :
                            t.buckets[b][j].id = t.buckets[b][k].id => j = k
                      /\ t.buckets[b][k].id # t.local_id
                      /\ bucket_for(t.local_id, t.buckets[b][k].id) = b
                      /\ k > 1 => t.buckets[b][k - 1].last_seen < t.buckets[b][k].last_seen

\* Who is who, and where: of the identities and of the tables made from them.
PeersAreKnown == IdentitiesSettle /\ BucketsAreOrdered
=============================================================================
