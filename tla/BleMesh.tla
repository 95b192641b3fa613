------------------------------- MODULE BleMesh -------------------------------
(* The link-state half of a BLE node (mesh-transport/src/ble_mesh.rs).        *)
(*                                                                            *)
(* A node keeps a table of neighbours and the newest sequence number seen of  *)
(* every origin. Advertisements (LSAs) are signed by their origin and may     *)
(* reach a node late, twice, out of order or altered. Times are kept as ages, *)
(* so that no clock has to be bounded: `lag` is how far a node's now_ms is    *)
(* behind real time, because only set_time and advance_time move it.          *)
(*                                                                            *)
(* A signature is the key that made it and the fields it covers. The list of  *)
(* neighbours an LSA carries is signed and sent, and read by no receiver: it  *)
(* is left out, as are costs, which are a function of the quality.            *)
EXTENDS Integers, FiniteSets, Functions, Sequences, SequencesExt

CONSTANTS
    Nodes,         \* ids of the nodes, numbers: ties are broken by their order
    Speakers,      \* those that send advertisements
    Listeners,     \* those whose tables are followed
    Ttl,           \* DEFAULT_LSA_TTL_MS, the ttl of LSAs and of table entries
    MaxNeighbors,  \* MAX_NEIGHBORS
    Rssis,         \* signal strengths at which a peer is heard
    BatteryOf,     \* [Nodes -> 0..100]
    MaxSeq         \* bound: sequence numbers a node issues between restarts

ASSUME BleMeshAssumption ==
    /\ Nodes \subseteq Nat /\ IsFiniteSet(Nodes)
    /\ Speakers \subseteq Nodes /\ Listeners \subseteq Nodes
    /\ Ttl \in Nat /\ MaxNeighbors \in Nat \ {0} /\ MaxSeq \in Nat \ {0}
    /\ Rssis \subseteq -128 .. 127
    /\ BatteryOf \in [Nodes -> 0 .. 100]

VARIABLES
    mesh,  \* [Nodes -> node records]
    air    \* advertisements that were ever sent and may still arrive

meshVars == <<mesh, air>>

Least(a, b) == IF a <= b THEN a ELSE b

\* Ages beyond Ttl + 1 behave alike.
Older(age, by) == Least(age + by, Ttl + 1)

LinkStateAdvertisement(origin, seq, age) ==
    [origin |-> origin, seq |-> seq, battery |-> BatteryOf[origin], age |-> age,
     signature |-> [key |-> origin, seq |-> seq]]

verify(lsa) == lsa.signature = [key |-> lsa.origin, seq |-> lsa.seq]

FreshNode == [seq |-> 0, lag |-> 0, table |-> << >>, seen |-> << >>]

\* rssi_to_quality_cost: -100 dBm is 0, -40 dBm is 255.
QualityOf(rssi) ==
    LET r == IF rssi < -100 THEN -100 ELSE Least(rssi, -40)
    IN  ((r + 100) * 255) \div 60

Worst(table) ==
    CHOOSE w \in DOMAIN table : \A o \in DOMAIN table :
        \/ table[w].quality < table[o].quality
        \/ table[w].quality = table[o].quality /\ w <= o

\* HashMap::insert.
Inserted(map, key, val) ==
    [k \in DOMAIN map \union {key} |-> IF k = key THEN val ELSE map[k]]

\* A full table takes a newcomer only in place of a worse neighbour.
insert_neighbor(table, id, entry) ==
    IF id \in DOMAIN table \/ Cardinality(DOMAIN table) < MaxNeighbors
      THEN Inserted(table, id, entry)
    ELSE IF entry.quality <= table[Worst(table)].quality
      THEN table
      ELSE Inserted(Restrict(table, DOMAIN table \ {Worst(table)}), id, entry)

hear_peer(node, id, battery, rssi) ==
    [node EXCEPT !.table = insert_neighbor(@, id,
        [battery |-> battery, quality |-> QualityOf(rssi), age |-> 0,
         lastSeq |-> IF id \in DOMAIN node.table THEN node.table[id].lastSeq ELSE 0])]

\* set_time and advance_time: the clock catches up, then prune_stale.
set_time(node) ==
    LET aged == [id \in DOMAIN node.table |->
                    [node.table[id] EXCEPT !.age = Older(@, node.lag)]]
    IN  [node EXCEPT !.lag = 0,
                     !.table = Restrict(aged, {id \in DOMAIN aged : aged[id].age <= Ttl})]

create_lsa(node, id) == LinkStateAdvertisement(id, node.seq + 1, node.lag)

is_expired(lsa, node) == lsa.age - node.lag > Ttl

Acceptable(node, id, lsa) ==
    /\ lsa.origin # id
    /\ ~is_expired(lsa, node)
    /\ verify(lsa)
    /\ lsa.origin \in DOMAIN node.seen => lsa.seq > node.seen[lsa.origin]

\* A late advertisement refreshes the entry although a newer one was seen.
process_lsa_Bug(node, id, lsa) ==
    LET e == [battery |-> lsa.battery, quality |-> Least(2 * lsa.battery, 255),
              age |-> 0, lastSeq |-> lsa.seq]
    IN  IF lsa.origin = id \/ is_expired(lsa, node) \/ ~verify(lsa) THEN node
        ELSE [node EXCEPT !.table = insert_neighbor(@, lsa.origin, e),
                          !.seen = IF lsa.origin \in DOMAIN @ /\ lsa.seq <= @[lsa.origin]
                                   THEN @ ELSE Inserted(@, lsa.origin, lsa.seq)]

process_lsa(node, id, lsa) ==
    IF Acceptable(node, id, lsa)
      THEN [node EXCEPT
              !.seen = Inserted(@, lsa.origin, lsa.seq),
              !.table = insert_neighbor(@, lsa.origin,
                 [battery |-> lsa.battery, quality |-> Least(2 * lsa.battery, 255),
                  age |-> 0, lastSeq |-> lsa.seq])]
      ELSE node
-----------------------------------------------------------------------------
MeshInit == mesh = [n \in Nodes |-> FreshNode] /\ air = {}

Advertise(n) ==
    /\ mesh[n].seq < MaxSeq
    /\ air' = air \union {create_lsa(mesh[n], n)}
    /\ mesh' = [mesh EXCEPT ![n].seq = @ + 1]

\* A copy of any advertisement arrives, now, later or again.
Receive(n) ==
    \E lsa \in air : /\ mesh' = [mesh EXCEPT ![n] = process_lsa(@, n, lsa)]
                     /\ UNCHANGED air

\* A relay passes on a copy with a higher sequence number.
Corrupt == \E lsa \in air : /\ lsa.seq = lsa.signature.seq
                            /\ air' = air \union {[lsa EXCEPT !.seq = @ + 1]}
                            /\ UNCHANGED mesh

Hear(n) == \E m \in Nodes \ {n}, rssi \in Rssis :
               /\ mesh' = [mesh EXCEPT ![n] = hear_peer(@, m, BatteryOf[m], rssi)]
               /\ UNCHANGED air

SetTime(n) == mesh' = [mesh EXCEPT ![n] = set_time(@)] /\ UNCHANGED air

TimePasses == /\ mesh' = [n \in Nodes |-> [mesh[n] EXCEPT !.lag = Older(@, 1)]]
              /\ air' = {[lsa EXCEPT !.age = Older(@, 1)] : lsa \in air}

\* from_seed gives a restarted node its old identity and a new counter.
Restart(n) == mesh' = [mesh EXCEPT ![n] = FreshNode] /\ UNCHANGED air

MeshNext ==
    \/ \E n \in Speakers : Advertise(n) \/ Restart(n)
    \/ \E n \in Listeners : Receive(n) \/ Hear(n) \/ SetTime(n) \/ Restart(n)
    \/ Corrupt
    \/ TimePasses
-----------------------------------------------------------------------------
(* Properties *)

\* Nobody but the origin moves its sequence window: a node never ignores an
\* advertisement because of a number that its origin did not issue.
WindowIsGenuine ==
    \A n \in Nodes : \A o \in DOMAIN mesh[n].seen :
        \E lsa \in air : verify(lsa) /\ lsa.origin = o /\ lsa.seq = mesh[n].seen[o]

\* What a node has on record of an origin is never older than the newest
\* genuine advertisement it accepted, whatever order the copies came in and
\* whatever was pruned or evicted between them (process_lsa, hear_peer,
\* prune_stale).
TableFollowsNewest ==
    /\ WindowIsGenuine
    /\ \A n \in Nodes : \A o \in DOMAIN mesh[n].table :
           mesh[n].table[o].lastSeq # 0 =>
               o \in DOMAIN mesh[n].seen /\ mesh[n].table[o].lastSeq = mesh[n].seen[o]

\* A better neighbour is never given up for a worse one while both are fresh:
\* whoever leaves a table without the clock moving leaves it to a better link.
OnlyWorseAreEvicted ==
    \A n \in Nodes : \A o \in DOMAIN mesh[n].table :
        (o \notin DOMAIN mesh'[n].table /\ mesh'[n].lag = mesh[n].lag /\ mesh'[n] # FreshNode)
           => \E m \in DOMAIN mesh'[n].table \ DOMAIN mesh[n].table :
                 mesh'[n].table[m].quality > mesh[n].table[o].quality

\* The table of a node is true to what it heard and keeps the best of it.
TableIsTrue == [][TableFollowsNewest' /\ OnlyWorseAreEvicted]_meshVars
-----------------------------------------------------------------------------
(* What a BLE node puts on the wire: the frames of ble_auth.rs, the link-state *)
(* advertisements of ble_mesh.rs that ride in them, and the relay fragments    *)
(* both are cut into.  A byte is a number below ByteBase, so that a length     *)
(* that does not fit its field wraps as it does in the code; hex ids, proofs   *)
(* and signatures are short byte strings.                                      *)
(*                                                                             *)
(* Decoding reads a cursor forward: `at` counts the bytes taken so far, and a  *)
(* cursor that could not be moved is Refused.                                  *)
CONSTANTS
    ByteBase,       \* 256 in the code
    MaxNameLen,     \* MAX_NODE_NAME_LEN
    ChallengeLen,   \* CHALLENGE_LEN, and MAC_LEN
    SignatureLen,   \* of an LSA
    RelayMtu        \* BLE_RELAY_PAYLOAD_LEN

\* to_be_bytes of an integer of w bytes, and back.
BeBytes(n, w) == [i \in 1 .. w |-> (n \div ByteBase ^ (w - i)) % ByteBase]
FromBe(bytes) == FoldLeft(LAMBDA n, b : n * ByteBase + b, 0, bytes)

Refused == [ok |-> FALSE]

\* decode_fixed: n bytes of what follows the cursor.
Take(bytes, c, n) ==
    IF c.ok /\ c.at + n <= Len(bytes)
    THEN [ok |-> TRUE, at |-> c.at + n, value |-> SubSeq(bytes, c.at + 1, c.at + n)]
    ELSE Refused
TakeInt(bytes, c, w) ==
    LET t == Take(bytes, c, w) IN IF t.ok THEN [t EXCEPT !.value = FromBe(@)] ELSE Refused

\* hex_encode_32, hex_decode_32: the id of a node is its key in lower-case hex.
HexDigits == [v \in 0 .. 15 |-> IF v < 10 THEN 48 + v ELSE 87 + v]
HexEncode(key) == FlattenSeq([i \in 1 .. Len(key) |->
                      <<HexDigits[key[i] \div 16], HexDigits[key[i] % 16]>>])
HexVal(c) == CHOOSE v \in 0 .. 15 : HexDigits[v] = c
HexDecode(s, keyLen) ==
    {[i \in 1 .. keyLen |-> HexVal(s[2 * i - 1]) * 16 + HexVal(s[2 * i])] :
        legal \in {Len(s)} \cap {n \in {2 * keyLen} : \A k \in DOMAIN s : s[k] \in Range(HexDigits)}}

-----------------------------------------------------------------------------
\* encode_name: the length is cut to a byte; decode_name limits it.
EncodeName(name) == BeBytes(Len(name), 1) \o name
DecodeName(bytes, c) ==
    LET len == TakeInt(bytes, c, 1)
    IN  IF len.ok /\ len.value <= MaxNameLen THEN Take(bytes, len, len.value) ELSE Refused

\* encode_str, decode_str: a two-byte length and no limit.
EncodeStr(s) == BeBytes(Len(s), 2) \o s
DecodeStr(bytes, c) ==
    LET len == TakeInt(bytes, c, 2) IN IF len.ok THEN Take(bytes, len, len.value) ELSE Refused

\* signed_payload_bytes.
SignedPayloadBytes(lsa) ==
    EncodeStr(lsa.origin) \o BeBytes(lsa.sequence, 2) \o BeBytes(lsa.battery, 1)
        \o BeBytes(lsa.generated_at, 2) \o BeBytes(lsa.ttl, 2)
        \o BeBytes(Len(lsa.neighbors), 2)
        \o FlattenSeq([i \in 1 .. Len(lsa.neighbors) |->
                          EncodeStr(lsa.neighbors[i].id) \o BeBytes(lsa.neighbors[i].cost, 1)])

EncodeLsa(lsa) == SignedPayloadBytes(lsa) \o lsa.signature

\* The neighbours of LinkStateAdvertisement::decode, as many as announced.
DecodeNeighbors(bytes, count) ==
    LET n[i \in 0 .. count.value] ==
            IF i = 0 THEN [count EXCEPT !.value = << >>]
            ELSE LET id == DecodeStr(bytes, n[i - 1])
                     cost == TakeInt(bytes, id, 1)
                 IN  IF cost.ok
                     THEN [cost EXCEPT !.value = Append(n[i - 1].value, [id |-> id.value, cost |-> @])]
                     ELSE Refused
    IN  n[count.value]

\* LinkStateAdvertisement::decode: exactly a signature must be left at the end.
DecodeLsa(bytes) ==
    LET origin    == DecodeStr(bytes, [ok |-> TRUE, at |-> 0])
        sequence  == TakeInt(bytes, origin, 2)
        battery   == TakeInt(bytes, sequence, 1)
        generated == TakeInt(bytes, battery, 2)
        ttl       == TakeInt(bytes, generated, 2)
        count     == TakeInt(bytes, ttl, 2)
        neighbors == IF count.ok THEN DecodeNeighbors(bytes, count) ELSE Refused
    IN  IF neighbors.ok /\ Len(bytes) - neighbors.at = SignatureLen
        THEN {[origin |-> origin.value, sequence |-> sequence.value, battery |-> battery.value,
               generated_at |-> generated.value, ttl |-> ttl.value, neighbors |-> neighbors.value,
               signature |-> SubSeq(bytes, neighbors.at + 1, Len(bytes))]}
        ELSE {}

-----------------------------------------------------------------------------
\* FrameTag, by its position.
FrameTags == <<"Hello", "AuthInit", "AuthProof", "AuthOk", "AuthReject", "Lsa", "Bye">>
TagByte(tag) == CHOOSE b \in 1 .. Len(FrameTags) : FrameTags[b] = tag

AuthRejectReasons == 1 .. 3

\* MeshFrame::encode.
EncodeFrame(f) ==
    <<TagByte(f.tag)>> \o
        CASE f.tag \in {"Hello", "AuthInit"} ->
                 EncodeName(f.node_name) \o BeBytes(f.battery, 1) \o f.challenge
          [] f.tag = "AuthProof"  -> f.mac
          [] f.tag = "AuthReject" -> <<f.reason>>
          [] f.tag = "Lsa"        -> EncodeLsa(f.lsa)
          [] f.tag \in {"AuthOk", "Bye"} -> << >>

\* MeshFrame::decode: a known tag and all of its fields; what follows them is
\* ignored, except behind an LSA.
DecodeFrame(bytes) ==
    LET tag  == IF bytes # << >> /\ bytes[1] \in 1 .. Len(FrameTags) THEN FrameTags[bytes[1]] ELSE "none"
        body == [ok |-> TRUE, at |-> 1]
    IN  CASE tag \in {"Hello", "AuthInit"} ->
                 LET name      == DecodeName(bytes, body)
                     battery   == TakeInt(bytes, name, 1)
                     challenge == Take(bytes, battery, ChallengeLen)
                 IN  IF challenge.ok
                     THEN {[tag |-> tag, node_name |-> name.value, battery |-> battery.value,
                            challenge |-> challenge.value]}
                     ELSE {}
          [] tag = "AuthProof" ->
                 LET mac == Take(bytes, body, ChallengeLen)
                 IN  IF mac.ok THEN {[tag |-> tag, mac |-> mac.value]} ELSE {}
          [] tag = "AuthReject" ->
                 {[tag |-> tag, reason |-> r] : r \in {r \in AuthRejectReasons : Len(bytes) > 1 /\ bytes[2] = r}}
          [] tag = "Lsa" ->
                 {[tag |-> tag, lsa |-> lsa] : lsa \in DecodeLsa(Tail(bytes))}
          [] tag \in {"AuthOk", "Bye"} -> {[tag |-> tag]}
          [] OTHER -> {}

-----------------------------------------------------------------------------
\* fragment_ble_payload: no more fragments than a byte can count, so the tail of
\* a payload that needs more is not sent.
FragmentBlePayload(message_id, payload) ==
    LET needed == (Len(payload) + RelayMtu - 1) \div RelayMtu
        count  == IF needed < ByteBase - 1 THEN needed ELSE ByteBase - 1
    IN  [i \in 1 .. count |->
            [message_id |-> message_id, index |-> i - 1, count |-> count,
             payload |-> SubSeq(payload, (i - 1) * RelayMtu + 1,
                                IF i * RelayMtu < Len(payload) THEN i * RelayMtu ELSE Len(payload))]]

\* BleRelayFragment::encode, decode.
EncodeFragment(f) == BeBytes(f.message_id, 2) \o <<f.index, f.count>> \o f.payload
DecodeFragment(bytes) ==
    {[message_id |-> FromBe(SubSeq(bytes, 1, 2)), index |-> bytes[3], count |-> bytes[4],
      payload |-> SubSeq(bytes, 5, Len(bytes))] : legal \in {Len(bytes)} \cap 4 .. 4 + RelayMtu}

\* BleRelayReassembler::accept, once every index has arrived.
Reassemble(fragments) == FlattenSeq([i \in 1 .. Len(fragments) |-> fragments[i].payload])

-----------------------------------------------------------------------------
\* What the peripheral's model takes for granted (on_frame, DecodeFrame): a
\* frame with a name the peer allows arrives as itself, one with a longer name
\* or with its end cut off is refused and never taken for another frame.
FrameSurvives(f) ==
    LET wire == EncodeFrame(f)
        fragments == FragmentBlePayload(ByteBase, wire)
        allowed == f.tag \in {"Hello", "AuthInit"} => Len(f.node_name) <= MaxNameLen
    IN  /\ DecodeFrame(wire) = IF allowed THEN {f} ELSE {}
        /\ \A cut \in 0 .. Len(wire) - 1 : DecodeFrame(SubSeq(wire, 1, cut)) = {}
        /\ \A i \in DOMAIN fragments : DecodeFragment(EncodeFragment(fragments[i])) = {fragments[i]}
        /\ Len(wire) <= RelayMtu * (ByteBase - 1) => Reassemble(fragments) = wire

\* "Self-certifying node ids": a key has one id and an id one key; a string that
\* is no id, upper-case hex among them, has none.
IdsNameKeys(keys, strings, keyLen) ==
    /\ \A key \in keys : HexDecode(HexEncode(key), keyLen) = {key}
    /\ \A s \in strings : \A key \in HexDecode(s, keyLen) : HexEncode(key) = s

\* "Canonical bytes covered by the signature": no two advertisements share
\* them, whatever their ids and lists of neighbours.
SignedBytesDecide(lsas) ==
    LET unsigned == {[lsa EXCEPT !.signature = << >>] : lsa \in lsas}
    IN  Cardinality({SignedPayloadBytes(lsa) : lsa \in unsigned}) = Cardinality(unsigned)
=============================================================================
