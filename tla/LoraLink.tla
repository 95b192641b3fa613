------------------------------ MODULE LoraLink ------------------------------
(* The LoRa link: the duty cycle of the radio with listening before talking   *)
(* (mesh-transport/src/lora_mac.rs), mesh packets cut into frames and put     *)
(* together again, and the cache of packets that were seen                    *)
(* (packet_translator.rs). A message id is the packet itself: a hash without  *)
(* collisions; a frame that noise has altered fails its CRC.                  *)
EXTENDS Integers, Sequences, FiniteSets, FiniteSetsExt, SequencesExt

CONSTANTS
    WindowUs, BudgetUs,    \* the window of the duty cycle and its budget
    CcaUs, SlotUs, CwSlots, MaxRetries,
    Airtimes,              \* estimate_airtime_us of the frames that are sent
    MaxNow,                \* bound of the instance
    Packets,               \* mesh packets: <<destination_hash, data...>>
    FragMtu, CountMod,     \* LORA_FRAG_MTU, 2^16 for the fragment count
    MaxHeard,              \* bound: frames that are kept for a reassembly
    DedupCapacity

ASSUME LoraAssumption ==
    /\ WindowUs \in Nat \ {0} /\ BudgetUs \in 0..WindowUs /\ Airtimes \subseteq Nat
    /\ {CcaUs, SlotUs, CwSlots} \subseteq Nat
    /\ FragMtu \in Nat \ {0} /\ CountMod \in Nat \ {0} /\ DedupCapacity \in Nat \ {0}
    /\ \A p \in Packets : p \in Seq(Nat) /\ Len(p) > 0

VARIABLES
    now_us, window_start_us, on_air_us,  \* DutyCycleTracker
    channel_busy,                        \* CsmaCaController
    sent,        \* <<begin, end>> of the transmissions (of the model)
    airborne,    \* the frames that can still be heard
    collected,   \* the frames a receiver has collected, in order of arrival
    delivered,   \* the packets it has put together
    slots, cursor,    \* PacketDedupCache
    recorded, forgot  \* the ids it took, newest last; whether one was dropped (of the model)

macVars == <<now_us, window_start_us, on_air_us, channel_busy, sent>>
packetVars == <<airborne, collected, delivered>>
dedupVars == <<slots, cursor, recorded, forgot>>
loraVars == <<macVars, packetVars, dedupVars>>

CeilDivide(n, d) == (n + d - 1) \div d

\* The window a time falls into, and what is on the account then. Time that
\* passed while a window ran is not carried over.

Rolls(t) == t - window_start_us >= WindowUs
WindowAt(t) == IF Rolls(t) THEN window_start_us + WindowUs * ((t - window_start_us) \div WindowUs)
                           ELSE window_start_us
OnAirAt(t) == IF Rolls(t) THEN 0 ELSE on_air_us

can_transmit(airtime, on_air) == airtime <= BudgetUs - on_air

\* How long listening takes: a busy channel costs one back-off of up to as many
\* slots as the window of the first retry has, then the channel counts as free.
Contention == IF ~channel_busy THEN {CcaUs}
              ELSE IF MaxRetries = 0 THEN {}
              ELSE {CcaUs + s * SlotUs + CcaUs : s \in 0..(CwSlots - 1)}

contend_for_channel(delay) == delay \in Contention /\ channel_busy' = FALSE

\* The air time is not put on the account.
record_tx_Bug(t, airtime) ==
    /\ can_transmit(airtime, OnAirAt(t))
    /\ window_start_us' = WindowAt(t)
    /\ on_air_us' = OnAirAt(t)
    /\ now_us' = t + airtime
    /\ sent' = Append(sent, <<t, t + airtime>>)

record_tx(t, airtime) ==
    /\ can_transmit(airtime, OnAirAt(t))
    /\ window_start_us' = WindowAt(t)
    /\ on_air_us' = OnAirAt(t) + airtime
    /\ now_us' = t + airtime
    /\ sent' = Append(sent, <<t, t + airtime>>)

transmit(airtime) ==
    /\ can_transmit(airtime, on_air_us)
    /\ \E delay \in CcaUs..(2 * CcaUs + CwSlots * SlotUs) :
          /\ contend_for_channel(delay)
          /\ now_us + delay + airtime <= MaxNow
          /\ record_tx(now_us + delay, airtime)

advance_time(d) ==
    /\ now_us + d <= MaxNow
    /\ now_us' = now_us + d
    /\ window_start_us' = WindowAt(now_us + d)
    /\ on_air_us' = OnAirAt(now_us + d)
    /\ UNCHANGED <<channel_busy, sent>>

ChannelBusy == ~channel_busy /\ channel_busy' = TRUE
               /\ UNCHANGED <<now_us, window_start_us, on_air_us, sent>>

MacInit == /\ now_us = 0 /\ window_start_us = 0 /\ on_air_us = 0
           /\ channel_busy = FALSE /\ sent = << >>

MacNext == \/ \E a \in Airtimes : transmit(a)
           \/ advance_time(1)
           \/ ChannelBusy
-----------------------------------------------------------------------------
(* Packets *)

fragment_payload(id, blob) ==
    LET count == CeilDivide(Len(blob), FragMtu) % CountMod
    IN  {[message_id |-> id, index |-> i, count |-> count, intact |-> TRUE,
          payload |-> SubSeq(blob, i * FragMtu + 1, Min({(i + 1) * FragMtu, Len(blob)}))]
            : i \in 0..(count - 1)}

mesh_to_lora_frames(packet) == fragment_payload(packet, packet)

\* ReassemblyBuffer: all fragments are of one message, and those that came
\* twice are the same. Fragments of other messages are taken as well.
Consistent_Bug(frags) ==
    \A f, g \in frags : f.count = g.count /\ (f.index = g.index => f.payload = g.payload)

Consistent(frags) ==
    \A f, g \in frags : /\ f.message_id = g.message_id /\ f.count = g.count
                        /\ f.index = g.index => f.payload = g.payload

is_complete(frags) == \A f \in frags : {g.index : g \in frags} = 0..(f.count - 1)

assemble(frags) == FlattenSeq([i \in 1..Cardinality({f.index : f \in frags}) |->
                                  (CHOOSE f \in frags : f.index = i - 1).payload])

\* The packets that a list of frames makes: one or none.
reassemble_mesh_packet(frames) ==
    LET frags == ToSet(frames)
    IN  IF /\ frags # {} /\ \A f \in frags : f.intact
           /\ Consistent(frags) /\ is_complete(frags)
          THEN {assemble(frags)} ELSE {}

Send(packet) == airborne' = airborne \union mesh_to_lora_frames(packet) /\ UNCHANGED <<collected, delivered>>

HearFrame(f, noise) ==
    /\ Len(collected) < MaxHeard
    /\ collected' = Append(collected, [f EXCEPT !.intact = ~noise])
    /\ UNCHANGED <<airborne, delivered>>

ReassemblePacket ==
    /\ collected # << >>
    /\ delivered' = delivered \union reassemble_mesh_packet(collected)
    /\ collected' = << >>
    /\ UNCHANGED airborne

PacketInit == airborne = {} /\ collected = << >> /\ delivered = {}

PacketNext == \/ \E p \in Packets : Send(p)
              \/ \E f \in airborne, noise \in BOOLEAN : HearFrame(f, noise)
              \/ ReassemblePacket
-----------------------------------------------------------------------------
(* The cache of packets that were seen *)

is_duplicate(id) ==
    IF id \in ToSet(slots) THEN UNCHANGED dedupVars
    ELSE /\ IF Len(slots) < DedupCapacity
              THEN slots' = Append(slots, id) /\ UNCHANGED cursor
              ELSE /\ slots' = [slots EXCEPT ![cursor + 1] = id]
                   /\ cursor' = (cursor + 1) % DedupCapacity
         /\ recorded' = LET q == Append(recorded, id)
                        IN  SubSeq(q, Max({1, Len(q) - DedupCapacity + 1}), Len(q))
         /\ UNCHANGED forgot

\* The last one takes the place of the one that is dropped.
forget(id) ==
    /\ id \in ToSet(slots)
    /\ LET at == CHOOSE k \in DOMAIN slots : slots[k] = id
       IN  slots' = Front([slots EXCEPT ![at] = Last(slots)])
    /\ forgot' = TRUE
    /\ UNCHANGED <<cursor, recorded>>

clear == /\ slots' = << >> /\ cursor' = 0
         /\ recorded' = << >> /\ forgot' = FALSE

DedupInit == slots = << >> /\ cursor = 0 /\ recorded = << >> /\ forgot = FALSE

DedupNext == (\E p \in Packets : is_duplicate(p) \/ forget(p)) \/ clear

\* The parts share no state.
LoraNext == \/ MacNext /\ UNCHANGED <<packetVars, dedupVars>>
            \/ PacketNext /\ UNCHANGED <<macVars, dedupVars>>
            \/ DedupNext /\ UNCHANGED <<macVars, packetVars>>

LoraSpec == MacInit /\ PacketInit /\ DedupInit /\ [][LoraNext]_loraVars
-----------------------------------------------------------------------------
\* In any stretch of time as long as a window the radio is on air for two
\* budgets at most: one spent late in a window and one early in the next.
AirTimeIsBounded ==
    \A t \in 0..now_us :
        MapThenSumSet(LAMBDA k : LET b == Max({sent[k][1], t})
                                     e == Min({sent[k][2], t + WindowUs})
                                 IN  IF e > b THEN e - b ELSE 0, DOMAIN sent)
            <= 2 * BudgetUs

\* What is put together was sent, whatever frames of whatever packets arrived
\* in whatever order, twice, altered or not at all; and while none is dropped
\* from the cache, a packet is recognised until as many others have come as the
\* cache holds.
PacketsArriveOnce ==
    /\ delivered \subseteq Packets
    /\ ~forgot => ToSet(recorded) \subseteq ToSet(slots)
-----------------------------------------------------------------------------
(* What a LoRa radio sends (mesh-transport/src/lora_mac.rs and                *)
(* packet_translator.rs): a fragment behind its header of 14 bytes, in a      *)
(* frame with a CRC. A byte is a number; the words of the CRC are the sets of *)
(* their bits that are one, so that exclusive or is the symmetric difference. *)
CONSTANT MaxLoraPayload  \* LORA_MAX_PAYLOAD: 255

FRAG_HEADER_LEN == 14
MAGIC == <<77, 77>>
VERSION == 1
FLAG_MORE == 1

BigEndian(n, width) == [i \in 1..width |-> (n \div 256 ^ (width - i)) % 256]
Number(bytes) == FoldLeft(LAMBDA n, b : n * 256 + b, 0, bytes)

\* One fragment, or none when its payload is too large.
encode(f) ==
    IF Len(f.payload) > MaxLoraPayload - FRAG_HEADER_LEN THEN {}
    ELSE {MAGIC \o <<VERSION, IF f.more THEN FLAG_MORE ELSE 0>> \o BigEndian(f.message_id, 4)
            \o BigEndian(f.index, 2) \o BigEndian(f.count, 2) \o BigEndian(Len(f.payload), 2)
            \o f.payload}

\* What follows the payload is ignored, and so are the other flags.
decode(bytes) ==
    LET Field(from, to) == Number(SubSeq(bytes, from, to))
        index == Field(9, 10)
        count == Field(11, 12)
        payload_len == Field(13, 14)
    IN  IF \/ Len(bytes) < FRAG_HEADER_LEN \/ SubSeq(bytes, 1, 2) # MAGIC \/ bytes[3] # VERSION
           \/ FRAG_HEADER_LEN + payload_len > Len(bytes)
           \/ index >= count
          THEN {}
        ELSE {[message_id |-> Field(5, 8), index |-> index, count |-> count,
               more |-> bytes[4] % 2 = FLAG_MORE,
               payload |-> SubSeq(bytes, FRAG_HEADER_LEN + 1, FRAG_HEADER_LEN + payload_len)]}
-----------------------------------------------------------------------------
Xor(a, b) == (a \ b) \union (b \ a)
BitsOf(byte) == {i \in 0..7 : (byte \div 2 ^ i) % 2 = 1}
Polynomial == {0, 5, 12}  \* 0x1021

\* One step of the division: shift left, subtract when a one fell out.
ShiftOut(crc) == LET shifted == {i + 1 : i \in crc \ {15}}
                 IN  IF 15 \in crc THEN Xor(shifted, Polynomial) ELSE shifted

calculate_crc(payload) ==
    LET Shifted[crc \in SUBSET (0..15), bits \in 0..8] ==
            IF bits = 0 THEN crc ELSE Shifted[ShiftOut(crc), bits - 1]
        Crc[k \in 0..Len(payload)] ==
            IF k = 0 THEN 0..15
            ELSE Shifted[Xor(Crc[k - 1], {i + 8 : i \in BitsOf(payload[k])}), 8]
    IN  Crc[Len(payload)]

\* How long a frame is on the air. A bandwidth divides a million, which keeps the
\* numbers small.
symbol_duration_us(cfg) == 2 ^ cfg.sf * (1000000 \div cfg.bw)

Flag(b) == IF b THEN 1 ELSE 0

estimate_airtime_us(payload_len, cfg) ==
    LET t_sym == symbol_duration_us(cfg)
        numerator == 8 * payload_len - 4 * cfg.sf + 28 + 16 * Flag(cfg.crc_enabled)
                       - 20 * Flag(~cfg.explicit_header)
        denom == 4 * (cfg.sf - 2 * Flag(cfg.low_data_rate_optimize))
        blocks == IF numerator <= 0 THEN 0 ELSE (numerator + denom - 1) \div denom
    IN  cfg.preamble_symbols * t_sym + (17 * t_sym) \div 4
          + (8 + blocks * (cfg.cr + 4)) * t_sym

LoraRadioConfig ==
    [sf : 7..12, bw : {125000, 250000, 500000}, cr : 1..4, preamble_symbols : {0, 8},
     explicit_header : BOOLEAN, crc_enabled : BOOLEAN, low_data_rate_optimize : BOOLEAN]

to_lora_frame(f) == {[payload |-> bytes, crc |-> calculate_crc(bytes)] : bytes \in encode(f)}
verify_crc(frame) == calculate_crc(frame.payload) = frame.crc
from_lora_frame(frame) == IF verify_crc(frame) THEN decode(frame.payload) ELSE {}
-----------------------------------------------------------------------------
\* What the model of the link takes for granted (fragment_payload, intact): a
\* fragment that fits and names a place within its message arrives as itself,
\* and none arrives of another, or of a frame with its end cut off.
FragmentSurvives(f) ==
    LET allowed == f.index < f.count /\ Len(f.payload) <= MaxLoraPayload - FRAG_HEADER_LEN
        frames == to_lora_frame(f)
    IN  /\ UNION {from_lora_frame(frame) : frame \in frames} = IF allowed THEN {f} ELSE {}
        /\ \A frame \in frames : /\ Len(frame.payload) <= MaxLoraPayload
                                 /\ \A cut \in 0..(Len(frame.payload) - 1) :
                                      decode(SubSeq(frame.payload, 1, cut)) = {}

\* However the radio is set, more bytes never take less time and a symbol more of
\* the same frame a symbol's time more, and the longest frame fits into the
\* window's budget: a radio that waits long enough may send it.
AirtimeFits(cfg, lengths, budget) ==
    /\ \A m, n \in lengths : m <= n => estimate_airtime_us(m, cfg) <= estimate_airtime_us(n, cfg)
    /\ \A n \in lengths :
          /\ estimate_airtime_us(n, cfg) \in 1..budget
          /\ estimate_airtime_us(n, [cfg EXCEPT !.preamble_symbols = @ + 1])
                = estimate_airtime_us(n, cfg) + symbol_duration_us(cfg)

\* "Guarantees small LoRa payloads are not accepted when corrupted by RF noise":
\* no burst of at most `width` bits goes unnoticed, and no two altered bits.
Flipped(payload, bits) ==
    [k \in 1..Len(payload) |->
        LET flips == Xor(BitsOf(payload[k]), {i \in 0..7 : 8 * (k - 1) + i \in bits})
        IN  FoldLeft(LAMBDA n, i : n + (IF i - 1 \in flips THEN 2 ^ (i - 1) ELSE 0), 0,
                     <<1, 2, 3, 4, 5, 6, 7, 8>>)]

NoiseBreaksCrc(payload, width) ==
    LET all == 0..(8 * Len(payload) - 1)
        Near(i) == {j \in all : i <= j /\ j < i + width}
        noises == {{i, j} : i, j \in all} \union UNION {SUBSET Near(i) : i \in all}
    IN  \A bits \in noises \ {{}} :
            ~verify_crc([payload |-> Flipped(payload, bits), crc |-> calculate_crc(payload)])
-----------------------------------------------------------------------------
(* Chess positions packed for a radio frame (mesh-transport/src/fen.rs): what *)
(* is sent is decoded on the other side. Boards are Size by Size; a rank of a *)
(* FEN is a sequence of pieces and counts of empty squares.                   *)
CONSTANTS
    Size,
    Pieces,
    RankTexts,  \* ranks as they come: sequences over Pieces and 1..Size
    Clocks

Files == 0..(Size - 1)
Empty == 0

Squares(token) == IF token \in Pieces THEN <<token>> ELSE [k \in 1..token |-> Empty]
RankSquares(rank) == FlattenSeq([k \in DOMAIN rank |-> Squares(rank[k])])

GoodFen(fen) ==
    /\ Len(fen.ranks) = Size
    /\ \A r \in DOMAIN fen.ranks : Len(RankSquares(fen.ranks[r])) = Size

\* Runs of empty squares become their count.
RankText(squares) ==
    LET occupied == SelectSeq([k \in DOMAIN squares |-> k], LAMBDA k : squares[k] # Empty)
        gap(from, to) == IF to - from > 1 THEN <<to - from - 1>> ELSE << >>
        start(j) == IF j = 1 THEN 0 ELSE occupied[j - 1]
        n == Len(occupied)
    IN  FlattenSeq([j \in 1..n |-> gap(start(j), occupied[j]) \o <<squares[occupied[j]]>>])
        \o gap(start(n + 1), Len(squares) + 1)

\* The first rank of the text is the last of the board. Of the en-passant square
\* the file is kept. A board of another shape is refused.
encode_fen(fen) ==
    IF ~GoodFen(fen) THEN {}
    ELSE {[board |-> [r \in 1..Size |-> RankSquares(fen.ranks[Size + 1 - r])],
           black |-> fen.side = "b", castling |-> fen.castling,
           ep |-> {square.file : square \in fen.ep},
           clock |-> fen.clock]}

\* The rank of the en-passant square follows from the side to move.
decode_fen(code) ==
    [ranks |-> [r \in 1..Size |-> RankText(code.board[Size + 1 - r])],
     side |-> IF code.black THEN "b" ELSE "w", castling |-> code.castling,
     ep |-> {[file |-> f, rank |-> IF code.black THEN 3 ELSE 6] : f \in code.ep},
     clock |-> code.clock]

Fens == [ranks : [1..Size -> RankTexts], side : {"w", "b"}, castling : SUBSET {"K", "q"},
         ep : {{}} \union {{s} : s \in [file : Files, rank : {3, 6}]}, clock : Clocks]

SameBoard(f, g) == \A r \in 1..Size : RankSquares(f.ranks[r]) = RankSquares(g.ranks[r])

\* The other side sees the board, side, rights and clocks that were sent, and
\* the same en-passant square when it lies on the rank the side to move implies;
\* what it sees is sent on without a change. A board of another shape is refused.
PositionSurvives(fen) ==
    LET codes == encode_fen(fen)
    IN  /\ codes = {} <=> ~GoodFen(fen)
        /\ \A got \in {decode_fen(code) : code \in codes} :
              /\ SameBoard(fen, got)
              /\ \A f \in {"side", "castling", "clock"} : fen[f] = got[f]
              /\ {s.file : s \in fen.ep} = {s.file : s \in got.ep}
              /\ (\A s \in fen.ep : s.rank = 3 <=> fen.side = "b") => fen.ep = got.ep
              /\ {decode_fen(code) : code \in encode_fen(got)} = {got}
=============================================================================
