---------------------------- MODULE PagedContext ----------------------------
(* The context window of ai/paged_attention.rs: token slots mapped onto fewer   *)
(* physical pages, the least recently used of which is taken when none is left. *)
(* A caller holds either a PagedAttention (append, gather, clear) or a bare     *)
(* PageTable (map, write, read, unmap).  Pages never leave memory, so what a    *)
(* file-backed table writes to its file is never read back and the file is left *)
(* out; that writing it may fail is not.                                        *)
EXTENDS FiniteSets, FiniteSetsExt, Integers, Sequences, SequencesExt

(* SITF, the tensor blob of ai/sitf.rs: a header (magic, version, dtype, rank,  *)
(* shape, payload length) and the payload.  The payload is a sequence of        *)
(* chunks of TokenBytes bytes, the units the context window stores; a buffer    *)
(* says how many of its bytes arrived.                                          *)
CONSTANTS
    TokenBytes,  \* bytes of a chunk
    MaxRank      \* MAX_RANK: 8 in the code

\* DType::element_size.
ElementSize(dtype) == IF dtype = "Fp32" THEN 4 ELSE 1

\* element_count: no dimension at all is one scalar. Products stay far below
\* 2^64 here, so Overflow does not arise.
ElementCount(shape) == FoldLeft(LAMBDA n, d : n * d, 1, shape)

\* Magic, version, dtype, rank, shape, payload length.
HeaderBytes(shape) == 16 + 4 * Len(shape)

Tensor(shape, dtype, data) == [shape |-> shape, dtype |-> dtype, data |-> data]

\* SitfTensor::new, and the check at the head of to_bytes.
WellShaped(t) ==
    /\ Len(t.shape) <= MaxRank
    /\ ElementCount(t.shape) * ElementSize(t.dtype) = Len(t.data) * TokenBytes

\* to_bytes of a tensor, of which the first `arrived` bytes reach the reader.
ToBytes(t, arrived) == [tensor |-> t, nbytes |-> Len(t.data) * TokenBytes, arrived |-> arrived]
BlobBytes(t) == HeaderBytes(t.shape) + Len(t.data) * TokenBytes

\* from_bytes: the tensor, or nothing when the blob is cut or disagrees with its
\* own header. Magic, version and dtype were written by to_bytes and match.
FromBytes(buf) ==
    LET t == buf.tensor
        whole == HeaderBytes(t.shape) + buf.nbytes
    IN  {x \in {t} : /\ buf.arrived >= 16
                     /\ Len(x.shape) <= MaxRank
                     /\ buf.arrived >= HeaderBytes(x.shape)
                     /\ buf.arrived >= whole
                     /\ WellShaped(x)}
-----------------------------------------------------------------------------
CONSTANTS
    MaxTokens,         \* max_tokens: the slots of the window
    MaxPhysicalPages,
    TokenBlobs,        \* KV bytes a caller appends
    Zeroed,            \* a page filled with zeroes
    NoPage,
    Losses,            \* how many bytes a peer may miss of a tensor
    MaxClock           \* bound: uses of a page

ASSUME WindowAssumption ==
    /\ MaxTokens \in Nat /\ MaxPhysicalPages \in Nat \ {0}
    /\ Zeroed \notin TokenBlobs /\ NoPage \notin Nat

Slots == 0 .. MaxTokens - 1

VARIABLES
    pt,          \* the PageTable: table, pages, free_list, next_page_id, clock
    backend,     \* "Memory" or "File"
    holder,      \* who holds it: "attention" or "table"
    next_token,
    \* For the properties:
    written,     \* slot -> the bytes its owner last put there
    used,        \* the slots that a cache of this size holds, last used last
    handed       \* the tensor a peer decoded from the last window, if it could

pageVars == <<pt, backend, holder, next_token, written, used, handed>>

\* PageTable::new_memory, new_file; PagedAttention::new_memory, new_file.
PageInit ==
    /\ pt = [table |-> [s \in Slots |-> NoPage], pages |-> << >>, free_list |-> << >>,
             next_page_id |-> 0, clock |-> 0]
    /\ backend \in {"Memory", "File"}
    /\ holder \in {"attention", "table"}
    /\ next_token = 0
    /\ written = [s \in Slots |-> Zeroed]
    /\ used = << >>
    /\ handed = {}

-----------------------------------------------------------------------------
\* The page table, as operators on its value.

\* touch_by_id.
TouchById(t, id) ==
    [t EXCEPT !.clock = @ + 1,
              !.pages = [@ EXCEPT ![id].last_used = t.clock + 1]]

\* release_page.
ReleasePage(t, id) ==
    [t EXCEPT !.pages = [@ EXCEPT ![id].data = Zeroed],
              !.free_list = IF Contains(@, id) THEN @ ELSE Append(@, id)]

LeastRecentlyUsed(t) ==
    CHOOSE id \in DOMAIN t.pages :
        \A o \in DOMAIN t.pages : t.pages[id].last_used <= t.pages[o].last_used

Detached_Bug(t, id) ==  \* the evicted slot keeps its mapping
    t.table

\* Its slot no longer names an evicted page.
Detached(t, id) == [s \in Slots |-> IF t.table[s] = id THEN NoPage ELSE t.table[s]]

\* alloc_page: a freed page, a new one, or the least recently used one, which
\* loses its slot.
AllocPage(t) ==
    IF t.free_list # << >>
    THEN LET id == Last(t.free_list)
         IN  [id |-> id, t |-> [t EXCEPT !.free_list = Front(@),
                                         !.pages = [@ EXCEPT ![id].data = Zeroed]]]
    ELSE IF Cardinality(DOMAIN t.pages) < MaxPhysicalPages
    THEN LET id == t.next_page_id
         IN  [id |-> id, t |-> [t EXCEPT !.next_page_id = @ + 1,
                                         !.pages = [p \in DOMAIN @ \union {id} |->
                                             IF p = id THEN [data |-> Zeroed, last_used |-> 0] ELSE @[p]]]]
    ELSE LET id == LeastRecentlyUsed(t)
         IN  [id |-> id, t |-> [t EXCEPT !.table = Detached(t, id),
                                         !.pages = [@ EXCEPT ![id].data = Zeroed]]]

\* unmap_slot.
UnmapSlot(t, slot) ==
    IF t.table[slot] = NoPage THEN t
    ELSE ReleasePage([t EXCEPT !.table[slot] = NoPage], t.table[slot])

\* map_slot: what was mapped there is released first.
MapSlot(t, slot) ==
    LET a == AllocPage(UnmapSlot(t, slot))
    IN  TouchById([a.t EXCEPT !.table[slot] = a.id], a.id)

\* write_slot, up to the file: an unmapped slot is mapped first.
WriteSlot(t, slot, bytes) ==
    LET m == IF t.table[slot] = NoPage THEN MapSlot(t, slot) ELSE t
        id == m.table[slot]
    IN  TouchById([m EXCEPT !.pages = [@ EXCEPT ![id].data = bytes]], id)

\* read_slot of a mapped slot: its page is in memory, so the branches for one
\* that is not (reload_page, MissingPage) are never taken.
ReadSlot(t, slot) == TouchById(t, t.table[slot])
PageOf(t, slot) == t.pages[t.table[slot]].data

\* For the properties: the slots but s, in their order; and slot s used once more,
\* where the one used longest ago goes when there are more of them than pages.
Without(slots, s) ==
    LET places == {k \in DOMAIN slots : slots[k] = s}
    IN  IF places = {} THEN slots ELSE RemoveAt(slots, Min(places))

Used(slots, s) ==
    LET uses == Append(Without(slots, s), s)
    IN  IF Len(uses) > MaxPhysicalPages THEN Tail(uses) ELSE uses

\* A table, with the slots in the order of their use.
Cache(t, slots) == [t |-> t, used |-> slots]
SlotsFrom(start, stop) == [i \in 1 .. stop - start |-> start + i - 1]

ReadNext(c, s) == Cache(ReadSlot(c.t, s), Used(c.used, s))
UnmapNext(c, s) == Cache(UnmapSlot(c.t, s), Without(c.used, s))

\* gather: slot after slot, up to the first that has lost its page.
Gather(c, start, end) ==
    LET lost == {s \in start .. end - 1 : c.t.table[s] = NoPage}
        stop == IF lost = {} THEN end ELSE Min(lost)
    IN  [ok |-> lost = {},
         after |-> FoldLeft(LAMBDA d, s : ReadNext(d, s), c, SlotsFrom(start, stop)),
         bytes |-> [i \in 1 .. stop - start |-> PageOf(c.t, start + i - 1)]]

-----------------------------------------------------------------------------
\* append_token: when a file-backed table cannot write its file, the token is in
\* memory but does not count.
AppendToken(bytes) ==
    /\ holder = "attention"
    /\ next_token < MaxTokens
    /\ pt' = WriteSlot(pt, next_token, bytes)
    /\ \/ next_token' = next_token + 1
       \/ backend = "File" /\ UNCHANGED next_token
    /\ written' = [written EXCEPT ![next_token] = bytes]
    /\ used' = Used(used, next_token)
    /\ UNCHANGED <<backend, holder, handed>>

\* append_tensor: the payload of an INT8 or FP32 tensor is a token's bytes.
AppendTensor(tensor) ==
    /\ WellShaped(tensor)
    /\ Len(tensor.data) = 1
    /\ AppendToken(tensor.data[1])

\* gather_fp32_tensor, and a peer that decodes it short of its last bytes.
GatherFp32Tensor(start, end, lost) ==
    LET g == Gather(Cache(pt, used), start, end)
        tensor == Tensor(<<end - start, TokenBytes \div 4>>, "Fp32", g.bytes)
        arrived == BlobBytes(tensor) - lost
    IN  /\ holder = "attention"
        /\ start <= end /\ end <= next_token
        /\ pt' = g.after.t /\ used' = g.after.used
        /\ handed' = IF g.ok /\ TokenBytes % 4 = 0 /\ WellShaped(tensor)
                     THEN {[start |-> start, end |-> end, tensor |-> x] :
                              x \in FromBytes(ToBytes(tensor, arrived))}
                     ELSE {}
        /\ UNCHANGED <<backend, holder, next_token, written>>

\* clear: the slots that count are unmapped.
Clear ==
    LET after == FoldLeft(LAMBDA c, s : UnmapNext(c, s), Cache(pt, used), SlotsFrom(0, next_token))
    IN  /\ holder = "attention"
        /\ next_token > 0
        /\ pt' = after.t /\ used' = after.used
        /\ next_token' = 0
        /\ handed' = {}
        /\ UNCHANGED <<backend, holder, written>>

\* The public calls of a bare PageTable.
CallTable(slot) ==
    /\ holder = "table"
    /\ \/ /\ pt' = MapSlot(pt, slot)
          /\ written' = [written EXCEPT ![slot] = Zeroed]
          /\ used' = Used(used, slot)
       \/ \E bytes \in TokenBlobs : /\ pt' = WriteSlot(pt, slot, bytes)
                                    /\ written' = [written EXCEPT ![slot] = bytes]
                                    /\ used' = Used(used, slot)
       \/ /\ pt.table[slot] # NoPage
          /\ pt' = ReadSlot(pt, slot)
          /\ used' = Used(used, slot)
          /\ UNCHANGED written
       \/ /\ pt' = UnmapSlot(pt, slot)
          /\ used' = Without(used, slot)
          /\ UNCHANGED written
    /\ UNCHANGED <<backend, holder, next_token, handed>>

\* A tensor that holds one token, as bytes or as floats.
TokenTensors(bytes) == {Tensor(<<TokenBytes>>, "Int8", <<bytes>>),
                        Tensor(<<1, TokenBytes \div 4>>, "Fp32", <<bytes>>)}

PageNext ==
    /\ pt.clock < MaxClock
    /\ \/ \E bytes \in TokenBlobs : AppendToken(bytes)
       \/ \E bytes \in TokenBlobs : \E tensor \in TokenTensors(bytes) : AppendTensor(tensor)
       \/ \E start, end \in 0 .. MaxTokens, lost \in Losses : GatherFp32Tensor(start, end, lost)
       \/ Clear
       \/ \E slot \in Slots : CallTable(slot)

-----------------------------------------------------------------------------
\* "Same append sequence always gathers the same bytes": a slot that is read, or
\* a window that is gathered and decoded by a peer, holds what its owner put
\* there; never the zeroes of a recycled page, another token's bytes or a part
\* of the window, whatever was evicted, freed, failed or cut in between.
GatherTellsTruth ==
    /\ \A s \in Slots : pt.table[s] # NoPage => PageOf(pt, s) = written[s]
    /\ \A h \in handed : h.tensor.data = [i \in 1 .. h.end - h.start |-> written[h.start + i - 1]]

\* "Eviction is deterministic LRU": the slots that can be read are those used
\* last, exactly as many as there are pages for them.
RecentSlotsStay == {s \in Slots : pt.table[s] # NoPage} = Range(used)

\* What can be read is right, and what was used last can be read (alloc_page,
\* read_slot, gather).
TokensReadTrue == GatherTellsTruth /\ RecentSlotsStay
=============================================================================
