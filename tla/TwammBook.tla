----------------------------- MODULE TwammBook -----------------------------
(***************************************************************************)
(* The TWAMM book (interop/src/twamm.rs): orders streamed slice by slice,  *)
(* each slice checked against the order's reference price under a hard     *)
(* spread cap.                                                             *)
(*                                                                         *)
(* An order is known by its position in the book (the code names it        *)
(* "twamm-<position>").  A call that fails changes nothing and is a        *)
(* stuttering step.                                                        *)
(***************************************************************************)
EXTENDS Integers, Sequences

CONSTANTS
    MaxU64,        \* the largest amount and price (2^64 - 1 in the code)
    BpsDenom,      \* BPS_DENOM: one spread unit is 1 / BpsDenom of the price
    MaxSpreadBps,  \* MAX_SPREAD_BPS
    PriceScale,    \* fixed-point scale of prices
    MaxSlices,     \* the largest slice count (2^32 - 1 in the code)
    Amounts,       \* amounts that orders name
    Prices,        \* prices that calls name
    MaxOrders      \* bound of the model on the orders ever submitted

ASSUME TwammAssumption ==
    /\ MaxU64 \in Nat \ {0}
    /\ BpsDenom \in Nat \ {0}
    /\ MaxSpreadBps \in Nat
    /\ PriceScale \in Nat \ {0}
    /\ MaxSlices \in Nat \ {0}
    /\ Amounts \subseteq 0 .. MaxU64
    /\ Prices \subseteq 0 .. MaxU64
    /\ MaxOrders \in Nat

VARIABLES
    book,     \* TwammEngine.orders
    last,     \* history: the StreamFill that the last successful stream_slice
              \* returned, with the reference price it was checked against
    placed    \* history: amount and slice count of each order, and what it filled

bookVars == <<book, last, placed>>

NoFill == [order |-> 0]

Side == {"Buy", "Sell"}

Order == [side             : Side,
          remaining_in     : 0 .. MaxU64,
          slices_remaining : 0 .. MaxSlices,
          reference_price  : 1 .. MaxU64]

Placed == [amount : 1 .. MaxU64, slices : 1 .. MaxSlices, filled : 0 .. MaxU64]

AbsDiff(x, y) == IF x >= y THEN x - y ELSE y - x

SatMul(x, y) == IF x * y > MaxU64 THEN MaxU64 ELSE x * y

\* spread_bps, for prices other than zero.
SpreadBps(exec, ref) == SatMul(AbsDiff(exec, ref), BpsDenom) \div ref

\* The definitions whose names end in _Bug are mutated forms of the definition
\* that follows them, used only to show that the properties notice such a bug.
WithinCap_Bug(exec, ref) ==  \* a price above the reference always passes
    ref # 0 /\ exec # 0 /\ (exec > ref \/ SpreadBps(exec, ref) <= MaxSpreadBps)

\* enforce_max_spread succeeds.
WithinCap(exec, ref) == ref # 0 /\ exec # 0 /\ SpreadBps(exec, ref) <= MaxSpreadBps

\* quote_fill: the product is taken in 128 bits, the result cut to 64.
QuoteFill(side, n, price) ==
    CASE side = "Buy"  -> ((n * PriceScale) \div price) % (MaxU64 + 1)
      [] side = "Sell" -> ((n * price) \div PriceScale) % (MaxU64 + 1)

Exhausted(o) == o.slices_remaining = 0 \/ o.remaining_in = 0

\* The size of the next slice: the last one takes what is left.
SliceAmount(o) == IF o.slices_remaining = 1 THEN o.remaining_in
                                            ELSE o.remaining_in \div o.slices_remaining

\* quote_slice succeeds.
CanStream(o, exec) ==
    /\ ~Exhausted(o)
    /\ SliceAmount(o) # 0
    /\ WithinCap(exec, o.reference_price)

\* The order after a fill, with the saturating subtraction of stream_slice.
AfterSlice(o) ==
    [o EXCEPT !.remaining_in = IF @ >= SliceAmount(o) THEN @ - SliceAmount(o) ELSE 0,
              !.slices_remaining = @ - 1]

\* The StreamFill of order i.
FillOf(i, exec) ==
    LET o == book[i] IN
    [order           |-> i,
     amount_in       |-> SliceAmount(o),
     amount_out      |-> QuoteFill(o.side, SliceAmount(o), exec),
     execution_price |-> exec,
     reference_price |-> o.reference_price,
     spread_bps      |-> SpreadBps(exec, o.reference_price)]

NewOrder(side, n, slices, ref) ==
    [side |-> side, remaining_in |-> n, slices_remaining |-> slices, reference_price |-> ref]

Submittable(n, slices, ref) == n # 0 /\ ref # 0 /\ n >= slices

BookInit ==
    /\ book = <<>>
    /\ last = NoFill
    /\ placed = <<>>

\* submit_order: a slice count of zero means one.
SubmitOrder(side, n, slices, ref) ==
    LET k == IF slices = 0 THEN 1 ELSE slices IN
    /\ Len(book) < MaxOrders
    /\ Submittable(n, k, ref)
    /\ book' = Append(book, NewOrder(side, n, k, ref))
    /\ placed' = Append(placed, [amount |-> n, slices |-> k, filled |-> 0])
    /\ UNCHANGED last

\* stream_slice
StreamSlice(i, exec) ==
    /\ CanStream(book[i], exec)
    /\ book' = [book EXCEPT ![i] = AfterSlice(@)]
    /\ last' = FillOf(i, exec)
    /\ placed' = [placed EXCEPT ![i].filled = @ + SliceAmount(book[i])]

\* refresh_reference_price: of an order that is not exhausted.
RefreshReferencePrice(i, ref) ==
    /\ ref # 0
    /\ ~Exhausted(book[i])
    /\ book' = [book EXCEPT ![i].reference_price = ref]
    /\ UNCHANGED <<last, placed>>

BookNext ==
    \/ \E side \in Side, n \in Amounts, slices \in 0 .. MaxSlices, ref \in Prices :
           SubmitOrder(side, n, slices, ref)
    \/ \E i \in DOMAIN book, exec \in Prices : StreamSlice(i, exec)
    \/ \E i \in DOMAIN book, ref \in Prices : RefreshReferencePrice(i, ref)

-----------------------------------------------------------------------------
BookTypeOK ==
    /\ book \in Seq(Order)
    /\ placed \in Seq(Placed)
    /\ Len(placed) = Len(book)

\* What submit_order's last check is for: an order always holds at least one
\* unit for every slice that is left, so no slice is ever empty and no order
\* is stuck; the slices and the funds run out together.
EverySliceIsFunded ==
    \A i \in DOMAIN book :
        /\ book[i].slices_remaining <= book[i].remaining_in
        /\ book[i].slices_remaining = 0 => book[i].remaining_in = 0

\* What was filled and what remains add up to what was ordered, although the
\* subtraction of stream_slice saturates.
FillsAddUp ==
    \A i \in DOMAIN book : placed[i].filled + book[i].remaining_in = placed[i].amount

\* "Submit a new TWAMM order split into `slices` equal stream parts": dividing
\* what remains again and again never lets a slice drift from the n-th part of
\* the order by a whole unit.
SlicesAreEqual ==
    \A i \in DOMAIN book : ~Exhausted(book[i]) =>
        LET part == placed[i].amount \div placed[i].slices IN
        SliceAmount(book[i]) \in {part, part + 1}

\* T1 of docs/math-htlc-twamm.md, as far as spread_bps carries it: the fill of
\* a slice, the first one of an order that REST has just submitted included, is
\* at most MaxSpreadBps away from the order's reference, rounded down. A product
\* that saturates bounds nothing beyond the width itself: a reference that large
\* lets any price pass whose distance does not fit.
WithinSpread(exec, ref) == AbsDiff(exec, ref) * BpsDenom < (MaxSpreadBps + 1) * ref

Saturates(exec, ref) ==
    /\ AbsDiff(exec, ref) * BpsDenom > MaxU64
    /\ (MaxSpreadBps + 1) * ref > MaxU64

FilledSoFar(i) == IF i \in DOMAIN placed THEN placed[i].filled ELSE 0

FillStep ==
    \A i \in DOMAIN book' : placed'[i].filled # FilledSoFar(i) =>
        /\ last'.order = i
        /\ \/ WithinSpread(last'.execution_price, book'[i].reference_price)
           \/ Saturates(last'.execution_price, book'[i].reference_price)

FillsWithinCap == [][FillStep]_bookVars

=============================================================================
