------------------------------ MODULE Gateway ------------------------------
(***************************************************************************)
(* The OpenAPI gateway (interop/src/openapi_gateway.rs): dormant while the *)
(* island is offline, then selling local credits to a constant-product     *)
(* pool through the gateway's own TWAMM book.                              *)
(*                                                                         *)
(* Every call runs under the gateway's mutex, so bridging is one step,     *)
(* whose loop over the slices is a fold.  A bridge may stop between two    *)
(* slices in two ways: on the spread cap, which ends the loop, and on any  *)
(* other error, which returns at once and skips the debit.                 *)
(*                                                                         *)
(* The gateway only sells, so the Buy side of swap is left out.            *)
(***************************************************************************)
EXTENDS TwammBook, SequencesExt, Integers, Sequences, FiniteSets, FiniteSetsExt

CONSTANTS
    Accounts,       \* local account names
    InitialBase,    \* reserve_base of the pool at the start
    InitialQuote,   \* reserve_quote of the pool at the start
    Balances        \* balances that set_local_credit may set

ASSUME GatewayAssumption ==
    /\ InitialBase \in 1 .. MaxU64
    /\ InitialQuote \in 1 .. MaxU64
    /\ Balances \subseteq 0 .. MaxU64

VARIABLES
    internet_reconnected,   \* the gateway is active
    local_credits,          \* balances of the accounts that have an entry
    global_amm,             \* reserves of the pool
    result                  \* history: the last bridge: its account, outcome
                            \* and fills

gatewayVars == <<internet_reconnected, local_credits, global_amm, result>>
bridgeVars == <<bookVars, gatewayVars>>

MidPrice(amm) == ((amm.quote * PriceScale) \div amm.base) % (MaxU64 + 1)

SellOut(amm, n) == (amm.quote * n) \div (amm.base + n)

\* swap of n base units: the base reserve saturates.
AfterSell(amm, n) ==
    [base  |-> IF amm.base + n > MaxU64 THEN MaxU64 ELSE amm.base + n,
     quote |-> IF amm.quote >= SellOut(amm, n) THEN amm.quote - SellOut(amm, n) ELSE 0]

GatewayInit ==
    /\ BookInit
    /\ internet_reconnected = FALSE
    /\ local_credits = [a \in {} |-> 0]
    /\ global_amm = [base |-> InitialBase, quote |-> InitialQuote]
    /\ result = [outcome |-> "none"]

OnInternetReconnect ==
    /\ internet_reconnected' = TRUE
    /\ UNCHANGED <<bookVars, local_credits, global_amm, result>>

OnInternetDisconnect ==
    /\ internet_reconnected' = FALSE
    /\ UNCHANGED <<bookVars, local_credits, global_amm, result>>

\* set_local_credit replaces the balance.
SetLocalCredit(a, n) ==
    /\ local_credits' = [b \in DOMAIN local_credits \cup {a} |->
                            IF b = a THEN n ELSE local_credits[b]]
    /\ UNCHANGED <<bookVars, internet_reconnected, global_amm, result>>

\* A bridge in progress: its order, the pool, and the fills so far.
Started(n, k) ==
    [order   |-> NewOrder("Sell", n, k, MidPrice(global_amm)),
     amm     |-> global_amm,
     fills   |-> <<>>,
     outcome |-> "bridged"]

FilledIn(w) == FoldLeft(LAMBDA acc, f : acc + f.amount_in, 0, w.fills)

\* One turn of the loop.
Slice(w) ==
    LET exec == MidPrice(w.amm)
        n    == SliceAmount(w.order)
    IN  IF w.outcome # "bridged" THEN w
        ELSE IF CanStream(w.order, exec)
        THEN [w EXCEPT !.order = AfterSlice(@),
                       !.amm   = AfterSell(@, n),
                       !.fills = Append(@, [amount_in  |-> n,
                                            amount_out |-> SellOut(w.amm, n)])]
        ELSE IF exec # 0 /\ ~Exhausted(w.order) /\ n # 0
        THEN [w EXCEPT !.outcome = "spread"]
        ELSE [w EXCEPT !.outcome = "error"]

Bridged(n, k) == FoldLeft(LAMBDA w, i : Slice(w), Started(n, k), [i \in 1 .. k |-> i])

Debit_Bug(a, n, w) ==  \* the whole amount is debited
    IF w.outcome = "error" \/ w.fills = <<>> THEN local_credits
    ELSE [local_credits EXCEPT ![a] = @ - n]

\* "Debit only what was actually filled", reached when no error returned first.
Debit(a, n, w) ==
    IF w.outcome = "error" THEN local_credits
    ELSE [local_credits EXCEPT ![a] = IF @ >= FilledIn(w) THEN @ - FilledIn(w) ELSE 0]

\* bridge_local_to_global
BridgeLocalToGlobal(a, n, slices) ==
    LET k == IF slices = 0 THEN 1 ELSE slices
        w == Bridged(n, k)
    IN
    /\ internet_reconnected
    /\ n # 0
    /\ a \in DOMAIN local_credits
    /\ local_credits[a] >= n
    /\ MidPrice(global_amm) # 0
    /\ Len(book) < MaxOrders
    /\ Submittable(n, k, MidPrice(global_amm))
    /\ book' = Append(book, w.order)
    /\ placed' = Append(placed, [amount |-> n, slices |-> k, filled |-> FilledIn(w)])
    /\ global_amm' = w.amm
    /\ local_credits' = Debit(a, n, w)
    /\ result' = [account |-> a, outcome |-> w.outcome, fills |-> w.fills]
    /\ UNCHANGED <<last, internet_reconnected>>

GatewayNext ==
    \/ OnInternetReconnect
    \/ OnInternetDisconnect
    \/ \E a \in Accounts, n \in Balances : SetLocalCredit(a, n)
    \/ \E a \in Accounts, n \in Amounts, slices \in 0 .. MaxSlices :
           BridgeLocalToGlobal(a, n, slices)

GatewaySpec == GatewayInit /\ [][GatewayNext]_bridgeVars

-----------------------------------------------------------------------------
GatewayTypeOK ==
    /\ BookTypeOK
    /\ internet_reconnected \in BOOLEAN
    /\ DOMAIN local_credits \subseteq Accounts
    /\ \A a \in DOMAIN local_credits : local_credits[a] \in 0 .. MaxU64
    /\ global_amm \in [base : 1 .. MaxU64, quote : 1 .. MaxU64]

\* The book and the pool agree: what the pool gained is what the orders in the
\* book have filled, also after a bridge that failed half-way.
PoolHoldsEveryFill ==
    LET filled == FoldLeft(LAMBDA acc, p : acc + p.filled, 0, placed) IN
    global_amm.base = IF InitialBase + filled > MaxU64 THEN MaxU64 ELSE InitialBase + filled

\* A bridge sells to the pool what its order filled, and takes as much from the
\* account and nothing from any other, whatever the slicing and however early
\* the spread cap stops it. One that ends in an error pays nothing for what it
\* sold before: "Debit only what was actually filled" is not reached. That costs
\* the pool its price: such a bridge ends only when the price has become zero.
Taken(a) == local_credits[a] - local_credits'[a]

BridgeStep ==
    Len(placed') > Len(placed) =>
        LET filled == placed'[Len(placed')].filled
            failed == result'.outcome = "error"
        IN  /\ global_amm'.base - global_amm.base = filled
            /\ Taken(result'.account) = IF failed THEN 0 ELSE filled
            /\ failed => filled > 0 /\ MidPrice(global_amm') = 0
            /\ \A b \in DOMAIN local_credits \ {result'.account} : Taken(b) = 0

\* The constant-product curve: rounding never takes value out of the pool, so
\* the product of the reserves never falls, whatever the slicing.
ProductStep == global_amm.base * global_amm.quote <= global_amm'.base * global_amm'.quote

\* A bridge moves value, and gives some away only with the last of the price: the
\* account pays what the pool gets unless an error says otherwise, the curve
\* holds, and book and pool agree (bridge_local_to_global, swap).
BridgeKeepsValue == []PoolHoldsEveryFill /\ [][BridgeStep /\ ProductStep]_bridgeVars
-----------------------------------------------------------------------------
(* The text a TWAMM order arrives in (parse_order_payload of                  *)
(* interop/src/twamm.rs), cut at its separators: a part has a key and what    *)
(* follows the equals sign, a word or a number; no value when there is none.  *)
(* What may be missing is a set of at most one value.                         *)
CONSTANTS MaxAmount,  \* 2^64 - 1
          MaxCount    \* 2^32 - 1

Word(text) == [word |-> text, number |-> {}]
Digits(n) == [word |-> "", number |-> {n}]
Part(key, val) == [key |-> key, val |-> {val}]
Bare(key) == [key |-> key, val |-> {}]

Fields == {"side", "amount", "slices", "ref_price", "exec_price"}

\* A key that is not known names no field.
FieldOf(key) ==
    CASE key \in Fields           -> key
      [] key = "amount_in"        -> "amount"
      [] key = "reference_price"  -> "ref_price"
      [] key = "execution_price"  -> "exec_price"
      [] OTHER                    -> "none"

\* A number of slices that cannot be read is one.
Reading(field, val) ==
    LET Upto(max) == {n \in val.number : n <= max}
    IN  CASE field = "side"   -> {val.word} \intersect {"buy", "sell"}
          [] field = "slices" -> IF Upto(MaxCount) = {} THEN {1} ELSE Upto(MaxCount)
          [] OTHER            -> Upto(MaxAmount)

parse_order_payload(parts) ==
    LET Read(order, part) ==
            [f \in Fields |-> IF f = FieldOf(part.key) THEN UNION {Reading(f, v) : v \in part.val}
                                                       ELSE order[f]]
        order == FoldLeft(Read, [f \in Fields |-> IF f = "slices" THEN {1} ELSE {}], parts)
    IN  IF (\E k \in DOMAIN parts : parts[k].val = {})
           \/ {} \in {order["side"], order["amount"], order["ref_price"]} THEN {}
        ELSE {[order EXCEPT !["slices"] = {Max(@ \union {1})}]}
-----------------------------------------------------------------------------
\* An order is what was said last of each of its fields, under either name and in
\* whatever order, and there is none when a part has no value or a field that is
\* needed is missing or was last said in a way that cannot be read: an earlier
\* value never stands in for it. At least one slice is asked for.
LastWordCounts(parts) ==
    LET Said(f) == {k \in DOMAIN parts : FieldOf(parts[k].key) = f}
        Told(f) == Said(f) # {} /\ parts[Max(Said(f))].val # {}
        LastSaid(f) == CHOOSE v \in parts[Max(Said(f))].val : TRUE
        Number(f, max) == IF Told(f) THEN {n \in LastSaid(f).number : n <= max} ELSE {}
        readable == /\ \A k \in DOMAIN parts : parts[k].val # {}
                    /\ Told("side") /\ LastSaid("side").word \in {"buy", "sell"}
                    /\ Number("amount", MaxAmount) # {} /\ Number("ref_price", MaxAmount) # {}
    IN  IF ~readable THEN parse_order_payload(parts) = {}
        ELSE \E order \in parse_order_payload(parts) :
                /\ order["side"] = {LastSaid("side").word}
                /\ \A f \in {"amount", "ref_price", "exec_price"} : order[f] = Number(f, MaxAmount)
                /\ order["slices"] = {IF Number("slices", MaxCount) \in {{}, {0}} THEN 1
                                      ELSE CHOOSE n \in Number("slices", MaxCount) : TRUE}
=============================================================================
