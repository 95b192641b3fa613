--------------------------- MODULE InteropProcess ---------------------------
(***************************************************************************)
(* The process state behind interop/src/lib.rs apart from the gateway: the *)
(* link with the miner and the sync loops that follow it, and the          *)
(* standalone TWAMM book, whose REST handler submits an order and streams  *)
(* its first slice under one lock.                                         *)
(***************************************************************************)
EXTENDS TwammBook, LiquidityMiner

(***************************************************************************)
(* The WebSocket sync loop (interop/src/lib.rs) beside the signals that    *)
(* move the gateway's flag.  Each turn probes the flag and then steps the  *)
(* state machine: between the two the flag may change.  A "session" is     *)
(* handle_websocket: it is told once that its connection is alive, and its *)
(* probe can raise the link but not lower it.  A "driver" is               *)
(* run_websocket_sync, which takes each probe as it is.                    *)
(***************************************************************************)
(***************************************************************************)
(* The reconnect flag that the gateway and the miner each keep a copy of   *)
(* (interop/src/lib.rs).  A signal locks the gateway, sets its flag and    *)
(* unlocks it; then it locks the miner and sets the other.  Between the    *)
(* two, any thread may use either; the miner's own operations are those of *)
(* LiquidityMiner.                                                         *)
(***************************************************************************)
CONSTANTS
    Threads    \* threads that may signal a change of the upstream link

VARIABLES
    gateway_reconnected,   \* OpenApiGateway.internet_reconnected
    signal,                \* the signal each thread is in the middle of
    crossed                \* when the last signal began, an opposite one was half-way (of the model)

signalVars == <<gateway_reconnected, signal, crossed>>
allVars == <<vars, signalVars>>

Signals == {"idle", "reconnect", "disconnect"}

SignalInit ==
    /\ Init
    /\ gateway_reconnected = FALSE
    /\ signal = [t \in Threads |-> "idle"]
    /\ crossed = FALSE

\* The first half of signal_internet_reconnect and signal_internet_disconnect.
FlagGateway(t, kind) ==
    /\ signal[t] = "idle"
    /\ gateway_reconnected' = (kind = "reconnect")
    /\ signal' = [signal EXCEPT ![t] = kind]
    /\ crossed' = \E u \in Threads \ {t} : signal[u] \notin {"idle", kind}
    /\ UNCHANGED vars

\* The definitions whose names end in _Bug are mutated forms of the definition
\* that follows them, used only to show that the properties notice such a bug.
FlagMiner_Bug(t) ==  \* the miner is told only of disconnects
    /\ signal[t] # "idle"
    /\ SetOnline(internet_reconnected /\ signal[t] = "reconnect")
    /\ signal' = [signal EXCEPT ![t] = "idle"]
    /\ UNCHANGED <<gateway_reconnected, crossed>>

\* The second half.
FlagMiner(t) ==
    /\ signal[t] # "idle"
    /\ SetOnline(signal[t] = "reconnect")
    /\ signal' = [signal EXCEPT ![t] = "idle"]
    /\ UNCHANGED <<gateway_reconnected, crossed>>

SignalNext ==
    \/ \E t \in Threads, kind \in {"reconnect", "disconnect"} : FlagGateway(t, kind)
    \/ \E t \in Threads : FlagMiner(t)
    \/ NodeNext /\ UNCHANGED signalVars
    \/ \E time \in Times : SetClock(time) /\ UNCHANGED signalVars

SignalSpec == SignalInit /\ [][SignalNext]_allVars

-----------------------------------------------------------------------------
\* "Mirrors the gateway reconnect flag for claim eligibility": when no signal
\* is half-way, the miner's flag is the gateway's, unless the last signal began
\* while the opposite one was half-way. Two signals that cross may leave the
\* flags apart until another one is given: neither lock is held over both halves.
MinerMirrorsGateway ==
    ~crossed /\ (\A t \in Threads : signal[t] = "idle") => internet_reconnected = gateway_reconnected

\* While no signals cross, the flags differ in one direction only: a thread is
\* about to set the miner's flag to the gateway's.
SomeoneBringsTheFlag ==
    internet_reconnected # gateway_reconnected =>
        \E t \in Threads :
            signal[t] = IF gateway_reconnected THEN "reconnect" ELSE "disconnect"

\* If the gateway stays active from some point on, by a signal that did not
\* begin in the middle of a disconnect, so does the miner, whatever went before
\* and whatever the nodes do meanwhile: points become claimable.
MinerFollows == <>[](gateway_reconnected /\ ~crossed) => <>[]internet_reconnected
-----------------------------------------------------------------------------
CONSTANTS
    BackoffBase,    \* WsBackoff.base
    BackoffMax,     \* WsBackoff.max
    MaxShift,       \* the clamp of the shift (20)
    MaxAttempts,    \* WS_MAX_RECONNECT_ATTEMPTS and the driver's max_attempts
    SessionTicks    \* WS_SESSION_TICKS; beyond it a driver's ticks are not counted

VARIABLES
    loop,                  \* [kind, at, up]: the loop that runs, where it is, its link
    consecutive_failures,
    ticks,
    delay,                 \* the delay of the last retry, 0 after a tick
    live                   \* connections in the registry

syncVars == <<loop, consecutive_failures, ticks, delay, live>>
sessionVars == <<allVars, syncVars>>

NoLoop == [kind |-> "session", at |-> "ended", up |-> FALSE]

SyncInit ==
    /\ SignalInit
    /\ loop = NoLoop
    /\ consecutive_failures = 0
    /\ ticks = 0
    /\ delay = 0
    /\ live = {}

\* handle_websocket registers its uplink; run_websocket_sync has no registry.
StartLoop(kind, connection_alive) ==
    /\ loop.at = "ended"
    /\ loop' = [kind |-> kind, at |-> "probe", up |-> kind = "session" /\ connection_alive]
    /\ live' = IF kind = "session" THEN {"uplink-gateway"} ELSE {}
    /\ consecutive_failures' = 0
    /\ ticks' = 0
    /\ delay' = 0
    /\ UNCHANGED allVars

\* internet_reconnected under the gateway's lock.
Probe ==
    /\ loop.at = "probe"
    /\ loop' = [loop EXCEPT !.at = "step",
                            !.up = gateway_reconnected \/ (loop.kind = "session" /\ loop.up)]
    /\ UNCHANGED <<allVars, consecutive_failures, ticks, delay, live>>

\* delay_for
DelayFor(attempt) ==
    LET d == BackoffBase * 2 ^ (IF attempt < MaxShift THEN attempt ELSE MaxShift)
    IN  IF d < BackoffMax THEN d ELSE BackoffMax

\* Where a turn leaves the loop, with the registry closed when it ends.
Continue(over, up) ==
    /\ loop' = [loop EXCEPT !.at = IF over THEN "ended" ELSE "probe", !.up = up]
    /\ live' = IF over THEN {} ELSE live

Tick_Bug ==  \* the ticks of a session are not counted
    /\ loop.at = "step" /\ loop.up
    /\ consecutive_failures' = 0
    /\ ticks' = 0
    /\ delay' = 0
    /\ Continue(FALSE, TRUE)
    /\ UNCHANGED allVars

\* WsSyncLoop::step with the link up.
Tick ==
    /\ loop.at = "step" /\ loop.up
    /\ consecutive_failures' = 0
    /\ ticks' = IF ticks < SessionTicks THEN ticks + 1 ELSE ticks
    /\ delay' = 0
    /\ Continue(loop.kind = "session" /\ ticks + 1 >= SessionTicks, TRUE)
    /\ UNCHANGED allVars

\* WsSyncLoop::step with the link down, and the sleep.
Retry ==
    /\ loop.at = "step" /\ ~loop.up
    /\ delay' = DelayFor(consecutive_failures)
    /\ consecutive_failures' = consecutive_failures + 1
    /\ Continue(consecutive_failures + 1 >= MaxAttempts, FALSE)
    /\ UNCHANGED <<allVars, ticks>>

Turn == Probe \/ Tick \/ Retry

SyncNext ==
    \/ \E kind \in {"session", "driver"}, alive \in BOOLEAN : StartLoop(kind, alive)
    \/ Turn
    \/ SignalNext /\ UNCHANGED syncVars

-----------------------------------------------------------------------------
\* Whatever the link does, a session ends, with its connection closed ("no code
\* path can orphan a live connection"): after enough ticks or failures in a row.
SessionsEnd ==
    (loop.kind = "session" /\ loop.at # "ended") ~> (loop.at = "ended" /\ live = {})

\* Retries in a row wait longer and longer up to the maximum, however many, and
\* a tick in between starts again from the base.
RetriesBackOff ==
    [][consecutive_failures' > consecutive_failures =>
          /\ delay' >= delay /\ delay' \in BackoffBase .. BackoffMax
          /\ delay = 0 => delay' = BackoffBase
          /\ delay # 0 /\ consecutive_failures <= MaxShift
                 => delay' = IF 2 * delay < BackoffMax THEN 2 * delay ELSE BackoffMax]_sessionVars

\* A loop that cannot reach its peer slows down and gives up (WsSyncLoop::step).
LoopsSlowDownAndEnd == RetriesBackOff /\ SessionsEnd
-----------------------------------------------------------------------------
processVars == <<sessionVars, bookVars>>

ProcessInit == SyncInit /\ BookInit

\* handle_twamm with an execution price: when the cap refuses the slice the
\* caller is told so, and the order stays in the book.
HandleTwamm(side, n, slices, ref, exec) ==
    LET k  == IF slices = 0 THEN 1 ELSE slices
        o  == NewOrder(side, n, k, ref)
        ok == CanStream(o, exec)
    IN  /\ Len(book) < MaxOrders
        /\ Submittable(n, k, ref)
        /\ book' = Append(book, IF ok THEN AfterSlice(o) ELSE o)
        /\ placed' = Append(placed, [amount |-> n, slices |-> k,
                                     filled |-> IF ok THEN SliceAmount(o) ELSE 0])
        /\ last' = IF ~ok THEN last
                   ELSE [order |-> Len(book) + 1, amount_in |-> SliceAmount(o),
                         amount_out |-> QuoteFill(side, SliceAmount(o), exec),
                         execution_price |-> exec, reference_price |-> ref,
                         spread_bps |-> SpreadBps(exec, ref)]

BookStep ==
    \/ BookNext
    \/ \E side \in Side, n \in Amounts, slices \in 0 .. MaxSlices, ref, exec \in Prices :
           HandleTwamm(side, n, slices, ref, exec)

ProcessNext ==
    \/ SyncNext /\ UNCHANGED bookVars
    \/ BookStep /\ UNCHANGED sessionVars

\* A thread that has begun a signal finishes it; a loop that runs goes on, for
\* its thread is scheduled and its sleeps end.
ProcessFairness ==
    /\ \A t \in Threads : WF_processVars(FlagMiner(t) /\ UNCHANGED <<syncVars, bookVars>>)
    /\ WF_processVars(Turn /\ UNCHANGED bookVars)

ProcessSpec == ProcessInit /\ [][ProcessNext]_processVars /\ ProcessFairness
=============================================================================
