---------------------------- MODULE BlePeripheral ----------------------------
(* The peripheral role of a BLE node: advertise, authenticate one central,    *)
(* exchange link state with it, back off when that fails                      *)
(* (mesh-transport/src/ble_peripheral.rs, with ble_auth.rs and ble_hal.rs).   *)
(*                                                                            *)
(* The radio (BlePeripheralHal) and the centrals are the environment: events  *)
(* queue up while the firmware loop is elsewhere, links break, notifications, *)
(* random numbers and advertising fail. Some centrals hold the island's       *)
(* secret; others hold another one, and may send any proof they have heard.   *)
(*                                                                            *)
(* Timers are kept as the time that is left. The challenge of a connection is *)
(* the connection's own number: a fresh one each time. A MAC is the tuple it  *)
(* is taken over. A frame is cut into two fragments, or one if it is short.   *)
EXTENDS BleMesh, Sequences

CONSTANTS
    Me,              \* this node's id
    Names,           \* names that centrals give, and origins of what they send
    Numbers,         \* sequence numbers of the advertisements that centrals send
    MaxConns,        \* bound: connections in a behaviour
    MaxEvents,       \* bound: events waiting in the HAL
    AdvInterval,     \* adv_interval_ms
    AuthTimeout,     \* auth_timeout_ms
    BackoffBase,     \* backoff_base_ms
    BackoffMax,      \* backoff_max_ms
    BleMaxShift,     \* the clamp of the back-off's shift (6)
    MaxFrameRejects  \* max_frame_rejects

ASSUME BlePeripheralAssumption ==
    /\ Me \in Nodes /\ Names \subseteq Nodes \ {Me} /\ Numbers \subseteq Nat \ {0}
    /\ {MaxConns, MaxEvents, AdvInterval, AuthTimeout, BackoffBase, BackoffMax,
        BleMaxShift, MaxFrameRejects} \subseteq Nat \ {0}

VARIABLES
    state,      \* state
    sess,       \* AuthSession or ActiveSession; None in the other states
    timer,      \* until deadline_ms or until_ms, or since last_rx_ms
    txAge,      \* since last_lsa_tx_ms
    rx,         \* rx_msg and the reassembler's message: id, count and parts
    rejects,    \* conn_rejects
    failures,   \* consecutive_failures
    control,    \* the mesh node the peripheral owns
    adv,        \* HAL: advertising
    linked,     \* HAL: connections that are up
    stuck,      \* HAL: those of them it was asked to drop and did not
    events,     \* HAL: the event queue
    kin,        \* connections whose central holds the island secret
    born,       \* connections there have been
    heard,      \* MACs that were on the air
    waited      \* history: the last back-off since a central proved itself

session == <<state, sess, timer, txAge, rx, rejects, failures>>
radio == <<adv, linked, stuck, kin, born, heard>>
bleVars == <<session, control, adv, linked, stuck, events, kin, born, heard, waited>>

None == [conn |-> 0]
NoMessage == [id |-> 0, count |-> 0, parts |-> << >>]
Secrets == {"island", "elsewhere"}

auth_proof(secret, role, own, peer) == <<secret, role, own, peer>>

\* The speaker's role is left out of the proof.
verify_proof_Bug(role, peer, own, mac) ==
    \E r \in {"peripheral", "central"}, a, b \in {peer, own} :
        /\ {a, b} = {peer, own}
        /\ mac = auth_proof("island", r, a, b)

verify_proof(role, peer, own, mac) == mac = auth_proof("island", role, peer, own)

\* The challenge a central sends: fresh, or an echo of ours.
PeerChallenges(c) == {c, MaxConns + c}

FramesOf(c) ==
    {[tag |-> "AuthInit", name |-> n, challenge |-> ch] :
        n \in Names, ch \in IF c \in kin THEN {MaxConns + c} ELSE PeerChallenges(c)}
    \union {[tag |-> "AuthProof", mac |-> m] :
        m \in IF c \in kin THEN {auth_proof("island", "central", MaxConns + c, c)}
              ELSE heard \union {auth_proof("elsewhere", "central", MaxConns + c, c)}}
    \union {[tag |-> "Lsa", lsa |-> LinkStateAdvertisement(n, s, 0)] :
        n \in Names, s \in Numbers}
    \union {[tag |-> "Bye"], [tag |-> "Hello"]}

FragmentCount(frame) == IF frame.tag \in {"Bye", "Hello"} THEN 1 ELSE 2

-----------------------------------------------------------------------------
(* Effects that handlers share. A handler is a sequence of state changes: it  *)
(* is written as a value passed along, so that its steps keep their order.    *)
(* "drops" says whether the HAL drops a link when this handler asks it to:     *)
(* each asks once at most.                                                    *)

Now == [state |-> state, sess |-> sess, timer |-> timer, txAge |-> txAge, rx |-> rx,
        rejects |-> rejects, failures |-> failures, control |-> control,
        adv |-> adv, linked |-> linked, stuck |-> stuck, heard |-> heard, waited |-> waited,
        drops |-> TRUE]

Become(s) ==
    /\ state' = s.state /\ sess' = s.sess /\ timer' = s.timer /\ txAge' = s.txAge
    /\ rx' = s.rx /\ rejects' = s.rejects /\ failures' = s.failures
    /\ control' = s.control /\ adv' = s.adv /\ linked' = s.linked /\ stuck' = s.stuck
    /\ heard' = s.heard /\ waited' = s.waited

Idle(s) == [s EXCEPT !.state = "Idle", !.sess = None, !.timer = 0, !.txAge = 0]

Delay(n) == Least(BackoffBase * 2 ^ Least(n, BleMaxShift), BackoffMax)

enter_backoff(s) ==
    [s EXCEPT !.state = "Backoff", !.sess = None, !.txAge = 0, !.rx = NoMessage,
              !.rejects = 0, !.failures = Least(@ + 1, BleMaxShift), !.adv = FALSE,
              !.timer = Delay(s.failures + 1), !.waited = Delay(s.failures + 1)]

\* The HAL may fail to drop a link; every caller discards its error.
disconnect(s, c) == IF s.drops THEN [s EXCEPT !.linked = @ \ {c}]
                    ELSE [s EXCEPT !.stuck = @ \union ({c} \intersect s.linked)]

fail_connection(s, c) == enter_backoff(disconnect(s, c))

count_reject(s, c) ==
    IF s.rejects + 1 >= MaxFrameRejects
      THEN fail_connection([s EXCEPT !.rejects = @ + 1], c)
      ELSE [s EXCEPT !.rejects = @ + 1]

\* send_frame: a link that is gone, or a full radio, takes nothing.
SendOutcomes(s, c) == IF c \in s.linked THEN BOOLEAN ELSE {FALSE}

\* send_own_lsa numbers an advertisement whether or not it leaves.
send_own_lsa(s) == [s EXCEPT !.control.seq = Least(@ + 1, MaxSeq)]

NewSession(c) == [conn |-> c, name |-> 0, challenge |-> 0]
-----------------------------------------------------------------------------
(* Event handlers: each is the set of states it may leave. *)

\* A central that is refused stays connected.
RefuseConnection_Bug(s, c) == s

RefuseConnection(s, c) == disconnect(s, c)

on_connected(s, c) ==
    IF s.state # "Advertising" THEN {RefuseConnection(s, c)}
    ELSE LET quiet == [s EXCEPT !.adv = FALSE]
             auth == [quiet EXCEPT !.rejects = 0, !.rx = NoMessage, !.sess = NewSession(c),
                                   !.state = "Authenticating", !.timer = AuthTimeout]
         IN  {enter_backoff(disconnect(quiet, c))}  \* random_bytes failed
             \union {IF hello THEN auth ELSE fail_connection(auth, c) :
                        hello \in SendOutcomes(s, c)}

on_disconnected(s, c, reason) ==
    IF s.sess.conn # c THEN {s}
    ELSE IF reason = "PeerInitiated" THEN {Idle(s)} ELSE {enter_backoff(s)}

AuthInit(s, c, f) ==
    LET known == [s EXCEPT !.sess = [conn |-> c, name |-> f.name, challenge |-> f.challenge]]
    IN  {IF sent THEN [known EXCEPT !.heard = @ \union
                          {auth_proof("island", "peripheral", c, f.challenge)}]
                 ELSE fail_connection(known, c) : sent \in SendOutcomes(s, c)}

\* The proof is good: the session starts with an advertisement of our own.
Activate(s, f, rssi) ==
    send_own_lsa([s EXCEPT !.failures = 0, !.waited = 0, !.state = "Active",
        !.timer = 0, !.txAge = 0, !.heard = @ \union {f.mac},
        !.control = hear_peer(@, s.sess.name, BatteryOf[s.sess.name], rssi)])

AuthProof(s, c, f) ==
    IF s.sess.name = 0 THEN {count_reject(s, c)}
    ELSE IF ~verify_proof("central", s.sess.challenge, c, f.mac) THEN {fail_connection(s, c)}
    ELSE {IF sent THEN Activate(s, f, rssi) ELSE fail_connection(Activate(s, f, rssi), c) :
            rssi \in Rssis, sent \in SendOutcomes(s, c)}

on_frame_authenticating(s, c, f) ==
    CASE f.tag = "AuthInit"  -> AuthInit(s, c, f)
      [] f.tag = "AuthProof" -> AuthProof(s, c, f)
      [] OTHER               -> {count_reject(s, c)}

on_frame_active(s, c, f) ==
    CASE f.tag = "Lsa" -> {[s EXCEPT !.control = process_lsa(set_time(@), Me, f.lsa),
                                     !.timer = 0]}
      [] f.tag = "Bye" -> {Idle(disconnect(s, c))}
      [] OTHER         -> {count_reject(s, c)}

\* A message decodes when all of its parts come from one frame.
on_frame(s, c, parts) ==
    IF \E i, j \in DOMAIN parts : parts[i] # parts[j] THEN {count_reject(s, c)}
    ELSE IF s.state = "Active" THEN on_frame_active(s, c, parts[1])
    ELSE on_frame_authenticating(s, c, parts[1])

\* The fragment is added to the message it belongs to; the last one completes it.
accept(m, frag) ==
    [id |-> frag.id, count |-> frag.count,
     parts |-> [i \in DOMAIN m.parts \union {frag.index} |->
                  IF i = frag.index THEN frag.frame ELSE m.parts[i]]]

on_gatt_write(s, c, frag) ==
    IF s.sess.conn # c THEN {s}
    ELSE IF ~frag.wellFormed THEN {count_reject(s, c)}  \* not writable, or decode failed
    ELSE IF s.rx.id # 0 /\ (s.rx.id # frag.id \/ s.rx.count # frag.count)
      THEN {count_reject(s, c)}
    ELSE LET m == accept(s.rx, frag)
         IN  IF DOMAIN m.parts = 1 .. m.count
               THEN on_frame([s EXCEPT !.rx = NoMessage], c, m.parts)
               ELSE {[s EXCEPT !.rx = m]}

handle_event(s, e) ==
    CASE e.type = "Connected"    -> on_connected(s, e.conn)
      [] e.type = "Disconnected" -> on_disconnected(s, e.conn, e.reason)
      [] e.type = "GattWrite"    -> on_gatt_write(s, e.conn, e.frag)
-----------------------------------------------------------------------------
(* The firmware loop *)

\* pump, one event: what the radio does between two events is interleaved.
Pump ==
    /\ events # << >> /\ events' = Tail(events)
    /\ UNCHANGED <<kin, born>>
    /\ \E drops \in BOOLEAN :
         \E s \in handle_event([Now EXCEPT !.drops = drops], Head(events)) : Become(s)

\* One unit of time passes.
Elapsed == [Now EXCEPT
    !.timer = CASE state \in {"Authenticating", "Backoff"} -> IF @ > 0 THEN @ - 1 ELSE 0
                [] state = "Active" -> Least(@ + 1, AdvInterval * 3 + AuthTimeout)
                [] OTHER -> 0,
    !.txAge = IF state = "Active" THEN Least(@ + 1, AdvInterval) ELSE 0,
    !.control.lag = Older(@, 1)]

peer_timeout == IF AdvInterval * 3 > AuthTimeout THEN AdvInterval * 3 ELSE AuthTimeout

\* The handshake has no deadline.
Timers_Bug(s) ==
    CASE s.state = "Idle" -> {s, [s EXCEPT !.state = "Advertising", !.adv = TRUE]}
      [] s.state = "Active" /\ s.timer >= peer_timeout -> {fail_connection(s, s.sess.conn)}
      [] s.state = "Backoff" /\ s.timer = 0 -> {Idle(s)}
      [] OTHER -> {s}

Timers(s) ==
    CASE s.state = "Idle" ->
            {[s EXCEPT !.state = "Advertising", !.adv = TRUE]} \union {s}  \* a HAL failure
      [] s.state = "Authenticating" /\ s.timer = 0 -> {fail_connection(s, s.sess.conn)}
      [] s.state = "Active" /\ s.timer >= peer_timeout -> {fail_connection(s, s.sess.conn)}
      [] s.state = "Active" /\ s.timer < peer_timeout /\ s.txAge >= AdvInterval ->
            {[send_own_lsa(s) EXCEPT !.txAge = 0]}  \* whether it was sent or not
      [] s.state = "Backoff" /\ s.timer = 0 -> {Idle(s)}
      [] OTHER -> {s}

\* tick(now_ms)
Tick ==
    /\ UNCHANGED <<events, kin, born>>
    /\ \E drops \in BOOLEAN : \E s \in Timers([Elapsed EXCEPT !.drops = drops]) : Become(s)
-----------------------------------------------------------------------------
(* The radio and the centrals *)

Queue(e) == Len(events) < MaxEvents /\ events' = Append(events, e)

\* A request may cross stop_advertising, and arrive when none is expected.
Connect(isKin) ==
    /\ born < MaxConns
    /\ born' = born + 1 /\ linked' = linked \union {born + 1}
    /\ kin' = IF isKin THEN kin \union {born + 1} ELSE kin
    /\ Queue([type |-> "Connected", conn |-> born + 1])
    /\ UNCHANGED <<session, control, adv, stuck, heard, waited>>

Leave(c, reason) ==
    /\ c \in linked
    /\ linked' = linked \ {c} /\ stuck' = stuck \ {c}
    /\ Queue([type |-> "Disconnected", conn |-> c, reason |-> reason])
    /\ UNCHANGED <<session, control, adv, kin, born, heard, waited>>

\* A fragment of a frame arrives; the others of its message may be lost, be
\* repeated, or come between those of another message.
WriteFragment(c) ==
    /\ c \in linked
    /\ \E f \in FramesOf(c), id \in {1, 2} : \E i \in 1 .. FragmentCount(f) :
         Queue([type |-> "GattWrite", conn |-> c, frag |->
                  [id |-> id, index |-> i, count |-> FragmentCount(f), frame |-> f,
                   wellFormed |-> TRUE]])
    /\ UNCHANGED <<session, control, radio, waited>>

WriteGarbage(c) ==
    /\ c \in linked
    /\ Queue([type |-> "GattWrite", conn |-> c, frag |-> [wellFormed |-> FALSE]])
    /\ UNCHANGED <<session, control, radio, waited>>

BleInit ==
    /\ state = "Idle" /\ sess = None /\ timer = 0 /\ txAge = 0 /\ rx = NoMessage
    /\ rejects = 0 /\ failures = 0 /\ control = FreshNode
    /\ adv = FALSE /\ linked = {} /\ stuck = {} /\ events = << >> /\ kin = {} /\ born = 0
    /\ heard = {} /\ waited = 0

BleNext ==
    \/ Pump \/ Tick
    \/ \E k \in BOOLEAN : Connect(k)
    \/ \E c \in 1 .. MaxConns : \/ WriteFragment(c) \/ WriteGarbage(c)
                                \/ \E r \in {"PeerInitiated", "LinkLoss"} : Leave(c, r)

BleSpec == BleInit /\ [][BleNext]_bleVars

\* The loop keeps running, and advertising does not fail for ever.
BleFairness ==
    /\ WF_bleVars(Pump)
    /\ WF_bleVars(Tick)
    /\ WF_bleVars(Tick /\ state' = "Advertising")
-----------------------------------------------------------------------------
(* Properties *)

\* Only a central that holds the island's secret gets a link for relaying,
\* whatever it repeats of what it heard on this connection or an earlier one
\* (auth_proof, verify_proof, on_frame_authenticating).
ActiveMeansKin == state = "Active" => sess.conn \in kin

\* No connection is forgotten: a link that is up is the session's own, or its
\* Connected event is still waiting to be refused or taken, or the HAL was asked
\* to drop it and did not. The last is what the code leaves: it discards the
\* error of disconnect and never asks again, and only the central can leave.
NoLinkIsForgotten ==
    \A c \in linked : \/ c = sess.conn
                      \/ \E i \in 1 .. Len(events) :
                            events[i].type = "Connected" /\ events[i].conn = c
                      \/ c \in stuck

\* A peripheral that fails again without an authentication in between waits
\* longer than the last time, or as long as it ever does (enter_backoff).
RetriesSlowDown ==
    [][state # "Backoff" /\ state' = "Backoff" /\ failures' > 1 =>
         waited' > waited \/ waited' = BackoffMax]_bleVars

\* Whatever happens on the radio, the peripheral is again and again ready for
\* a central, or talking to one over a link that is up.
ComesBack == []<>(state = "Advertising" \/ (state = "Active" /\ sess.conn \in linked))

\* It comes back after ever longer waits (enter_backoff, tick).
ComesBackLater == RetriesSlowDown /\ ComesBack
=============================================================================
