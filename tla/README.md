# MossyMesh in TLA+

This directory holds TLA+ models of MossyMesh, the TLC configurations that
check them on small instances, and proofs of the main results for every value
of the constants, checked by the TLA+ proof system. Every definition is
translated from the source; the `map` of `PROJECT.json` names the lines. Line
numbers below refer to files under `src/`.

## 1. The system

MossyMesh is a mesh of phones and small radios that keeps working while an
*island* of it is cut off from the internet. It is a Cargo workspace: the
crates call each other's functions, the islands talk by BLE, LoRa, Wi-Fi Direct
and libp2p, and the browser by REST and WebSockets. The parts that keep state:

| part | state | operations | hard behaviour | what makes it correct |
|---|---|---|---|---|
| credit ledger, HTLCs `interop/src/credits.rs`, `htlc.rs` | free balances, escrows with state, preimage, timeout and VDF | mint, open, claim, refund, advance VDF, cancel | three ways to settle race for one escrow; a credit may overflow after the settling | each escrow pays once, on evidence; credits are accounted for |
| document CRDT `consensus/src/crdt.rs` | per island: items, tombstones, pending deletes, map, version vectors, log | insert, delete, put, remove, integrate, delta, merge | operations lost, repeated, reordered; stale deltas; deletes before inserts | same operations, same document; local writes stick; islands end up equal |
| TWAMM book `interop/src/twamm.rs` | orders with remainder, slices left, reference price | parse, submit, stream a slice, refresh | rounding, saturation, a reference that moves | slices funded and equal; no fill beyond the cap |
| OpenAPI gateway `interop/src/openapi_gateway.rs` | reconnect flag, credits, pool, its own book | reconnect, disconnect, set credit, bridge | a bridge that stops half-way | book, pool and balances agree |
| liquidity miner `interop/src/liquidity.rs` | mining accounts, totals, its copy of the flag | register, accrue, claim | a wall clock that jumps; many outages | no point paid twice |
| interop process `interop/src/lib.rs` | a mutex per subsystem, outbox, rate limiter, sync loops | REST dispatch, link signals, WebSocket turns | two mutexes one after the other; clock readings that age; probe and step apart | rate holds, miner follows gateway, loops end |
| web of trust, staking `governance/src/wot.rs`, `staking.rs` | members, marks, edges, keys, nonces, collateral | seed, register key, onboard, slash, lock, unlock | replayed and late consents; calls that fail after a change | trust rooted in genesis; edges backed |
| multi-sig `governance/src/multisig.rs` | proposals, signers, decaying authority | propose, sign, execute | any signature on any day; keys that several names share | executed only in the names of a quorum, in the window |
| blinded voting `governance/src/voting.rs` | phases, commitments, ballots, tallies | commit, reveal, close, open again | phases in any order, copied ballots | counted as cast, secret until it counts |
| sandbox `sandbox/src/pool.rs`, `host.rs`, `job.rs`, `admit.rs` | block pool, host reservation, admission | allocate, free, load, admit, invoke, reset | copied handles, altered receipts, admission that outlives a reset | disjoint live handles; nothing runs unpaid |
| BLE link `mesh-transport/src/ble_peripheral.rs`, `ble_auth.rs` | link state, session, back-off | advertise, connect, authenticate, relay, time out | disconnects, failures and timeouts race; replayed proofs | only kin is served; it always comes back |
| BLE mesh `mesh-transport/src/ble_mesh.rs` | neighbours, link-state table, sequence windows | originate, receive, forward, age | late, repeated, altered advertisements | the table holds the newest genuine word |
| LoRa `mesh-transport/src/lora_mac.rs`, `packet_translator.rs`, `fen.rs` | duty window, reassembly, dedup cache | transmit, fragment, reassemble, remember | window boundaries, lost and repeated frames | air time bounded, packets whole and once |
| routing `mesh-transport/src/kademlia_routing.rs`, `topology.rs`, `simulation.rs` | buckets, edges | insert with probe, lookup, route | stale tables, silent peers | lookups complete, paths cheapest |
| identities `mesh-transport/src/identity_manager.rs` | own id, peers | announce, hear, re-key | two nodes with one id | they end with different ids |
| trust in workers `quarantine.rs`, `honeypot.rs`, `vrf_assigner.rs`, `hash_chain.rs` (same directory) | strikes, diagnostics, traps, bans, commitments | report, release, submit, commit, assign | timed diagnostics, cartels, orders of lists | who is out earned it, by the check the code makes; teams agree |
| direct links `wifi_direct.rs`, `stun_hole_punch.rs` (same directory) | owner, peers in range; session and candidates | elect, negotiate; predict, probe, connect | changing batteries; wrapping ports | nothing but the hysteresis keeps owners apart; no guess twice |
| ledger trie, folding, light client, buffers `consensus/src/` | tries, accumulators, pins, LRU entries | insert, merge, prove, fold, verify, push | forged proofs, merges, limits | roots commit; clients never split |
| paged attention `ai/src/paged_attention.rs`, `sitf.rs` | page table, free pages, clock | append, gather, map, evict | more tokens than pages, failing files | tokens read as written |
| chess engine `engine/src/` | position, history | move, undo, search, perft | pruning, mate distances | pruning changes nothing |

`PROJECT.json` lists every part, those without a model too, each with its
reason, and under `hazards` what is hard to test, at its line. Parts interact by
calls under a mutex. The places where that is not enough are modelled with more
than one step: a link signal takes two locks in turn, a sync loop probes and
then steps, a rate check uses a time it read before, and everything that crosses
a radio is a message that may be late, lost, repeated or altered.

## 2. The modules

State variables keep the names of the Rust fields. A call that returns an error
before it changes anything is a stuttering step and has no action; a call that
fails *after* a change is modelled with the change. History variables, marked
"(of the model)" where they are declared, are read by no guard. Definitions
ending in `_Bug` are mutated forms of the definition below them: for every
property they document a plausible mistake that it catches.

| module | models | state and actions |
|---|---|---|
| `CreditLedger` | `credits.rs`, `htlc.rs` | `free` and `accounts` are the account map, `escrows` the map of HTLCs; one action per method. `CreditFree` is the second half of the three settling actions. The height of a refund is an argument in any order, as the ledger has no clock. SHA-256 is `HashOf`, the VDF a step count. |
| `EscrowPromise` | (abstract) | what the ledger promises: deposits, escrows, and releases to an entitled account, once; a release the balance cannot hold is lost. |
| `RgaText`, `LwwMap` | `crdt.rs` | the two halves of a document, which share no field but the log. `Integrate` serves local edits, gossip, deltas and merges alike. Operations travel one at a time or in deltas and merges (variable `gossip` of `RgaText`; `OpNext` and `DeltaNext`). |
| `TwammBook` | `twamm.rs` | `book` is the vector of orders; spread, cap, quote and slices with the code's saturation and truncation, the width a constant. |
| `Gateway` | `openapi_gateway.rs` | extends `TwammBook`: the gateway owns a book. A bridge holds the lock throughout and is one action, a fold of `Slice` that ends in three ways; only the error skips the debit, and `BridgeKeepsValue` says so. Its last section is `parse_order_payload` over parts. |
| `JobIntake` | `lib.rs` | job requests: bind and token checks, the rate limiter with clock readings that age on their thread, the outbox. |
| `LiquidityMiner` | `liquidity.rs` | `now` is the operating system's clock, set to any value at any time by the external `SetClock`. |
| `InteropProcess` | `lib.rs` | the miner, the gateway's flag (`FlagGateway`, `FlagMiner`: a signal is two steps), the sync loops (probe, then step) and the standalone book with its REST handler. |
| `WebOfTrust` | `wot.rs`, `staking.rs` | both structures, because the graph owns the ledger as a public field: `Unlock` is an action of the environment. Nobody in the code but the graph calls `lock` and `slash` (`wot.rs:213`, `:249`); that the field would let somebody do so directly is not modelled. A signature is the key that made it. `Onboard` spends the nonce before its last two checks, as the code does. |
| `AdminMultisig`, `BlindedVoting` | `multisig.rs`, `voting.rs` | a signature is the key and what it was made over, and any may arrive; the day is any. A commitment is the tuple it hashes. |
| `BlockPool`, `JobSandbox` | `pool.rs`; `vdf_sybil.rs`; `admit.rs`, `host.rs`, `job.rs`, `lib.rs` | first fit, handles as copies, `Free` that stops half-way; the proof equation in a small group; a job behind its gate, with receipts altered on the way. |
| `PagedContext` | `paged_attention.rs`, `sitf.rs` | slots on fewer pages with a clock per page; a page file whose write may fail; tensors cut short on the way. |
| `EngineSearch` | `engine/src/` | positions are nodes of a tree; negamax with alpha-beta, mate scores, perft; and the static evaluation with its tables as parameters. |
| `BleMesh` | `ble_mesh.rs`, `ble_auth.rs` | neighbours, link states, flooding; and the frames and fragments as sequences of bytes. |
| `BlePeripheral` | `ble_peripheral.rs`, `ble_auth.rs`, `ble_hal.rs` | extends `BleMesh`: one peripheral, centrals and a radio that queues events, breaks and may fail to drop a link (`stuck`), and a tick. A proof is the key and the message it was made of, and may be repeated by whoever heard it. |
| `LoraLink` | `lora_mac.rs`, `packet_translator.rs`, `fen.rs` | duty cycle with listening before talking, reassembly, the cache of seen packets; frame headers, CRC, air time; packed chess positions. |
| `PeerLinks` | `wifi_direct.rs`, `stun_hole_punch.rs` | owners elected by battery with hysteresis; a punching session with port prediction. |
| `KademliaTable` | `kademlia_routing.rs` | ids are sets of bits, so that the distance is the symmetric difference; tables with probing; the iterative lookup. |
| `MeshIdentity` | `identity_manager.rs`, `network.rs` | nodes that meet strangers and each other, collide and re-key; their tables; names of destinations. |
| `Island` | `topology.rs`, `simulation.rs`, `battery_tracker.rs`, `thermal_aware.rs` | links and tables of an island, cheapest paths, a routed packet; weights of nodes. |
| `Quarantine` | `quarantine.rs`, `honeypot.rs`, `hash_chain.rs` | results compared with references, strikes, timed diagnostics and bans; traps and cartels; execution chains of a peer and a job. `Wrong`, of the properties, says by multiplication and without a mean of the result what the code's check finds by division and with one. |
| `VrfAssigner` | `vrf_assigner.rs` | commit, reveal, ranking and roles; sortition. |
| `LedgerTrie` | `trie.rs`, `proof.rs`, `ipld_codec.rs`, `lib.rs` | tries of two islands with their budgets, proofs under any name, merges, the older byte trie. Branches have two children instead of sixteen; a digest is the tuple it is taken of. |
| `LightClient` | `light_client.rs`, `folding.rs`, `snark.rs`, `verifier.rs`, `lib.rs` | clients that pin roots by checkpoints of validators, of whom some sign anything; the folding of steps into proofs of fixed size. What a caller may hand over (`Received`) is any well-formed proof: bytes of now or of earlier, or made up, with any fold count and any root beside them. |
| `Availability` | `erasure.rs`, `ring_buffer.rs` | shards and their loss; the ring with two bounds. |
| `MC...` | | values of the constants for TLC, and the composition of the parts that a run checks together. |
| `...Proofs`, `Sums` | | theorems and their proofs; `Sums` has none of the system's state: what sums over finite sets are and how they change. |

Composition: `Gateway` = book + pool + balances; `InteropProcess` = miner +
link signal + sync loops + book; `JobSandbox` = pool + gate + job;
`BlePeripheral` = mesh + link; `Island` and `MeshIdentity` = tables + graph, or
identities; `CreditLedger` refines `EscrowPromise`. Where a run checks parts
that share no state and never call each other, interleaving them would show
nothing: one moves (variable `part`, or a conjunct on the others) while the rest
stay as they started.

## 3. What is checked

Twelve runs; "bounds" says what is small and why it is enough.

| run | question and properties | bounds |
|---|---|---|
| `CreditLedger_small` | Claim, refund and cancel race: does every escrow pay once, on evidence (`PaidExactlyOnce`), is every credit accounted for (`SupplyAccounted`), is it all an implementation of `EscrowPromise` (`KeepsPromise`)? | Width 2, supply 3: a payment can overflow. Two escrows, two preimages, two heights: the other escrow, a wrong preimage, a refund that is too early. |
| `CreditLedger_overflow` | Is the supply exactly conserved (`SupplyExact`)? No: finding 1. | as above |
| `RgaText_gossip` | Do equal histories show equal texts (`Converged`), do islands, one of them after a merge as well, agree on the order of what both can place, and do deltas bring only what can be placed (`IslandsAgree`), do islands that exchange deltas end up equal (`DeltasConverge`)? | Two islands, two operations each: a delete can pass its insert, a child its parent, two inserts compete for one place; one stale delta per direction. |
| `LwwMap_gossip` | Does a local write always take effect (`LocalWritesStick`)? Do compacted, stale deltas hide nothing that matters, and do islands end up equal (`DeltasConverge`)? | Two islands, two keys, wall clocks up to 2: ties, overtaken writes, a counter that must jump, compaction that keeps one operation and drops another. |
| `Interop_process` | Over outages and clock jumps, is nobody paid twice (`ClaimsFollowPoints`), does the miner follow unless the last signal crossed an opposite one (`MinerFollows`), do loops back off and end (`LoopsSlowDownAndEnd`), is every fill, first slices over REST included, within the cap or by a spread that saturates (`FillsWithinCap`)? | Two nodes, two threads whose signals overlap; clock, call cap and lifetime cap each bind. Delays 1, 2, 3, 3. Prices below, at and beyond the cap, zero, and one whose product saturates; seven units in three slices. |
| `Ble_link` | Is only proven kin served (`ActiveMeansKin`), is every link owned, waiting or one the HAL failed to drop (`NoLinkIsForgotten`), does the peripheral come back after growing waits (`ComesBackLater`)? In a flood, do tables follow the newest genuine word and keep the best (`TableIsTrue`)? | Two connections and two events ahead of the tick, so that a second connection is queued before the first is handled; of the two, one may be of kin; a write is queued with no other event, and only a short message has the second id (`FewWrites`). The HAL may fail each drop. A speaker and a listener, a neighbour table of one, sequence numbers up to 2. |
| `Ledger_islands` | Do roots commit to contents, has every entry a proof, does what verifies lead along its path to an entry, and do footprints cover what is stored (`RootsCommit`), do clients never split (`ClientsAgree`), do the bytes of a folded proof stand for one history, and does a folder verify for one root (`PublicFixesHistory`), does a buffer list and count what it holds, within its limits (`RingIsExact`), and is nothing lost in merges (`NothingIsLost`)? | Two islands; keys that share, extend and leave paths; a budget that refuses some inserts. Four validators, one of whom signs anything. Two folders, proofs of up to three folds (`MaxFolds`), three sets of bytes besides the two they start with (`MaxProofs`): one proof folded into another, one taken over, one made up, and bytes that were handed on and come back. Three entries for two places. |
| `Ledger_conflict` | Do islands that merge each other end with one root (`MergesAgree`)? No: finding 2. | as above |
| `Node_serves` | What a node does for others. Does the pool stay within its ceiling with disjoint handles (`PoolStaysTrue`), does only a paid job run (`GateIsExact`), do tokens read as written (`TokensReadTrue`), does pruning change no verdict (`SearchIsExact`)? Behind the HTTP surface: does an account pay what the pool received, and nothing only when a bridge ends in an error (`BridgeKeepsValue`), does the intake keep rate, cap, order and limits (`IntakeKeepsItsWord`)? | Three blocks and an odd byte: fragmentation, requests too large in total or in one piece. A group of 77 elements with composite prime candidates. Three slots on two pages. All games of two moves and two plies, and longer ones in which mates at different distances compete. A liquidity pool in which one unit moves the price by the cap and eighty bring it to zero: every exit of the loop is taken. Two peers, one more than the table takes; two requests in a window, so that a late one may be admitted after a newer one; an outbox of two, so that requests have an order; three in hand at once. |
| `Engine_mates` | Is the mate found the shortest there is (`ShorterMatesPrefer`)? No: finding 3. | Games of seven plies in which both sides are mated sooner or later. |
| `Governance_decides` | Is trust rooted (`TrustIsRooted`), is every edge backed while nobody unlocks (`CollateralIsBacked`), is an edge slashed once, of its square or of nothing (`SlashedOncePerEdge`)? Is what is executed approved word for word in the names of a quorum, and by as many keys less those that names share (`ExecutedByQuorum`)? Are votes secret until they count and counted as cast (`VotesAreFair`)? | Three nodes and three consents: a chain, two invitees of one voucher, a circle if onboarding allowed one. Three administrators with one to three keys; days before, in and after the window. |
| `Mesh_radio` | Air time in any stretch (`AirTimeIsBounded`); packets whole and once (`PacketsArriveOnce`); no guess twice (`GuessesSpreadOut`); owners kept apart by the hysteresis alone (`OnlyHysteresisSplits`); identities settle and buckets stay ordered (`PeersAreKnown`); packets go the cheapest way (`PacketsTakeTheCheapestPath`); teams do not depend on the order of lists (`TeamsAgree`); who is out lied to a trap or was off the mean of its reference as often as the threshold (`LiarsAreOut`). | Two windows and a half of the duty cycle; packets of two and three frames; ports that wrap; two nodes with one id and strangers that share one; buckets of three with four newcomers; four nodes and three links; weights within the hysteresis, beyond it and equal; results at, below and above the threshold, against references alike, spread, around nothing and odd; three strikes. |

Every passing run explores its whole state space, and each of its properties is
violated when the definition named in `PROJECT.json` is replaced by its `_Bug`
form. `CHECK_DEADLOCK FALSE` appears where the system may come to rest or a
bound ends it; its cfg says which. Symmetry is used only in runs without
liveness.

A run's module is `MC` and the run's name up to the underscore, for instance
`MCGovernance`, which sets the web of trust, the multi-signature and the votes
side by side. The largest run, `Node_serves`, has 748 000 distinct states.

### Algorithms and codecs

What is a function and no behaviour is compared with a reference definition over
bounded inputs, in assumptions that TLC evaluates before it starts a run:

| assumption (module) | what it says |
|---|---|
| `FramesSurvive`, `SignaturesBind`, `IdsAreCanonical` (`MCBle`) | BLE frames and advertisements decode to what was encoded; different advertisements sign different bytes; an id has one text |
| `ShardsAreEnough` (`MCLedger`) | a payload survives the loss of as many shards as there is parity, and of no more |
| `FragmentsSurvive`, `NoiseIsNoticed`, `FramesFitTheBudget` (`MCMesh`) | LoRa fragments survive their header; the CRC of frames of up to three bytes notices bursts of up to seven bits; estimated air time grows with the frame and fits the budget |
| `PositionsSurvive`, `TrueChainsVerify`, `NodesAreWeighed`, `DestinationsAreDistinct`, `SortitionIsFair` (`MCMesh`) | packed positions; execution chains verify for the true computation of their peer and job alone; weights follow charge and temperature, and the three views of a temperature agree; different destinations have different names; sortition shares follow weights |
| `HonestReceiptsPass`, `OrdersReadBack` (`MCNode`) | an honest proof verifies; an order payload is what was said last of each field |
| `PerftIsExact`, `EvaluationIsFair` (`MCEngine`) | perft counts lines; the evaluation favours no colour |

### Fairness

* `RgaText`, `MCLwwMap`: weak fairness of `Export(r, s)` and `Apply(r, s)`
  under deltas: islands in contact keep synchronising, the premise of the CRDT's
  own claim ("converge to the same state after exchanging op logs"). Edits are
  not fair; `MaxSeq` and `MaxWall` bound them, which stands for "once nobody
  edits".
* `InteropProcess`: `FlagMiner(t)`, as a thread that has begun a signal executes
  the rest of the function, and `Turn`, as a sync loop is a loop with a sleep of
  bounded length. Nothing is assumed of the link: `MinerFollows` says *if* the
  gateway stays active by a signal that did not begin in the middle of an
  opposite one.
* `BlePeripheral`: `Pump` and `Tick`, which the daemon's loop calls in turn for
  as long as it runs; and the outcome of `Tick` in which the HAL starts
  advertising: a radio that always refuses would keep any peripheral silent.

### Findings

1. **Credits lost on overflow** (`interop/src/credits.rs:137-140`). Settling an
   escrow changes its state before the beneficiary is credited; if the credit
   overflows the call fails, but the escrow is terminal and its credits are
   gone, although `credits.rs:25-27` says that failing keeps the conserved
   supply exact. `SupplyAccounted` is the law that does hold.
2. **Merging is not symmetric** (`consensus/src/trie.rs:446`). Of two values of
   one key the remote one wins, so two islands that merge each other swap their
   values and keep different roots; only two single leaves take the greater
   value. The comments say "commutative where possible" (`trie.rs:337`) and
   "lexical max on conflicts" (`:344`).
3. **A longer mate is preferred** (`engine/src/search.rs:72`). `negamax` takes a
   point off a mate score for every ply on the way up, "so shorter mates prefer"
   (`search.rs:87`), but hands its window down without adding the points again.
   Alpha and beta are therefore a point off for every ply between the node that
   set them and the one that is cut off: a slower mate cuts off the faster one
   behind it and passes alpha on its way up. `Engine_mates` finds a search of
   seven plies that takes a mate in four with a mate in three on the board.
   Which side wins is never wrong: that is `SearchIsExact`, which is proved.

Smaller observations, without a run of their own. Where a passing property is
about one of them, it states what the code does, the bad case included, and is
named here:

* *CRDT.* The version vector keeps the highest number seen, so an operation that
  was overtaken and then lost is in no later delta (`crdt.rs:423` says "Export
  ops that the remote has not yet seen"); `IslandsAgree` shows that islands that
  use deltas only never get there. `text_len` counts characters whose parent is
  missing (`crdt.rs:192-194`).
* *Interop.* Two signals that cross can leave the gateway up and the miner down,
  or the reverse, until the next one (`lib.rs:60-79`; `liquidity.rs:119` says
  "Mirrors `OpenApiGateway::internet_reconnected`"): `MinerFollows` holds for
  signals that did not begin in the middle of an opposite one (`crossed`). A WebSocket session's
  probe raises its link and never lowers it. The rate table takes 1025 peers
  where its cap says 1024 and drops none. A refused first slice leaves the order
  in the book. The gateway checks the cap on the price *before* the sale that
  moves it (`openapi_gateway.rs:200`). An error between slices returns before
  the debit (`:220`), although `:224` says "Debit only what was actually filled":
  the pool keeps the credits and the account as well, when a slice before took
  the last of the price (`BridgeKeepsValue`). The spread saturates above
  2^64 / 10^4 (`twamm.rs:100`), and a reference that large lets any price pass
  (`Saturates`, in `FillsWithinCap`). A slice count that
  cannot be read is one, and one part without a separator refuses a payload.
* *Governance.* Once an edge's collateral is unlocked, slashing it takes another
  edge's (`wot.rs:137`, `staking.rs:115`), hence the condition in
  `CollateralIsBacked`. An edge counts as slashed before the ledger is asked
  (`wot.rs:247`): when the ledger refuses, for too little is locked, nothing is
  taken and a second try is `AlreadySlashed` (`SlashedOncePerEdge`). Sums of
  collateral are plain sums (`staking.rs:76`). "distinct admin keys"
  (`multisig.rs:167`) are distinct ids (`:175`): the owner of a key under as many
  names as the threshold executes alone (`ExecutedByQuorum`). Voting may be opened
  again after reveals.
* *BLE.* The HAL's `disconnect` returns a `Result` (`ble_hal.rs:168`) whose error
  the peripheral discards (`ble_peripheral.rs:273`, `:280`, `:478`, `:539`): the
  link stays up, no session owns it and nobody asks again (`stuck`, in
  `NoLinkIsForgotten`). The first wait is twice the configured base (`ble_peripheral.rs:46`). A
  lost fragment makes later messages fail until the reject budget drops the
  link. Failures are forgotten before the session's first frames are sent. A
  restarted node's sequence starts at 0 and others' windows are never pruned.
  Fragment counts stop at 255.
* *LoRa.* The "rolling" tracker uses fixed windows: two budgets fit into one
  window's length, which is the bound that `AirTimeIsBounded` states. A fragment
  count is cut to sixteen bits.
* *Direct links.* Of two groups that meet each keeps its owner when one of the
  owners is weaker by no more than the hysteresis, however often they negotiate:
  `OnlyHysteresisSplits` says when exactly. `wifi_direct.rs:4-5` says "so every
  peer converges on the same leader".
* *Routing and identities.* A live head of a full bucket is not moved to the tail
  after its probe. Hearing one's own announcement counts as a lost collision
  (`identity_manager.rs:274` calls it harmless). Two losers of one id re-key to
  the same new one.
* *Workers.* A result is compared with the *mean* of the reference
  (`quarantine.rs:262-266`), though the comment says "element-wise" (`:256`): an
  honest copy of a reference whose numbers are spread by more than 5 % earns a
  strike (`Wrong`, in `LiarsAreOut`). The last check of the function, of the mean
  of the result, never finds anything more (`MeanIsNearer`, proved). The first of a cartel is slashed twice; crafting a trap again keeps
  old submissions. A worker listed twice gets two roles. A battery of 19 % still
  weighs 250, though its comment calls the node effectively dead.
* *Ledger.* `verify_proof` "authenticates `proof.key` → `proof.value`"
  (`proof.rs:67`, `light_client.rs:224`) and never looks at `proof.key`
  (`proof.rs:70-113`): a proof verifies under any name, and what it proves is the
  entry at its path (`RootsCommit`). The public bytes of a folded proof bind
  neither the claimed root nor where the chain began (`snark.rs:34-44`), and the
  genesis is checked only when nothing was folded: a folder that takes over a
  proof verifies for whatever root was written beside it, of a chain of any
  genesis, although `lib.rs:125` says "Require the new proof to claim a chain that
  started at our genesis" (`FolderIsLinked`, in `PublicFixesHistory`). A value
  larger than the ring's bound flushes the ring and then itself.
* *Compute.* An evicted slot leaves the page table, so a later read fails and the
  reload branch (`paged_attention.rs:285`) is never reached. A token whose page
  could not be persisted is stored and not counted. Perft counts leaves; its
  comment counts the root as well.

## 4. What is proved

All proofs assume only the named `ASSUME`s of the module: that the constants are
sets and numbers of the expected kind. Accounts, islands, keys, nodes, widths,
caps, amounts and numbers of operations are arbitrary.

**`LedgerProofs`** (`LedgerAssumption`, `ValidatorsAssumption`,
`HeightAssumption`, `QuorumAssumption`, `RingAssumption`). Of the credit ledger, `TypeCorrect`; `EscrowsPayOnce`:
`PaidExactlyOnce` is inductive together with `TypeOK` once every settling action
is brought into one form (lemma `SettlingActions`: it takes one funded escrow to
one terminal state and calls `CreditFree`); `SettlementsHaveEvidence`;
`SettledNeverChanges`; and `LedgerKeepsPromise`, the refinement: a mint maps to
`Deposit`, an opening to `Open`, each settlement to `Release` (overflowing or
not), a VDF step to a stutter. `SupplyIsAccounted` is the conservation law
`SupplyAccounted` for any finite sets of accounts and escrows: each action
changes one or two terms of the sums over accounts and escrows, and
`Sums` says by how much the sums change.

Of the light client, `Agreement`: honest validators sign one root per height
(`HonestSignOnce`), a client's pin carries the signatures of a quorum
(`PinsAreEndorsed`), and two quorums share an honest validator. Of the folding,
`ProofsFixHistory`: `PublicFixesHistory` is not inductive, because two
accumulators may reach one proof by steps that were folded at different times,
and one may be handed bytes that nobody computed. The invariant looks at all the
bytes that ever were in an accumulator (`made`), each a hash of the ones before
and of the step, so that two trails with one end are one trail; and what a folder
verifies for is tied to the last root it took on trust (`told`).

Of the ring buffer (`RingAssumption`), `BufferIsExact`: `RingIsExact` holds for
any keys, sizes and limits. The invariant `RingInv` says that the list of keys in
the order of their last use names each key that is stored, once, and that the
byte count is the sum over the entries. `EvictionKeeps` follows an eviction: it
drops the shortest part of the list after which both limits hold, and what it
takes from the count is what the dropped entries weighed, so that the saturating
subtractions of the code never saturate. Moving a key to the back is the work of
two folds, whose results `PromotedKeeps` and `RetainedKeeps` establish place by
place.

**`Sums`**. A sum over a finite set is a `CHOOSE` of a function on all its
subsets that unfolds (`Summing`); `SummingExists` shows there is one, and
`TotalChanges`, `TotalTakesOut`, `TotalSplits`, `TotalsAgree` say how `Total`
follows its terms. Induction is carried by least counterexamples
(`LeastNumber`, `SmallestSet`), which need no theorem with an operator
parameter; `SumsAgree` and `TotalSums` connect `Total` to the folds over sets
that the models are written with, `PlacesAddUp` and `TotalAppends` to their
folds over sequences. Its other sections are about remainders (`UniqueRest`,
`RestOfMultiple`, `NearRests`), which rings, ports and the delay function need,
about sequences whose elements have no type (`AnySeq`), about the folds of a
function over the places of any sequence (`FoldingExists`, `StepByStep`), and
about the places in a strict order (`EveryPlaceIsTaken`).

**`RgaTextProofs`** (`RgaAssumption`), for `Spec`: operations one at a time in any
order, deltas however stale, and merges. `RgaInv` has four parts.

- `OpInv` says that each document is a function of the *set* of operations it
  has integrated (`Reflects`), that ids are unique across islands, and that an
  island's counter is above all ids it has given out (`IdsBelow`), which is what
  makes new ids new. A delta or a merge replays a sequence of operations; the
  documents it passes through are described one by one (`ApplyDeltaRuns`,
  `Replayed`). `TextConverges` follows: same operations, same items, hence the
  same walk. `DeletesCommute`, `OperationIdsAreUnique` and `DeletedStaysDeleted`
  come from the same invariant.
- `TextInv`: the characters of all islands, placed or not, form one forest,
  because each has a rank above its parent's. An island that inserts gives the
  new character a rank above all it holds (`EditRanks`). A forest has a strict
  order (`Precedes`): ancestors before descendants, and of two branches the one
  whose root has the greater id. `WalkIsOrdered` says that the walk of *any*
  part of the forest follows that order. So two islands that hold different
  parts of a document cannot disagree on two characters, whatever they lack.
- `DeltaInv` and, where islands use deltas only, `CausalInv`: every log holds,
  for each of its operations, all earlier ones of the same agent and those it
  depends on, and every delta does so together with what its receiver knows
  (`Fits`); and a version vector's numbers are attained (`VectorExact`). Hence a
  delta, however old, can be placed entirely when it arrives. Without the
  condition it is false: see the first of the smaller observations.

`IslandsNeverDisagree` puts these together. `Walk` is a recursive function, so
`WalkExists` first shows that the equation it is chosen by has a solution.

**`LwwMapProofs`** (`LwwAssumption`), for `OpSpec`. `LatestWins` is inductive
only with `Ahead` (an island's counter is past every time it was handed) and
`Home` (every operation was handed to its own author, so a time is given out
once). Consequences: `LatestWriteWins`, `WriteTimesAreUnique`, `MapConverges`,
`LocalWritesTakeEffect`, `NoEntryGoesBack`; `MapTypeCorrect` is the type
invariant.

**`InteropProofs`** (`TwammAssumption`, `MinerAssumption`). Of the book, `OnTrack`
says that what remains of an order lies between `slices * part` and
`slices * (part + 1)` where `part` is the *n*-th part of the original amount;
lemma `EvenSlice` shows that a slice keeps it so, although each slice divides
what the last one left. `SlicesStayFunded`, `OrdersSplitEvenly` and
`OrdersFillExactly` follow; `CapHolds` is arithmetic on the rounded quotient;
`BookIsWellFormed` is the type invariant. Of the miner, `IInv` bounds each
account by the ceiling at the *latest* time the clock has shown, which only
grows, so that a clock that jumps back cannot break it, and keeps claimed tokens
a multiple of the token rate: `TokensComeFromPoints`, `GrantedEpochsElapsed`,
`MinerIsWellFormed`. `ProcessImplementsMiner` shows that the miner with the link
signal implements the miner; `UncrossedSignalsMirror` that for any
number of threads the flags agree between signals unless the last of them began
in the middle of an opposite one: signals of one kind that overlap do no harm.

**`JobProofs`** (`PoolAssumption`, `GateAssumption`, `IntakeAssumption`,
`TwammAssumption`, `GatewayAssumption`, `WindowAssumption`, `EngineAssumption`).
`PoolStaysSound`: first fit keeps live handles disjoint, and the count of used
blocks is never below the true one. Until a handle that is not live is freed the
live handles partition the blocks in use; from then on a free that stops
half-way gives blocks back and keeps the count, so only the bound survives.
`DelayProofsVerify`: the prover's long division and the verifier's two powers
agree for every modulus, element, number of squarings and challenge above one.
`HonestReceiptsAreAdmitted` and `GateIsSound`: who paid is let in, and what runs
as admitted was paid for since the last reset. `IntakeIsKept`: the rate limit
holds of every window that ends at the present reading of the clock. The
invariant describes the times a handler may carry (`Handler`); a handler that
decides late prunes by the time it read, so that a window that ended earlier may
have held more. `FillsAreInThePool` and `BridgesKeepValue`, of the gateway behind
the same surface: a bridge folds `Slice` over its turns, and `Turned` says, turn
by turn, that what was filled is missing from the order and is in the working
pool, that a bridge which filled nothing left the pool alone, and that rounding down what is bought never takes from the product of the
reserves (`CurveHolds`); a slice always has a unit to sell
(`SliceLeavesEnough`), so no order is exhausted early. `BridgesKeepValue` has
the hypothesis `PoolHasRoom`: a base reserve at the end of its width drops what
an account pays. `TokensStayTrue`: a page is free or belongs to one slot
(`TableKept`), and the slots that have one, listed in the order of their last
use, have pages with strictly growing counters and are as many as the pages not
free (`OrderKept`); so the page that `alloc_page` evicts is that of the first of
them, and its slot is the one that the list drops. Mapping, writing, reading and
unmapping are each shown to keep this (`MapKeeps`, `WriteKeeps`, `ReadKeeps`,
`UnmapKeeps`), and the loops of `gather` and `clear` slot by slot.

`PruningIsHarmless` (`EngineAssumption`): for every game tree and all depths, the
result of a search with a window tells as much as the full minimax value (`Worth`):
the same side mates or neither does, a score that is no mate is exact, and the
best move's value is the position's. Both functions are recursive in the depth,
so `SearchExists` and `WorthExists` first show, depth by depth, that they are
what their equations say. `LoopHolds` is the invariant of the loop over moves:
what the values tried so far tell about alpha, the best value and the best move.
A mate score that is tapered stays a mate and any other score stays as it is
(`TaperKeepsVerdict`); the verdict grows with the score and changes sides with
its sign, which is why a window that is a few points off (finding 3) can change
the distance of a mate but not who mates. The induction is by a least depth at
which a search tells something wrong (`SearchesTell`). `EngineAssumption` keeps
evaluations out of the band of mate scores and the deepest search within it.

**`GovernanceProofs`** (`TrustAssumption`, `DecayAssumption`,
`SignersAssumption`; none for the votes). `AllTrustIsRooted`: a newcomer is never its own voucher's
ancestor because it was no member before; stated for *sets* of members (no set
without a genesis member is closed under vouching), which needs neither paths
nor recursion. `TrustIsWellFormed`, `SlashesFollowEdges`.
`CollateralBacksTheEdges`: a node's locked, slashed and released collateral are
the sums over its edges, by the lemmas of `Sums`. Its hypothesis `PowersFit`,
finitely many nodes whose powers add up to a number of 64 bits, is needed: the
ledger adds powers with a plain sum that wraps, and one wrap leaves an edge
without collateral. `VotesCountAsCast`: each vote revealed was committed by its
voter, and no ballot is committed after one of its proposal has been revealed,
unless somebody opens the proposal again. `QuorumsExecute`:
`ExecutedByQuorum` follows from an invariant that ties the two records of a
signature together, the administrators counted (`signatures`) and the signatures
accepted (`approvals`): for each counted signer one over these words, in that
name and with the key of that name, was accepted (`SignersApproved`). The quorum
of names that `execute` counts is a quorum of keys but for those that several
names share: leaving names out cannot take more keys away than names
(`FewKeysAreMissing`). Nothing is assumed of the keys.

**`MeshProofs`** (`QuarantineAssumption`, `WifiAssumption`, `PunchAssumption`,
`LoraAssumption`, `BlePeripheralAssumption`, `BleMeshAssumption`,
`TableAssumption`, `IdentityAssumption`, `VrfAssumption`, `IslandAssumption`),
one section per part.

- `LiarsStayOut` is an implication between temporal formulas, because
  `LiarsAreOut` has an invariant and action properties as its parts. The
  invariant relates the record of what each peer answered to a trap with the
  bans, slashes and cartels: a second liar with the same answer must find the
  first, who is banned already. `AnomaliesAreWrong` is about what the check
  computes: dividing and rounding down finds what multiplying would
  (`AnomalousIsOff`), and the mean of numbers none of which is off is not off
  (`MeanIsNearer`, from `SumIsBetween` by the fold's steps).
- `OwnersSplitByHysteresis`: with a finite number of nodes there is a greatest by
  weight and name, and every election that knows all batteries finds it. An
  incumbent is kept against it exactly if it is weaker by no more than the
  hysteresis (`Tolerated`); all other nodes go on with the greatest.
- `GuessesAllDiffer`: the offsets alternate, so the guesses of a session are
  consecutive numbers modulo the number of ports, and there are fewer of them
  than ports (both are of 16 bits in the code).
- `OnlyWholePackets`: every frame on the air is a piece of a packet; frames that
  agree on the packet, are intact and have all its indices are its pieces, and
  the pieces of a packet, put one after the other, are the packet
  (`PiecesMakeThePacket`). The hypothesis `CountsFit` is needed: the code cuts
  the count to 16 bits, and of a longer packet a part would count as the whole.
  `Remembered` says where in the ring each of the last ids is kept.
- `DutyCycleHolds`: what is on the air in a stretch of a window's length is split
  by the window each frame began in. Earlier windows reach in by what is left of
  a budget; a window wholly inside holds no more than a budget; the one after it
  no more than a budget, nor more than its part of the stretch. `DutyInv` adds
  that the account of a sender is what began in its current window.
- `OnlyKinGetLinks`, `OnlyTheRadioKeepsLinks`: a handler passes a state along through
  several steps of which each may fail, so `Sound` and `Tended` speak of such a
  state and are kept helper by helper, before they are said of the variables. A
  central without the secret can only repeat proofs it heard (`Genuine`): each
  names its role and the challenge of the connection that it was made for. A
  link that is up and not the session's has its Connected event in the queue, or
  is one that the HAL did not drop.
- `TablesAreTrue`: a table and the record of sequence numbers seen are changed
  together by an advertisement and apart by everything else (hearing a beacon,
  pruning, evicting). `MeshInv` says of each entry and each number on record what
  it rests on (`EntryKept`, `Issued`); an insertion gives up one neighbour at
  most, and for a better one (`InsertKeepsTheRest`).
- `PeersStayKnown`: the keys of a directory only rise, so the greatest that was
  announced with an id holds it; a node that met a stronger claim to an id it
  still holds is in `lost`. `RoutesKept`, the order of a table, is kept by each
  insertion (`InsertKeepsRoutes`) and so by the fold that makes a table of a
  directory (`SyncKeepsRoutes`, by `StepByStep` of `Sums`). Its hypothesis
  `RekeysAreNew`, that no rekey gives a node an identity it held before, stands
  for hashes that do not run in a circle: a node that came back to an id it had
  lost would have to lose it again, and no new check would tell it.
- `TeamsAreOne`: the place of a worker is the number of workers with lesser keys.
  In a strict order of a finite set every place is taken once
  (`EveryPlaceIsTaken` of `Sums`), so that the ranking depends on the set of the
  candidates and not on the list. Its hypothesis `KeysDiffer` is needed: of
  workers with equal scores and equal 64 bits of hash the first listed wins.
- `PacketsArrive`: any finite island of nodes with different ids, any links and
  qualities. The invariant `IslandInv` is small (links go both ways and cost
  something; a table holds ids of the island in their buckets; after a seeding
  the tables of few nodes show the links); the work is in what the operators
  compute, since `PacketsTakeTheCheapestPath` speaks of whole searches.
  *Paths.* `Walked` is, by the number of hops, what walks to each node cost, and
  `Cheapest` looks at those of one hop less than there are nodes
  (`CheapestWalks`). `SearchKept`, kept by every visit (`RelaxKeeps`), says that
  a distance is the cost of a walk and that what was visited is closer than the
  rest and has handed its distance on; hence no walk is cheaper
  (`NoWalkIsShorter`), and fewer nodes are closer to the source than there are
  hops left to gather, so the way back ends at the source (`PathIsGathered`).
  *Lookups.* Of two ids the one that agrees with the target in the highest bit
  they differ in is closer: a strict order, so the closest of a union are found
  among the closest of the parts (`ClosestAddUp`), which `Round` relies on when
  it merges answers into a shortlist. `LookupKept` adds that on a small island
  everything is known that somebody asked knows, and that each round asks
  somebody new. Both searches end because their rounds are as many as what they
  use up: nodes, and ids (`ExploredEnds`, `LookupEnds`).
  *Tables.* `SeededShows` follows the insertions of a seeding one by one. Costs
  are natural numbers: the sum of 32 bits that the code saturates would need
  twenty-five million hops.

Only model-checked:

- what needs fairness, or says that something happens in the end
  (`DeltasConverge` of both halves of a document, `MinerFollows`,
  `LoopsSlowDownAndEnd`, `ComesBackLater`), which is beyond the prover;
- what tries compute (`RootsCommit`, `NothingIsLost`): their operators are
  `RECURSIVE`, and a theorem cannot be stated in a module that reaches one.

## 5. What is not modelled

Abstracted inside the modules: the bytes of characters, values and messages
except where a codec is the subject; REST and JSON parsing other than the order
payload; logging; the inside of hashes, signatures and ciphers (tuples, keys,
functions); the rules of chess and the Reed-Solomon code, which are libraries;
poisoned mutexes. `Gateway` leaves out the buy side of `swap`, which no caller
uses.

Not modelled at all: floating-point quantisation and matrix arithmetic, the
optional FFI stub and the embedded bytes of the sandbox (no state); the libp2p
swarm's event loop, which only logs, and the daemon's start; the calibration of
the VDF's delay (it measures a clock); the Nova placeholder, which only fails;
the table base and the benchmark (files and clocks); browser code, which renders
and fetches (its BLE writes are the central of `BlePeripheral`); tests, scripts
and generated files. `sandbox/src/admit.rs` repeats the delay function of
`vdf_sybil.rs` and is mapped for the rest.
