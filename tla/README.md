# LatencyDesk in TLA+

TLA+ models of LatencyDesk's state machines, the TLC configurations that check them on small instances, and
TLAPS proofs about them. LatencyDesk is a remote desktop: a Host that shares its screen, a Client that views
and controls it, a rendezvous broker and a TURN relay that help them meet, and the transport between them.
Paths below are relative to the repository's root.

## The system and what is modelled

| Part | Source | State and operations | Module |
|---|---|---|---|
| **Who may use the Host** | | | |
| Host access policy | `crates/session/src/authorization.rs` | pins, the pairing under way, the connection, the pending request, the grant; every public operation | `HostAccess`; the proofs of this group: `AccessProofs` |
| Pairing by short code | `crates/session/src/pairing.rs` | evidence, tries left, two confirmations, the store of pins | `Pairing` |
| Unattended tokens | `crates/session/src/unattended.rs` | token records, the switch; issue, validate, revoke | `UnattendedTokens` |
| Disconnect | `crates/session/src/disconnect.rs` | Connected, Closing with a deadline, Closed; both ends, successive sessions | `Disconnect` |
| **How two devices meet** | | | |
| Rendezvous broker | `crates/rendezvous/src/lib.rs` | waiting, deliveries, reserved matches, protected ids | `RendezvousBroker`, `RendezvousProofs` |
| Rendezvous service | `apps/rendezvous/src/lib.rs` | the server's loop, its watchers and report, the two-phase exchange, the clients | `RendezvousService` (over the broker), `RendezvousProofs` |
| Connectivity probe | `crates/socket-transport/src/ice.rs`, `ice_probe.rs`, both `secure.rs` | worker threads, barriers, hand-over of the probe socket, echo | `IceProbe` |
| Connection router | `crates/session/src/nat.rs` | candidates, pairs by priority, active path, probing in rotation | `ConnectionRouter` |
| TURN relay state | `crates/turn-relay/src/lib.rs` | allocations, permissions, channels, quarantine, quotas, held requests | `TurnRelay` |
| TURN server | `apps/turn-relayd/src/server.rs` | control loop, challenges, response cache, peer tasks | `TurnService` (over the relay) |
| TURN client | `crates/socket-transport/src/turn_socket.rs`, `apps/turn-relayd/src/client.rs` | establish, refresh loop, reader, payload queue and its waker, shutdown | `TurnClient` |
| STUN and TURN messages | `crates/turn-relay/src/wire.rs`, `crates/protocol/src/stun.rs`, `crates/socket-transport/src/stun.rs` | attributes, integrity, fingerprint; the discovery of a reflexive address | `StunWire` |
| **From screen to screen** | | | |
| Desktop sessions | `crates/platform-linux/src/x11_desktop.rs`, `desktop_convert.rs`, `crates/platform-windows/src/desktop.rs`, `crates/frame` | a desktop that changes its size, its copies, scaling, colours, the pointer's way back | `HostDesktop` |
| Windows capture | `crates/platform-windows/src/lib.rs`, `native.rs` | broker, publication gates, capture backends, duplication source | `WindowsCapture` |
| Linux providers | `crates/platform-linux/src/lib.rs` | portal session, PipeWire capture, portal input, hardware decoder | `LinuxDesktop` |
| H.264 inspection | `crates/h264/src/lib.rs` | NAL units, emulation prevention, slice types | `AnnexB` |
| Tile refinement | `crates/frame/src/lib.rs`, `crates/test-codec` | change detector, idle policy, cache of exact tiles, PackBits | `FrameTiles` |
| Send queue | `crates/scheduler/src/lib.rs` | queued items and bytes | `DeadlineScheduler` |
| Reassembly | `crates/transport/src/lib.rs` | partial frames, three budgets and their counters | `Reassembler` |
| Congestion control | `crates/transport/src/lib.rs` | smoothed samples, target and applied rates | `CongestionController` |
| Surface pool | `crates/surface/src/lib.rs` | slots, generations, handles | `SurfacePool` |
| Presentation | `crates/platform/src/lib.rs` | newest-frame queue, the frame with the renderer | `Presentation`; with renderer and callers: `PresentationSystem` |
| Client runtime | `crates/runtime/src/lib.rs`, `crates/media/src/lib.rs` | progress, decoder continuity, decoder, presentation, teardown | `ClientRuntime` |
| Portable viewer | `apps/client/src/software_viewer.rs`, `crates/h264/src/software.rs` | planner, frame slot, window thread, network task, reliable input | `SoftwareViewer` |
| **A session** | | | |
| Session authority | `crates/session/src/runtime.rs` | capabilities, deadline, input ledger | `InputReconciler` (its last section, used by both runtimes) |
| Host runtime | `crates/runtime/src/lib.rs` | progress, capture, encoder, ledger, teardown | `HostRuntime` |
| Input reconciliation | `crates/input/src/lib.rs` | epoch, last sequence, held controls | `InputReconciler`; with a sender, a network and a platform: `InputChannel` |
| Product connection | `crates/socket-transport/src/product.rs`, `quic.rs` | handshake, control lane, two ways of signalling, media datagrams, calls that are dropped | `ProductChannel`; what its lane promises: `UpdateLane` |
| Records on the wire | `crates/protocol/src/lib.rs`, `quic.rs`, `crates/input/src/lib.rs` | layouts, limits, decoders, replay window, epoch tracker | `WireFormat` |
| Route controller | `crates/session/src/route_transition.rs` | active route, epoch, prepared token, stability window | `RouteTransition` |
| Route set | `crates/socket-transport/src/product.rs` | two connections at each of two peers, the transition's stage, its timer, input in flight | `RouteSet` |
| Secure sessions | `apps/host/src/secure.rs`, `apps/client/src/secure.rs`, `crates/session/src/lifecycle.rs` | listener, media loop, input worker, reconnecting Client, stamps | `SecureSessions` |
| Laboratory sessions | `crates/socket-transport/src/lib.rs`, `apps/host/src/main.rs`, `apps/client/src/main.rs` | authenticated datagrams, handshake, media and input loops | `DirectSession` |
| Target supervisor | `apps/client/src/main.rs` | the command line, one child process per target | `TargetSupervisor` |

How the parts interact: the access policy decides who may open a session; the two runtimes ask the session
authority before every native call; the Host runtime drives input reconciliation, the Client runtime drives
decoder continuity and presentation; the rendezvous service drives its broker and the TURN server its
allocation table; the secure programs run one session after another over product connections. Where one part
calls another, the callee is a module of operators from a state record to a state record (`RendezvousBroker`,
`InputReconciler`, `Presentation`) and the caller's action applies them in the order of the
code, so that an action is a whole handler.

### The behaviours that are hard

* Handles, tokens and requests are presented late, after what they name was replaced (access, TURN, routes).
* Deadlines are compared at their very instant, and counters reach their end (all session crates).
* A task awaits, and the world moves on: rendezvous exchange, TURN request, route transition, portal import.
* A future is dropped half way: a record on the control lane, a route transition.
* Messages and fragments are lost, repeated, reordered or damaged (input, media, disconnect, control streams,
  STUN, tiles, the records themselves).
* One step of several fails: injection in the middle of a snapshot, teardown, a copy, a pin, a child's wait.
* Two threads notice the same event at different times (media loop and input worker; timer and caller; probe
  worker and task; TURN reader and QUIC driver; session monitor and capture owner).
* Limits are reached: registrations, used ids, allocations, permissions, byte budgets, surfaces, queues.

## Modules and code

Each module starts with a comment on what its state stands for. State is the fields of the struct the code
keeps, options become a sentinel value, and hash maps become sets of records or functions. An action or
operator has the name of the function it models; a bound on time, epochs or counters is a constant (`MaxTime`,
`LastEpoch`, `MaxIncarnation`, ...). Where the code itself refuses to pass its largest value, the constant is
that value; elsewhere it only keeps the state space finite.

* **HostAccess.** One action per public operation. Nonces and secrets are compared for equality only and are
  determined by the generation (pairing, request) or epoch (connection) they were made for; expiry is part of
  every operation that begins with it in the code. `grants` remembers every grant ever made, for the
  properties.
* **Pairing, UnattendedTokens, Disconnect.** The short code is drawn per attempt and may coincide; the pin
  store's calls may fail, and a failing write may have taken effect. Token ids may repeat: a lookup finds the
  first record. Disconnect messages may arrive in a later session.
* **RendezvousBroker / RendezvousService.** The broker's operations are functions of its state. The server is
  one task: it takes an admission, a disconnect or a deadline, and a match's exchange (`Script`: deliver, ack,
  commit, ack, complete) runs to its end while clients and clock go on. Every send and await may fail.
* **IceProbe.** A worker's step is what it does between two reads of the shared flags or of the socket, a
  task's step what it does between two awaits. The connectivity-check agent is a library, hence external.
* **ConnectionRouter.** A pair's priority is the triple `<<min, max, bit>>`, ordered as the 64-bit number the
  code computes. `passed` remembers which pairs waited while others were probed.
* **TurnRelay / TurnService / TurnClient.** The relay executes authenticated requests later than they were
  authenticated. The service separates prune, authentication, execution and answer, since the code reads the
  clock for each; a peer task ends when it is cancelled or its socket fails, and then leaves its allocation
  behind. The client has four parties (main task, refresh loop, reader, QUIC driver); a step is one
  critical section. It meets an external relay that may do what `TurnService` does and more.
* **StunWire, WireFormat, AnnexB.** Conversions are modelled by what they do: layouts of bytes with their
  widths and limits, attributes with their lengths, bits read through emulation prevention up to the size of a
  slice that is read at all. A behaviour encodes
  one message, lets the link damage it and decodes it. CRC and HMAC are ideal.
* **HostDesktop.** A pixel of a frame is the set of desktop pixels it averages, so that a click can be compared
  with what was seen. The secure worker injects through a session that never captures (`x11`, `gdi`), the direct
  Host captures and injects through one (`direct`). The pure conversions are checked on samples chosen in `Init`.
* **WindowsCapture, LinuxDesktop.** A step is one lock section, one call into the system or, on Linux, one
  `&mut self` method, cut where the portal token is read again. Authorizations shared by frames are objects of
  their own. A Windows copy may fail, and draining and recovering are actions of the backend. On Linux no token is
  set at first, and a control may also be pressed through `inject`, past the reconciler (`input.direct`).
* **FrameTiles.** The network keeps every packet, so that any may arrive late, twice or never. The 64-bit hash
  of a tile is ideal; its streaming computation is compared with the whole on samples.
* **Reassembler, CongestionController, DeadlineScheduler.** The counters the code maintains incrementally are
  variables, so that an error in their upkeep would show. Smoothing is integer arithmetic as in the code.
  `network` is the set of samples that may arrive, any of them or, from some moment on, one alone. The send
  queue pops by class, then deadline, then identifier.
* **InputReconciler / InputChannel / HostRuntime.** Controls are numbered in the order
  `reconcile_snapshot` visits them. Any provider call can fail, at any position of a list of actions.
* **Presentation / PresentationSystem / ClientRuntime / SurfacePool.** Lease identity is the frame's own; the
  renderer may reject, return another lease, panic, or fail to quiesce. Pool handles are dropped on any thread.
* **SoftwareViewer.** Window thread and network task interleave at every access to the slot, the queue and the
  signals they share. With the fault `loss` a frame may be missing on arrival.
* **ProductChannel / UpdateLane.** Every send and read is a future that can be dropped at an await. The abstract
  lane has two variables, what was sent and what was delivered; `MCSecure` maps the connection to it.
* **RouteTransition / RouteSet.** A route set's call is a sequence of steps, one per write or await, and may be
  cancelled between any two; the timer task runs beside it. `Faults` says which faults may occur.
* **SecureSessions.** Media loop, input worker, listener and Client are separate processes; the transport may
  lose a path at any moment and each side notices in its own time.
* **DirectSession, TargetSupervisor.** A Host process serves one client and ends; the next run may meet what is
  still in flight. Its input may fail at any position of a list of actions, and so may the releases at its end,
  whose error is dropped. A child may end at any time, and polling, killing or waiting for it may fail.

## Runs

`MC*.tla` put related components side by side: they share no state, so `part` selects the component that
moves in a behaviour and the others rest. A property names the components' own predicates, which carry the
comments and the names of the code's functions.

| Run | Configuration | What it checks | States |
|---|---|---|---|
| `access` | `MCAccess.cfg` | the access policy's invariant; no grant is accepted at or past its deadline or after its device was unpinned; a dropped grant never returns; pins, pairing sessions and token grants are earned; a closed session stays closed | 301k |
| `rendezvous` | `MCRendezvous.cfg` | the broker's tables, alone and under the server; the server's books (`ServiceInv`); the match a client returns is two-sided and confirmed, ids stay protected from replay; a probe socket has one owner at a time and an echo is between the two probes | 527k |
| `turn` | `MCTurn.cfg` | addresses, quotas, channel quarantine, ownership of held requests; an allocation's socket, no orphaned task; a retransmission runs nothing twice; traffic is permitted; the client's pending table, its renewals, its waker and its report; what is verified was signed | 1.73M |
| `media` | `MCMedia.cfg` | budgets and counters; delivered frames were sent and are fresh; access units are read as written; tiles are genuine; pool handles; no surface is reused while the renderer may read it; frames in order, live and decodable; the viewer's input is neither lost nor left down | 488k |
| `host` | `MCHost.cfg` | teardown is complete, work is authorized; held input follows the sender, presses are never replayed; frames can be presented only under their own generation and authorization; a revoked portal hands on nothing; a click lands on what was seen where one session captures and injects, and keeps its order where two do | 551k |
| `routes` | `MCRoutes.cfg` | one authority per peer, epochs together, a timer over every transition, fenced input; tokens, epochs and proofs of the controller; the router's path is one of the present pairs and no pair is starved of probes | 425k |
| `secure` | `MCSecure.cfg` | ReleaseAll before a successor, no failure hidden, no false success, bounded reconnects, increasing stamps; no half generation, handshakes agree, records decode to what was encoded or not at all; the control lane implements `UpdateLane`; lab sessions agree; reaped children have ended, and the supervisor reports a failure for one it could not reap | 858k |
| `progress` | `MCProgress.cfg` | the rate converges; deadlines end the rendezvous server; route transitions end, and complete without faults; Host and Client end | 81k |
| `host_release` | `MCHostRelease.cfg` | expected violation: a control stays down after teardown | |
| `route_expiry` | `MCRouteExpiry.cfg` | expected violation: authority returns after the timer revoked it | |
| `secure_loss` | `MCSecureLoss.cfg` | expected violation: a lost path ends the listener | |
| `viewer_chain` | `MCViewerChain.cfg` | expected violation: a frame is decoded without the one it was predicted from | |

### Bounds

They are chosen so that each limit, deadline and counter's end is reached and passed within a behaviour.

* `access`: three devices for two pins; a pairing lives one tick, a session up to two, time ends at three; three
  epochs and generations, so that the counters are exhausted. Two pairing attempts for one alias with three
  tries; two token records whose ids may coincide, limits of no and one session; three successive sessions.
* `rendezvous`: a reciprocal pair, a retry with another lifetime and a stranger under the same id, three
  connections, two ticks; a broker of its own (`table`), called in any order, with two ids used again and with
  six ids, more than it may ever remember; one probe between two devices, once with timeouts, foreign datagrams
  and failing sockets (`probe`) and once with late datagrams and a lost session (`late`).
* `turn`: two tuples, users, nonces and relays; one allocation with three peers (two on one ip) and two
  channels; lifetimes of one or two ticks. One challenge and two cache entries, so that both tables are full.
  The client once with a second nonce and a second grant, once with two payloads for a queue of three bytes,
  three ticks; two keys, channel numbers at and past their limits, and up to two pieces of damage per message.
* `media`: four items in a queue of three items and four bytes, one item too large; seven sends over two
  epochs, one frame in two fragmentations, one with two lengths, one over the budget; access units of up to
  three NAL units, with slices of the largest size and one byte more, whole and cut at every byte; four frames of two epochs; two groups of three pictures; three
  pool slots, generations modulo four; two displays of three and two tiles, a cache too small for the first
  of them; a viewer with a key, a button and an input queue of one, and one with five frames.
* `host`: two controls, two epochs of two records each and one epoch of four (`records`); one Windows backend
  with two targets, one slot and two generations, and one whose display changes in a second epoch (`display`);
  two streams, three formats and two slots on Linux, and input alone over one stream; three desktop sizes against two bounds.
* `routes`: two routes, up to four epochs and sequences, six ticks; a transition of the set with every fault, and
  two in succession with lost connections, cancelled calls and the timer (`again`), started by either end or both
  at once; a router with up to three candidates, three ticks. In the part `overlap` an application
  may start a transition before it has confirmed the last one: authority, epochs and the input fence are
  checked there too, but not that the second transition is timed (see below).
* `secure`: two sessions, one reconnect, one restart of the Host and a reconnect budget of two ticks under lost
  paths and shutdowns, and the Host's other failures without a reconnect (`failures`); two tasks on one control
  lane with two records; every kind of record with fields at and past
  their limits, cut short or with one byte replaced; three lab clients of which one has another secret; two
  targets.

Symmetry is used for names that are only compared (devices, attempts, connections, tuples, peers of a route
set), and not in the run with liveness properties.

### Fairness

Only `progress` assumes fairness, stated in `MCProgress.tla` beside its reason: the Client reports its samples
periodically; the rendezvous task runs and each of its awaits has a timeout; the timer task of a route set runs,
and a call's step that waits for nothing is taken; in the secure programs every task that can go on does, and
the transport's idle timers expire. All of it is weak fairness. `RateConverges` speaks of behaviours whose
samples settle: at the thresholds or below them the targets climb to their maxima, and four units or more above
one of them the bitrate falls to its floor. Up to three units above, the integer smoothing, a quarter of the new
sample and three of the old value rounded down, never feels the excess (`SlightlyAbove`). That a drain and a prepared transition
end by their deadlines is not claimed: `check_drain` and `tick` act when called, and no program of the repository
calls them. The router's probing is fair in a bounded sense that
needs no assumption: between two probes of one pair every other waiting pair is probed (`RotationFair`).

### Refinement

`LaneKept` says that the product connection's control lane, with its locks, its two-record generations, its
cancelled calls and its fail-closed guards, implements `UpdateLane`: whole updates, in order, none twice, and
nothing after a close. The mapping reads `applied` as delivered and the two ends of `conn` as the ends that are
still open.

## Proofs

Eight modules hold theorems; they hold for every value of the constants, where the runs look at one.

**Who may use the Host** (`AccessProofs`, over the four modules of that group and their composition `MCAccess`, for
any devices, attempts, aliases, codes and token records and all bounds; `BoundsAssumption`, `AccessBounds`):

* access policy: `Invariance`, `Spec => []IInv`; `GrantsAreUnique`, `GrantsAreConnected`, `PairingIsAlone`, what a
  reader wants from it; `AuthorizationIsLive`, `Spec => []AuthorizedIsLive`; `RevocationIsFinal`,
  `Spec => RevokedForEver`;
* pairing: `PairingGuesses`, at most `MaxAttempts` wrong codes per attempt, and `PairingEarned`, which says of every
  step that sessions and pins are earned and that a finished attempt rests;
* tokens: `TokensGrant`, a session is granted only within the limit and the lifetime of a token not revoked;
* disconnect: `DisconnectMeant` and `DisconnectFailsClosed`;
* all of them at work together: `GuessesAreBounded`, `PinsAreEarned` and `SessionsAreLawful`, which are the
  properties `GuessesBounded`, `PinsEarned` and `SessionsLawful` of the run `access`.

That an epoch carries one grant (`OneGrantPerEpoch`) is not inductive: approval must know that no grant of the
connection's epoch was made before. `IInv` therefore adds `EpochsIssued` (every epoch in use was handed out by
the counter), `GrantIsFirst` (a pending request's epoch has no grant yet) and `GrantNamesConnection` (request
and grant name the live connection of a pinned device). `ApprovalCanPin` needs `PairingExcludesSession`: the
pin table cannot have changed since `begin_pairing` looked at it. `PairingInv` says that a pending attempt's tries
left and its wrong codes add up to the limit. `TokensInv` ties what a record counts to the sessions it granted, and
says that of a revoked identifier the record a lookup finds is revoked, since identifiers may repeat.
`DisconnectInv` follows a message from the end that gave its session up, over the wire, to the end it closed.
`PinsCounted`, the law of finite sets that pinning rests on, comes from the library (`PinsAreCounted`).

**Surface pool** (`SurfacePool`, any number of slots and generation values, `PoolAssumption`):
`PoolInvInductive` and `PoolCorrect`, `Spec => []PoolInv`. A release that reads its own generation back needs to
know that the handle being dropped is no longer held by anybody: `DropsApart` says so, and without it the
invariant is not inductive. `InUseExact` rests on lemmas about the cardinality of the held slots; that `acquire`
finds the first free slot, on the minimum of a set of naturals.

**Route controller** (`RouteTransition`, any paths, transcripts and bounds): `TransitionInductive`,
`TransitionSafe` (`Spec => []TransitionInv`) and `ActiveUntilCommitHolds`. `EpochNamesRoute` needs `Ledger`: no
route was ever recorded under a later epoch than the present one, and the routes a pending or committed
transition remembers were verified with their transcripts.

**Rendezvous** (the broker's lemmas in `RendezvousBroker`, the server's in `RendezvousService`, the agreement of the
clients and the theorems in `RendezvousProofs`; any devices, match ids, attempts, connections and limits;
`BrokerAssumption`, `ServiceAssumption`):

* `BrokerIsSound`: `BrokerSpec => []BrokerInv`, and `BrokerRemembers`: `BrokerSpec => ReplayProtected`, for a
  broker called in any order;
* `ServiceIsSound`: `ServiceSpec => []ServiceInv`, and `ServiceRemembers`: `ServiceSpec => ReplayProtected`, for
  the broker under the server, the properties the run `rendezvous` checks.

The server chains up to three of the broker's operations in one step (clean up, cancel the expired, register,
take the delivery, abort), so the argument is about operators: each of them takes a state that satisfies
`SoundBroker` to another one and keeps every id that is known at the time (`KnownAt`). `SoundBroker` is `BrokerInv`
said of a state, with the fields' types; it is inductive because expiry, cancel and abort move an id between
tables and never add one (`Retired`, of which clean-up, cancel and abort are instances), so the bound on used ids
that only `register` checks holds for all of them. What it needs of cardinalities is `SetsSized`, which
`SetsAreSized` takes from the library. For the server, `ServiceInv` says something only between
exchanges. `ServiceSound` carries it through one: up to the confirmation the match in hand is reserved
(`ServerSound`), so the abort of a failed exchange gives back exactly its two registrations; from the confirmation
to the report the broker is one match ahead (`ReportSound`); the waiting connections and the broker's pending
registrations correspond one to one, with their deadlines (`WaitersSound`), so that a match finds its waiter. That
the exchange confirms at its eleventh step and only tells afterwards is `ScriptShape`, from the script itself.

The last conjunct of `ServiceInv`, `DoneIsAgreed`, says what the two-phase exchange is for, and has an invariant of
its own, `AgreementSound`. A client holds at most one delivery, valid and from a client that has begun; a
`Complete` is in flight only between two clients that hold each other's registration and have committed (`Bound`);
a commit's acknowledgement in flight means a commit; a waiting connection was never delivered anything; and the two
sides of an exchange have only ever been delivered each other, and have committed once the exchange is past the
acknowledgement it awaits (`ExchangeAgrees`). `PairsCounted` counts: the pairs of which a side has been told, with
the pair of an exchange past its confirmation, are no more than the broker's matches. All that a step may do to the
clients is in one relation, `Lawful`; each action is shown to be lawful, and lawful steps keep the parts.

**Secure sessions** (`SecureSessions`, any numbers of sessions, reconnects and restarts, every set of faults):
`SessionsAreSafe`, `Spec => []SessionsEndSafely`, which the run `secure` checks; `StampsAlwaysRise`; and
`ConnectionsSuffice`, which says that the number of connections the model provides cuts nothing off. The invariant
`SecureInv` has a part for the Host (what its listener, media loop and worker have seen, by phase), for the Client
(its connections against its attempts), for the connections (a stamp that was offered was allocated) and for the
link between them: the allocator has handed out at most one stamp per connection.

**Congestion control** (`CongestionController`, every configuration `validate` accepts): `EncoderStaysInStep`,
`Spec => []EncoderInStep`, which the run `progress` checks, from `StepInv`.

`AccessBounds` (limits are naturals, at least one try and one session), like every assumption named here, is
evaluated by TLC on the runs. Each invariant has a lemma or a step per action, and was checked by TLC before it was proved.

Everything else is model-checked only. Liveness stays with TLC in any case, since the prover handles neither
fairness nor `ENABLED`; so do the modules with recursive definitions or folds over sequences (`AnnexB`,
`WireFormat`, `FrameTiles`, and `HostRuntime` with `InputChannel`, whose platform performs a list of actions) and
the components whose state is a sequence that a proof would have to induct over (`TurnService`, `ProductChannel`
and its refinement).

## Findings

* `host_release`: `ingest_input` lets the ledger forget a control before its release is injected. If that
  injection fails, teardown's plan, built from the ledger, omits the control. The doc of `close`
  (`crates/runtime/src/lib.rs:520`) says that it "Releases all held input".
* `route_expiry`: when the timer closes both routes after the last write of a call and before
  `activate_prepared_route`, the call sets `route_authorized` again on a closed connection and reports success.
  `README.md:373` says that an expired transition deauthorizes both connections.
* `secure_loss`: the media loop reaches its frame limit while the input worker has already ended with the loss
  of the path; nobody excuses the worker's error and the listener ends, although ADR 0011 calls the loss
  recoverable and sessions are left.
* `viewer_chain`: the network task of the portable viewer replaces the frame in the slot by a newer one, and the
  window decodes what it finds without looking at its dependency; ADR 0004 says that dependent frames are not
  fed to the decoder and that missing data triggers a recovery request.

Met while modelling, and not given a run of their own:

* With overlapping transitions (`send_route_transition` accepts a Prepare while Activated is awaited), the end
  of the first transition disarms the timer of the second: `TransitionTimed` fails without `OneAtATime`.
* `record_check_result` compares priorities only: the failure of another pair of the same priority as the active
  one moves the router down to the relay. A pair left `InProgress` because its result never came, and a pair
  that succeeded before a downgrade, are never probed again while the relay is in use.
* The supervisor, when it is cancelled itself, leaves children running (ADR 0016, decisions 2 and 3).
* An abort that arrives after the checks of a capture launch and before the duplication source has its session
  does nothing but is recorded as done; the session then starts, and stopping it later is skipped as already
  quiesced. The doc of the abort (`crates/platform-windows/src/lib.rs:1893`) says that an aborted session can no
  longer touch callbacks or reservations when it returns.
* A failed connectivity probe can close the product session it was meant to be isolated from (`README.md`,
  section 3.5).
* `receive_media_datagram` of the laboratory endpoint ignores what its replay filter answers, so a frame whose
  datagrams arrive again is handed over twice; its doc (`crates/socket-transport/src/lib.rs:596`) promises
  anti-replay protection.
* A click is mapped with the geometry the session knows when it arrives, not with that of the frame it was
  aimed at (`docs/ARCHITECTURE_FREEZE_V0_1.md:36`). `DesktopSound` promises the exact pixel only of the direct
  Host, whose one session has both; of the worker's second session it promises the order of clicks.
* The tile cache does not compare generations, so a packet that arrives late replaces newer content;
  `PicturesExact` promises only that a tile shows something its display showed.

## Not modelled

* Cryptography, certificates and identity files: equality of what was signed, hashed or encrypted stands for
  them.
* Codecs: encoders and decoders are calls that succeed or fail and remember their reference frame.
* The Windows encoder, decoder, renderer and native viewer and the C++ bridge; the Linux render backend. They
  are wrappers of operating-system calls whose contract `HostRuntime` and `ClientRuntime` state.
* The Windows secure Host, which serves a single session with the loops that `SecureSessions` has for Linux.
* `SessionMachine` (`crates/session/src/lib.rs`), a table of legal phase changes that no other code drives.
* Statistics, telemetry, logs, command lines other than the Client's, laboratory probes, stress programs and
  scripts.
