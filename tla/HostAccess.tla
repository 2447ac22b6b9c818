------------------------------- MODULE HostAccess -------------------------------
(***************************************************************************)
(* HostAccessPolicy of crates/session/src/authorization.rs: pairing,       *)
(* pinning, admission of verified connections, capability requests, host   *)
(* approval, expiry and revocation.                                        *)
(*                                                                         *)
(* A handle, invitation or context that the policy returned may be         *)
(* presented later, in any order, so every operation that takes one takes  *)
(* the number that tells it apart: the generation of a pairing or request  *)
(* handle, the authorization epoch of a connection context.  The random    *)
(* nonce, secret and session id are only ever compared for equality and    *)
(* are determined by that number.                                          *)
(***************************************************************************)
EXTENDS Integers, FiniteSets

CONSTANTS Devices,        \* device fingerprints
          MaxPinned,      \* MAX_PINNED_DEVICES
          MaxPairingTtl,  \* MAX_PAIRING_TTL_NS
          MaxSessionTtl,  \* MAX_SESSION_TTL_NS
          MaxTime,        \* u64::MAX of the monotonic clock
          MaxEpoch,       \* u32::MAX
          MaxGeneration   \* u64::MAX

ASSUME BoundsAssumption ==
  /\ IsFiniteSet(Devices)
  /\ MaxPinned \in Nat
  /\ MaxPairingTtl \in Nat
  /\ MaxSessionTtl \in Nat
  /\ MaxTime \in Nat
  /\ MaxEpoch \in Nat \ {0}
  /\ MaxGeneration \in Nat \ {0}

VARIABLES now, pinned, nextEpoch, nextGeneration, pairing, connection, pending, session,
          grants  \* history: every authorization approve_session returned

vars == <<now, pinned, nextEpoch, nextGeneration, pairing, connection, pending, session, grants>>

-----------------------------------------------------------------------------
Capabilities == {"View", "Input"}
CapabilitySets == (SUBSET Capabilities) \ {{}}

\* Option::None for the three options that carry an epoch, and PairingState::Idle.
None == [epoch |-> 0]
Idle == [phase |-> "Idle"]

Pairings    == [phase : {"AwaitingProof", "AwaitingHostApproval"}, device : Devices,
                generation : Nat, expires : Nat]
Connections == [device : Devices, epoch : Nat \ {0}]
Requests    == [device : Devices, epoch : Nat \ {0}, requested : CapabilitySets, generation : Nat]
Grants      == [device : Devices, epoch : Nat \ {0}, capabilities : CapabilitySets, expires : Nat]

Present(option) == option.epoch # 0

\* from_pinned_devices; the default policy is the one with no pins.
Init == /\ now = 0
        /\ pinned \in {devices \in SUBSET Devices : Cardinality(devices) <= MaxPinned}
        /\ nextEpoch = 1
        /\ nextGeneration = 1
        /\ pairing = Idle
        /\ connection = None
        /\ pending = None
        /\ session = None
        /\ grants = {}

-----------------------------------------------------------------------------
(* expire_pairing and expire_active, which other operations call first. *)

PairingLapsed == pairing.phase # "Idle" /\ pairing.expires <= now
PairingNow    == IF PairingLapsed THEN Idle ELSE pairing

\* Faulty: the deadline itself still counts as live.
SessionLapsedLate == Present(session) /\ session.expires < now
SessionLapsed == Present(session) /\ session.expires <= now

SessionNow    == IF SessionLapsed THEN None ELSE session
ConnectionNow == IF SessionLapsed THEN None ELSE connection
PendingNow    == IF SessionLapsed THEN None ELSE pending

ExpireActive == /\ session' = SessionNow
                /\ connection' = ConnectionNow
                /\ pending' = PendingNow

Tick == /\ now < MaxTime
        /\ now' = now + 1
        /\ UNCHANGED <<pinned, nextEpoch, nextGeneration, pairing, connection, pending, session, grants>>

\* expire_pairing called on its own.
ExpirePairing == /\ PairingLapsed
                 /\ pairing' = Idle
                 /\ UNCHANGED <<now, pinned, nextEpoch, nextGeneration, connection, pending, session, grants>>

\* active_grant, and is_authorized through it: a lapsed grant is revoked by being looked up.
ActiveGrant == /\ SessionLapsed
               /\ ExpireActive
               /\ UNCHANGED <<now, pinned, nextEpoch, nextGeneration, pairing, grants>>

\* What is_authorized answers once the lapsed grant is gone.
IsAuthorized(grant, capability) ==
  /\ Present(SessionNow)
  /\ SessionNow = grant
  /\ capability \in grant.capabilities
  /\ Present(ConnectionNow)
  /\ ConnectionNow.device = grant.device
  /\ ConnectionNow.epoch = grant.epoch

-----------------------------------------------------------------------------
(* Pairing *)

CanBeginPairing(d, ttl) ==
  /\ d \notin pinned
  /\ Cardinality(pinned) < MaxPinned
  /\ PairingNow = Idle
  /\ ~ Present(PendingNow) /\ ~ Present(SessionNow) /\ ~ Present(ConnectionNow)
  /\ ttl \in 1..MaxPairingTtl
  /\ now + ttl <= MaxTime

\* rng is FALSE when getrandom fails; every refusal still expires what has lapsed.
BeginPairing(d, ttl, rng) ==
  /\ IF CanBeginPairing(d, ttl) /\ rng /\ nextGeneration < MaxGeneration
     THEN /\ pairing' = [phase |-> "AwaitingProof", device |-> d,
                         generation |-> nextGeneration, expires |-> now + ttl]
          /\ nextGeneration' = nextGeneration + 1
     ELSE /\ pairing' = PairingNow
          /\ UNCHANGED nextGeneration
  /\ ExpireActive
  /\ UNCHANGED <<now, pinned, nextEpoch, grants>>

\* The invitation is consumed by any attempt.  proof is the generation of the
\* invitation the secret was taken from, 0 for any other device or secret.
ConfirmPairing(proof, rng) ==
  /\ pairing.phase = "AwaitingProof"
  /\ pairing' = IF pairing.expires > now /\ proof = pairing.generation /\ rng
                THEN [pairing EXCEPT !.phase = "AwaitingHostApproval"]
                ELSE Idle
  /\ UNCHANGED <<now, pinned, nextEpoch, nextGeneration, connection, pending, session, grants>>

ApprovalTimely == pairing.expires > now

\* pin
Pin(d) == pinned' = IF d \notin pinned /\ Cardinality(pinned) < MaxPinned
                    THEN pinned \cup {d} ELSE pinned

ApprovePairing(handle) ==
  /\ pairing.phase = "AwaitingHostApproval"
  /\ handle = pairing.generation
  /\ pairing' = Idle
  /\ IF ApprovalTimely THEN Pin(pairing.device) ELSE UNCHANGED pinned
  /\ UNCHANGED <<now, nextEpoch, nextGeneration, connection, pending, session, grants>>

RejectPairing(handle) ==
  /\ pairing.phase = "AwaitingHostApproval"
  /\ handle = pairing.generation
  /\ pairing' = Idle
  /\ UNCHANGED <<now, pinned, nextEpoch, nextGeneration, connection, pending, session, grants>>

CancelPairing(handle) ==
  /\ pairing.phase # "Idle"
  /\ handle = pairing.generation
  /\ pairing' = Idle
  /\ UNCHANGED <<now, pinned, nextEpoch, nextGeneration, connection, pending, session, grants>>

-----------------------------------------------------------------------------
(* Connections, requests and grants *)

\* Faulty: the epoch counter is not advanced.
EpochAfterReused == nextEpoch
EpochAfter == nextEpoch + 1

EpochAvailable == nextEpoch < MaxEpoch

\* register_verified_one_rtt_connection: the new connection replaces the old one
\* together with whatever was pending or granted on it.
RegisterConnection(d, rng) ==
  /\ pairing' = PairingNow
  /\ IF d \in pinned /\ PairingNow = Idle /\ rng /\ EpochAvailable
     THEN /\ connection' = [device |-> d, epoch |-> nextEpoch]
          /\ nextEpoch' = EpochAfter
          /\ pending' = None
          /\ session' = None
     ELSE /\ ExpireActive
          /\ UNCHANGED nextEpoch
  /\ UNCHANGED <<now, pinned, nextGeneration, grants>>

CloseConnection(context) ==
  /\ Present(connection)
  /\ context = connection.epoch
  /\ connection' = None
  /\ pending' = None
  /\ session' = None
  /\ UNCHANGED <<now, pinned, nextEpoch, nextGeneration, pairing, grants>>

\* A failing rng burns the generation it has already taken.
RequestSession(context, caps, rng) ==
  /\ pairing = Idle
  /\ Present(connection)
  /\ context = connection.epoch
  /\ connection.device \in pinned
  /\ ~ Present(session)
  /\ ~ Present(pending)
  /\ "View" \in caps
  /\ nextGeneration < MaxGeneration
  /\ nextGeneration' = nextGeneration + 1
  /\ pending' = IF rng THEN [device |-> connection.device, epoch |-> connection.epoch,
                             requested |-> caps, generation |-> nextGeneration]
                       ELSE pending
  /\ UNCHANGED <<now, pinned, nextEpoch, pairing, connection, session, grants>>

WithinRequest(caps) == "View" \in caps /\ caps \subseteq PendingNow.requested

\* The pending request still names the connection that is up.
RequestCurrent == /\ PendingNow.device \in pinned
                  /\ Present(ConnectionNow)
                  /\ ConnectionNow.device = PendingNow.device
                  /\ ConnectionNow.epoch = PendingNow.epoch

Grant(caps, ttl) == [device |-> PendingNow.device, epoch |-> PendingNow.epoch,
                     capabilities |-> caps, expires |-> now + ttl]

ApproveSession(handle, caps, ttl) ==
  LET admissible == /\ ttl \in 1..MaxSessionTtl
                    /\ now + ttl <= MaxTime
                    /\ Present(PendingNow)
                    /\ handle = PendingNow.generation
  IN  /\ IF admissible /\ RequestCurrent /\ WithinRequest(caps)
         THEN /\ session' = Grant(caps, ttl)
              /\ grants' = grants \cup {Grant(caps, ttl)}
              /\ pending' = None
         ELSE /\ session' = SessionNow
              /\ pending' = IF admissible /\ ~ RequestCurrent THEN None ELSE PendingNow
              /\ UNCHANGED grants
      /\ connection' = ConnectionNow
      /\ UNCHANGED <<now, pinned, nextEpoch, nextGeneration, pairing>>

RejectSession(handle) ==
  /\ Present(pending)
  /\ handle = pending.generation
  /\ pending' = None
  /\ UNCHANGED <<now, pinned, nextEpoch, nextGeneration, pairing, connection, session, grants>>

RevokeActive ==
  /\ connection' = None
  /\ pending' = None
  /\ session' = None
  /\ UNCHANGED <<now, pinned, nextEpoch, nextGeneration, pairing, grants>>

\* What revoke_device leaves of an option that may name the device.
Without(option, d) == IF Present(option) /\ option.device = d THEN None ELSE option

\* Faulty: revoking a device leaves its grant in place.
SessionWithoutKept(d) == session
SessionWithout(d) == Without(session, d)

RevokeDevice(d) ==
  /\ d \in pinned
  /\ pinned' = pinned \ {d}
  /\ connection' = Without(connection, d)
  /\ pending' = Without(pending, d)
  /\ session' = SessionWithout(d)
  /\ pairing' = IF pairing.phase # "Idle" /\ pairing.device = d THEN Idle ELSE pairing
  /\ UNCHANGED <<now, nextEpoch, nextGeneration, grants>>

-----------------------------------------------------------------------------
Handles == 0..(MaxGeneration - 1)

Next ==
  \/ Tick
  \/ ExpirePairing
  \/ ActiveGrant
  \/ \E d \in Devices, ttl \in 0..(MaxPairingTtl + 1), rng \in BOOLEAN : BeginPairing(d, ttl, rng)
  \/ \E proof \in Handles, rng \in BOOLEAN : ConfirmPairing(proof, rng)
  \/ \E handle \in Handles : ApprovePairing(handle)
  \/ \E handle \in Handles : RejectPairing(handle)
  \/ \E handle \in Handles : CancelPairing(handle)
  \/ \E d \in Devices, rng \in BOOLEAN : RegisterConnection(d, rng)
  \/ \E context \in 1..MaxEpoch : CloseConnection(context)
  \/ \E context \in 1..MaxEpoch, caps \in CapabilitySets, rng \in BOOLEAN : RequestSession(context, caps, rng)
  \/ \E handle \in Handles, caps \in CapabilitySets, ttl \in 0..(MaxSessionTtl + 1) :
       ApproveSession(handle, caps, ttl)
  \/ \E handle \in Handles : RejectSession(handle)
  \/ RevokeActive
  \/ \E d \in Devices : RevokeDevice(d)

Spec == Init /\ [][Next]_vars

-----------------------------------------------------------------------------
(* Properties *)

\* Every component has its type, and nothing carries a number not yet issued.
TypeOK ==
  /\ now \in 0..MaxTime
  /\ pinned \subseteq Devices
  /\ nextEpoch \in 1..MaxEpoch
  /\ nextGeneration \in 1..MaxGeneration
  /\ pairing \in Pairings \cup {Idle}
  /\ connection \in Connections \cup {None}
  /\ pending \in Requests \cup {None}
  /\ session \in Grants \cup {None}
  /\ grants \subseteq Grants

\* The grant in force and the request waiting for the host both name the connection
\* that is up, whose device is pinned: no operation leaves one behind when it drops,
\* replaces or unpins the other (register, close, revoke_*, expire_active).
GrantNamesConnection ==
  \A holder \in {pending, session} : Present(holder) =>
    /\ Present(connection)
    /\ connection.device = holder.device
    /\ connection.epoch = holder.epoch
    /\ holder.device \in pinned

\* While a pairing is under way nobody is connected, waiting or granted anything,
\* so a pairing decision can never be taken beside a live session.
PairingExcludesSession ==
  pairing.phase # "Idle" => /\ ~ Present(connection)
                            /\ ~ Present(pending)
                            /\ ~ Present(session)

\* The checks of begin_pairing still hold when the host approves: pin cannot
\* answer DeviceAlreadyPinned or PinnedDeviceLimit after the invitation is consumed.
ApprovalCanPin ==
  pairing.phase # "Idle" => /\ pairing.device \notin pinned
                            /\ Cardinality(pinned) < MaxPinned

\* Epochs are issued once: everything recorded names an epoch below the next one.
EpochsIssued ==
  /\ Present(connection) => connection.epoch < nextEpoch
  /\ \A g \in grants : g.epoch < nextEpoch

\* A connection without a session has never been granted anything, and a request
\* and a grant never stand together, so approve_session cannot renew a grant.
GrantIsFirst ==
  /\ Present(session) => session \in grants /\ ~ Present(pending)
  /\ Present(connection) /\ ~ Present(session) => \A g \in grants : g.epoch # connection.epoch

\* An authorization epoch carries at most one grant for ever: what the epoch
\* authorizes cannot be widened or prolonged by asking again.
OneGrantPerEpoch == \A g, h \in grants : g.epoch = h.epoch => g = h

\* What always holds of the three options, the pins and the epochs: the types, the
\* consistency of connection, request and grant, and the freshness of epochs.
\* It is inductive, and OneGrantPerEpoch and RevokedForEver rest on the rest of it.
IInv == /\ TypeOK
        /\ GrantNamesConnection
        /\ PairingExcludesSession
        /\ ApprovalCanPin
        /\ EpochsIssued
        /\ GrantIsFirst
        /\ OneGrantPerEpoch

\* is_authorized accepts no grant whose deadline has come or whose device has
\* been unpinned, however long ago it was issued.
AuthorizedIsLive ==
  \A g \in grants : IsAuthorized(g, "View") => now < g.expires /\ g.device \in pinned

\* A grant that has been dropped, by expiry, replacement or revocation, never
\* becomes the active one again.
StaysRevoked == \A g \in grants : session # g => session' # g
RevokedForEver == [][StaysRevoked]_vars

\* A device is pinned only by the approval of its own unexpired pairing.
PinIsApproved ==
  \A d \in pinned' \ pinned : /\ pairing.phase = "AwaitingHostApproval"
                               /\ pairing.device = d
                               /\ now < pairing.expires
=============================================================================
