-------------------------- MODULE RendezvousBroker --------------------------
(***************************************************************************)
(* The in-memory broker of crates/rendezvous: two authenticated devices    *)
(* register the same match id, naming each other, and each is handed the   *)
(* other's registration once.  A reciprocal pair is only RESERVED until    *)
(* the service confirms that both sides acknowledged their delivery.       *)
(*                                                                         *)
(* The operations are operators from a broker state b and a time t to the  *)
(* next broker state, so that the service (module RendezvousService) can   *)
(* chain several of them in one step of its loop, as the code does.  The   *)
(* four hash maps are sets of records with at most one record per key.     *)
(* An exchange id is part of the generation: the code compares both and    *)
(* answers a difference in either with GenerationMismatch.  The overflow   *)
(* of a clock of u64 seconds is not modelled.                              *)
(***************************************************************************)
EXTENDS Integers, FiniteSets, TLAPS

CONSTANTS Devices, Matches, Generations,
          Ttls,                  \* the ttl_seconds a registration may ask for
          MaxTtl,                \* RendezvousRegistration::MAX_TTL_SECONDS
          MaxPending,            \* RendezvousLimits::max_pending
          MaxPendingPerDevice,   \* RendezvousLimits::max_pending_per_device
          MaxRegistrations,      \* RendezvousLimits::max_successful_registrations
          MaxMatches,            \* RendezvousLimits::max_matches
          MaxTime                \* bound on the clock of the model

ASSUME BrokerAssumption ==
  /\ IsFiniteSet(Matches)
  /\ MaxTtl \in Nat \ {0}
  /\ Ttls \subseteq 1 .. MaxTtl
  /\ MaxPending \in Nat \ {0}
  /\ MaxPendingPerDevice \in Nat \ {0}
  /\ MaxRegistrations \in Nat
  /\ MaxMatches \in Nat
  /\ MaxTime \in Nat

VARIABLES broker, now

brokerVars == <<broker, now>>

Roles == {"Initiator", "Responder"}

Registrations ==
  [id : Matches, peer : Devices, role : Roles, generation : Generations, ttl : Ttls]

PendingRegistrations ==
  [id : Matches, device : Devices, peer : Devices, role : Roles,
   generation : Generations, expires : Nat]

\* The registration of device `from` (which asked for `peer`) stored for `to`.
StoredDeliveries ==
  [id : Matches, to : Devices, from : Devices, peer : Devices, role : Roles,
   expires : Nat]

Expiring == [id : Matches, expires : Nat]

Has(map, id) == \E e \in map : e.id = id

Ids(map) == {e.id : e \in map}

Put(map, e) == {x \in map : x.id # e.id} \cup {e}

Protected(ids, t) == {[id |-> i, expires |-> t + MaxTtl] : i \in ids}

EmptyBroker ==
  [pending |-> {}, deliveries |-> {}, reserved |-> {}, completed |-> {},
   registrations |-> 0, matches |-> 0]

Released(count, requested) == IF requested <= count THEN count - requested ELSE 0

LapsedPending(b, t) == {p \in b.pending : p.expires <= t}

LapsedReserved(b, t) == {r \in b.reserved : r.expires <= t}

\* Faulty: an expired reservation gives back one slot.
CleanupCostOne(b, t) ==
  Cardinality(LapsedPending(b, t)) + Cardinality(LapsedReserved(b, t))

CleanupCost(b, t) ==
  Cardinality(LapsedPending(b, t)) + 2 * Cardinality(LapsedReserved(b, t))

Cleanup(b, t) ==
  LET lapsed == Ids(LapsedPending(b, t)) \cup Ids(LapsedReserved(b, t))
  IN  [pending |-> b.pending \ LapsedPending(b, t),
       deliveries |-> {d \in b.deliveries :
                         /\ d.expires > t
                         /\ d.id \notin Ids(LapsedReserved(b, t))},
       reserved |-> b.reserved \ LapsedReserved(b, t),
       completed |-> {c \in b.completed : c.id \notin lapsed /\ c.expires > t}
                       \cup Protected(lapsed, t),
       registrations |-> Released(b.registrations, CleanupCost(b, t)),
       matches |-> b.matches]

Replayed(b, d, r) ==
  \/ Has(b.completed, r.id)
  \/ Has(b.reserved, r.id)
  \/ \E x \in b.deliveries : x.to = d /\ x.id = r.id

Admissible(b, d, r) ==
  /\ r.peer # d
  /\ ~ Replayed(b, d, r)
  /\ b.registrations < MaxRegistrations

Reciprocal(w, d, r) ==
  /\ w.device # d
  /\ w.peer = d
  /\ r.peer = w.device
  /\ w.role # r.role
  /\ w.generation = r.generation

MatchCapacity(b) ==
  /\ Cardinality(b.deliveries) < MaxPending
  /\ Cardinality(b.completed) < 4 * MaxPending
  /\ b.matches + Cardinality(b.reserved) < MaxMatches

WaitCapacity(b, d) ==
  /\ Cardinality(b.pending) < MaxPending
  /\ Cardinality(b.completed) < 4 * MaxPending
  /\ Cardinality({p \in b.pending : p.device = d}) < MaxPendingPerDevice

\* The registration waiting under the caller's match id, if it reciprocates.
Partners(b, d, r) ==
  {w \in b.pending :
     w.id = r.id /\ Admissible(b, d, r) /\ Reciprocal(w, d, r) /\ MatchCapacity(b)}

CanWait(b, d, r) ==
  Admissible(b, d, r) /\ ~ Has(b.pending, r.id) /\ WaitCapacity(b, d)

Wait(b, d, r, t) ==
  [b EXCEPT
     !.pending = @ \cup {[id |-> r.id, device |-> d, peer |-> r.peer, role |-> r.role,
                          generation |-> r.generation, expires |-> t + r.ttl]},
     !.registrations = @ + 1]

Sooner(x, y) == IF x <= y THEN x ELSE y

Reserve(b, w, d, r, t) ==
  LET expiry == Sooner(w.expires, t + r.ttl)
  IN  [b EXCEPT
         !.pending = @ \ {w},
         !.deliveries = @ \cup {[id |-> r.id, to |-> w.device, from |-> d,
                                 peer |-> r.peer, role |-> r.role, expires |-> expiry]},
         !.reserved = @ \cup {[id |-> r.id, expires |-> expiry]},
         !.registrations = @ + 1]

\* The state after `register`, which cleans up before anything else; a refusal
\* changes nothing more.
Registered(b, d, r, t) ==
  LET c == Cleanup(b, t)
  IN  IF Partners(c, d, r) # {}
      THEN Reserve(c, CHOOSE w \in Partners(c, d, r) : TRUE, d, r, t)
      ELSE IF CanWait(c, d, r) THEN Wait(c, d, r, t) ELSE c

TakenDelivery(b, d, id, t) ==
  LET c == Cleanup(b, t)
  IN  [c EXCEPT !.deliveries = {x \in @ : ~ (x.to = d /\ x.id = id)}]

Confirmable(b, id, t) == \E r \in b.reserved : r.id = id /\ r.expires > t

\* `confirm_match` does not clean up; the id keeps the reservation's expiry.
Confirmed(b, id, t) ==
  [b EXCEPT !.reserved = {r \in @ : r.id # id},
            !.completed = @ \cup {r \in b.reserved : r.id = id},
            !.matches = @ + 1]

Aborted(b, id, t) ==
  [b EXCEPT !.reserved = {r \in @ : r.id # id},
            !.deliveries = {x \in @ : x.id # id},
            !.completed = Put(@, [id |-> id, expires |-> t + MaxTtl]),
            !.registrations = IF Has(b.reserved, id) THEN Released(@, 2) ELSE @]

WaitingOf(b, d, id) == {p \in b.pending : p.id = id /\ p.device = d}

\* Faulty: the cancelled id is not kept as used.
CancelledForgotten(b, d, id, t) ==
  IF WaitingOf(b, d, id) = {}
  THEN b
  ELSE [b EXCEPT !.pending = @ \ WaitingOf(b, d, id),
                 !.registrations = Released(@, 1)]

Cancelled(b, d, id, t) ==
  IF WaitingOf(b, d, id) = {}
  THEN b
  ELSE [b EXCEPT !.pending = @ \ WaitingOf(b, d, id),
                 !.completed = Put(@, [id |-> id, expires |-> t + MaxTtl]),
                 !.registrations = Released(@, 1)]

-----------------------------------------------------------------------------
(* The broker driven by any caller.                                        *)

BrokerInit == broker = EmptyBroker /\ now = 0

Tick == now < MaxTime /\ now' = now + 1 /\ UNCHANGED broker

Register(d, r) == broker' = Registered(broker, d, r, now) /\ UNCHANGED now

TakeDelivery(d, id) ==
  broker' = TakenDelivery(broker, d, id, now) /\ UNCHANGED now

\* A match that cannot be confirmed is refused without a change.
ConfirmMatch(id) ==
  /\ Confirmable(broker, id, now)
  /\ broker' = Confirmed(broker, id, now)
  /\ UNCHANGED now

\* The service aborts only an id that it has just been told is matched.
AbortMatch(id) ==
  /\ Has(broker.reserved, id)
  /\ broker' = Aborted(broker, id, now)
  /\ UNCHANGED now

CancelWaiting(d, id) == broker' = Cancelled(broker, d, id, now) /\ UNCHANGED now

CleanUp == broker' = Cleanup(broker, now) /\ UNCHANGED now

BrokerNext ==
  \/ Tick
  \/ \E d \in Devices, r \in Registrations : Register(d, r)
  \/ \E d \in Devices, id \in Matches : TakeDelivery(d, id)
  \/ \E id \in Matches : ConfirmMatch(id)
  \/ \E id \in Matches : AbortMatch(id)
  \/ \E d \in Devices, id \in Matches : CancelWaiting(d, id)
  \/ CleanUp

BrokerSpec == BrokerInit /\ [][BrokerNext]_brokerVars

-----------------------------------------------------------------------------
(* Properties.                                                             *)

\* The four tables and the two counters have the types of the struct's fields.
BrokerTypeOK ==
  /\ broker.pending \in SUBSET PendingRegistrations
  /\ broker.deliveries \in SUBSET StoredDeliveries
  /\ broker.reserved \in SUBSET Expiring
  /\ broker.completed \in SUBSET Expiring
  /\ broker.registrations \in Nat
  /\ broker.matches \in Nat
  /\ now \in 0 .. MaxTime

\* The tables are maps: `pending`, `reserved` and `completed` hold one entry per
\* match id.
OnePerId ==
  \A map \in {broker.pending, broker.reserved, broker.completed} :
    \A x, y \in map : x.id = y.id => x = y

\* A match id is waiting, reserved or used, never two of them: this is what
\* register's replay check protects against a second registration of the id.
IdsDisjoint ==
  /\ Ids(broker.pending) \cap Ids(broker.reserved) = {}
  /\ Ids(broker.pending) \cap Ids(broker.completed) = {}
  /\ Ids(broker.reserved) \cap Ids(broker.completed) = {}

\* Every registration slot in use is accounted for: one per waiting device, two
\* per reserved or confirmed match.  The saturating release never hides a slot.
SlotsAccounted ==
  broker.registrations =
    Cardinality(broker.pending) + 2 * Cardinality(broker.reserved) + 2 * broker.matches

\* Reserved matches can all be confirmed without passing the match limit.
MatchesBounded == broker.matches + Cardinality(broker.reserved) <= MaxMatches

\* The registrations stay within the limit that register checks first.
RegistrationsBounded == broker.registrations <= MaxRegistrations

\* The table of used ids, which register bounds only when it adds to the other
\* tables, stays bounded although expiry, cancel and abort all add to it.
UsedIdsBounded ==
  Cardinality(broker.completed) + Cardinality(broker.pending) + Cardinality(broker.reserved)
    < 5 * MaxPending + MaxMatches

\* A stored delivery belongs to a match that is still reserved, or was confirmed,
\* with the same expiry: aborting or expiring a match takes its delivery away.
DeliveryHasMatch ==
  \A x \in broker.deliveries :
    [id |-> x.id, expires |-> x.expires] \in broker.reserved \cup broker.completed

\* What is stored for a device was registered by another device that asked for it.
DeliveryIsMutual ==
  \A x \in broker.deliveries : x.peer = x.to /\ x.from # x.to

\* What holds of the broker's tables and counters after every operation.
BrokerInv ==
  /\ BrokerTypeOK /\ OnePerId /\ IdsDisjoint
  /\ SlotsAccounted /\ MatchesBounded /\ RegistrationsBounded /\ UsedIdsBounded
  /\ DeliveryHasMatch /\ DeliveryIsMutual

\* A match id that is waiting, reserved or still protected is known after every
\* step: confirming, aborting, cancelling or expiring it leaves it replay-protected.
NotForgotten ==
  \A id \in Matches :
    \/ Has(broker.pending, id)
    \/ Has(broker.reserved, id)
    \/ \E c \in broker.completed : c.id = id /\ c.expires > now
    => \/ Has(broker'.pending, id)
       \/ Has(broker'.reserved, id)
       \/ Has(broker'.completed, id)

\* Whatever ends a match id leaves it protected from a replay (confirm_match,
\* cancel_waiting, abort_match, cleanup).
ReplayProtected == [][NotForgotten]_brokerVars

-----------------------------------------------------------------------------
(* Proofs, for any devices, match ids and limits.                          *)

USE SMTT(40)

(* What the proofs use of the sizes of finite sets.  These are laws, not properties of *)
(* the broker: SetsAreSized, at the end of RendezvousProofs, proves them.              *)

TypeSized == \A S : IsFiniteSet(S) => Cardinality(S) \in Nat

EmptySized ==
  IsFiniteSet({}) /\ Cardinality({}) = 0 /\ \A S : IsFiniteSet(S) /\ Cardinality(S) = 0 => S = {}

SingletonSized == \A x : Cardinality({x}) = 1

AddSized ==
  \A S, x : IsFiniteSet(S) =>
    /\ IsFiniteSet(S \cup {x})
    /\ Cardinality(S \cup {x}) = IF x \in S THEN Cardinality(S) ELSE Cardinality(S) + 1

RemoveSized ==
  \A S, x : IsFiniteSet(S) /\ x \in S => Cardinality(S \ {x}) = Cardinality(S) - 1

SubsetSized ==
  \A S : IsFiniteSet(S) => \A T \in SUBSET S :
    /\ IsFiniteSet(T) /\ Cardinality(T) <= Cardinality(S)
    /\ IsFiniteSet(S \ T) /\ Cardinality(S \ T) = Cardinality(S) - Cardinality(T)

UnionSized ==
  \A S, T : IsFiniteSet(S) /\ IsFiniteSet(T) =>
    IsFiniteSet(S \cup T) /\ Cardinality(S \cup T) <= Cardinality(S) + Cardinality(T)

ImageSized ==
  \A S, T : \A f \in [S -> T] :
    IsFiniteSet(S) /\ (\A y \in T : \E x \in S : f[x] = y) =>
      IsFiniteSet(T) /\ Cardinality(T) <= Cardinality(S)

IntoSized ==
  \A S, T : \A f \in [S -> T] :
    IsFiniteSet(T) /\ (\A x, y \in S : f[x] = f[y] => x = y) => IsFiniteSet(S)

SetsSized ==
  /\ TypeSized /\ EmptySized /\ SingletonSized /\ AddSized /\ RemoveSized
  /\ SubsetSized /\ UnionSized /\ ImageSized /\ IntoSized

BrokerStates ==
  [pending : SUBSET PendingRegistrations, deliveries : SUBSET StoredDeliveries,
   reserved : SUBSET Expiring, completed : SUBSET Expiring,
   registrations : Nat, matches : Nat]

OneEach(map) == \A x, y \in map : x.id = y.id => x = y

Apart(map, other) == \A x \in map, y \in other : x.id # y.id

TablesSound(b) ==
  /\ OneEach(b.pending) /\ OneEach(b.reserved) /\ OneEach(b.completed)
  /\ Apart(b.pending, b.reserved)
  /\ Apart(b.pending, b.completed)
  /\ Apart(b.reserved, b.completed)

CountsSound(b) ==
  /\ b.registrations = Cardinality(b.pending) + 2 * Cardinality(b.reserved) + 2 * b.matches
  /\ b.matches + Cardinality(b.reserved) <= MaxMatches
  /\ b.registrations <= MaxRegistrations
  /\ Cardinality(b.completed) + Cardinality(b.pending) + Cardinality(b.reserved)
       < 5 * MaxPending + MaxMatches

MatchOf(x) == [id |-> x.id, expires |-> x.expires]

DeliveriesSound(b) ==
  \A x \in b.deliveries :
    /\ MatchOf(x) \in b.reserved \cup b.completed
    /\ x.peer = x.to /\ x.from # x.to

\* The inductive invariant of the broker, with the laws at hand.
SoundBroker(b) ==
  SetsSized /\ b \in BrokerStates /\ TablesSound(b) /\ CountsSound(b) /\ DeliveriesSound(b)

\* The id is waiting, reserved or protected at time t.
KnownAt(b, id, t) ==
  \/ Has(b.pending, id)
  \/ Has(b.reserved, id)
  \/ \E c \in b.completed : c.id = id /\ c.expires > t

\* A table with one entry for each match id is finite.
LEMMA TableFinite ==
  ASSUME SetsSized, NEW map, OneEach(map), \A e \in map : e.id \in Matches
  PROVE  IsFiniteSet(map)
<1> DEFINE f == [e \in map |-> e.id]
<1>1. f \in [map -> Matches] /\ \A x, y \in map : f[x] = f[y] => x = y
  BY DEF OneEach
<1> HIDE DEF f
<1> QED
  BY <1>1, BrokerAssumption DEF SetsSized, IntoSized

\* Removing entries from a finite table lowers its size by their number.
LEMMA RemovedCount ==
  ASSUME SetsSized, NEW map, IsFiniteSet(map), NEW gone \in SUBSET map
  PROVE  /\ IsFiniteSet(gone) /\ IsFiniteSet(map \ gone)
         /\ Cardinality(map) \in Nat /\ Cardinality(gone) \in Nat
         /\ Cardinality(gone) <= Cardinality(map)
         /\ Cardinality(map \ gone) = Cardinality(map) - Cardinality(gone)
BY DEF SetsSized, SubsetSized, TypeSized

\* Protecting the ids of finitely many entries adds at most one entry for each.
LEMMA ProtectedCount ==
  ASSUME SetsSized, NEW map, IsFiniteSet(map), NEW t
  PROVE  /\ IsFiniteSet(Protected(Ids(map), t))
         /\ Cardinality(Protected(Ids(map), t)) \in Nat
         /\ Cardinality(Protected(Ids(map), t)) <= Cardinality(map)
<1> DEFINE T == Protected(Ids(map), t)
           f == [e \in map |-> [id |-> e.id, expires |-> t + MaxTtl]]
<1>1. f \in [map -> T]
  BY ZenonT(40) DEF Protected, Ids
<1>2. \A p \in T : \E e \in map : f[e] = p
  BY DEF Protected, Ids
<1> HIDE DEF f, T
<1>3. IsFiniteSet(T) /\ Cardinality(T) <= Cardinality(map)
  BY <1>1, <1>2 DEF SetsSized, ImageSized
<1>4. Cardinality(T) \in Nat
  BY <1>3 DEF SetsSized, TypeSized
<1> QED
  BY <1>3, <1>4 DEF T

\* The tables of a sound broker are finite and counted by naturals.
LEMMA SoundFinite ==
  ASSUME NEW b, SoundBroker(b)
  PROVE  /\ IsFiniteSet(b.pending) /\ IsFiniteSet(b.reserved) /\ IsFiniteSet(b.completed)
         /\ Cardinality(b.pending) \in Nat /\ Cardinality(b.reserved) \in Nat
         /\ Cardinality(b.completed) \in Nat
         /\ b.registrations \in Nat /\ b.matches \in Nat
<1>1. /\ b.pending \subseteq PendingRegistrations /\ b.reserved \subseteq Expiring
      /\ b.completed \subseteq Expiring /\ b.registrations \in Nat /\ b.matches \in Nat
  BY DEF SoundBroker, BrokerStates
<1>2. /\ \A e \in b.pending : e.id \in Matches
      /\ \A e \in b.reserved : e.id \in Matches
      /\ \A e \in b.completed : e.id \in Matches
  BY <1>1 DEF PendingRegistrations, Expiring
<1>3. OneEach(b.pending) /\ OneEach(b.reserved) /\ OneEach(b.completed)
  BY DEF SoundBroker, TablesSound
<1>4. IsFiniteSet(b.pending) /\ IsFiniteSet(b.reserved) /\ IsFiniteSet(b.completed)
  BY <1>2, <1>3, TableFinite DEF SoundBroker
<1> QED
  BY <1>1, <1>4 DEF SoundBroker, SetsSized, TypeSized

\* SoundBroker is BrokerInv, said of the broker variable.
LEMMA SoundIsInv ==
  ASSUME SoundBroker(broker), now \in 0 .. MaxTime
  PROVE  BrokerInv
<1>1. BrokerTypeOK
  BY DEF SoundBroker, BrokerStates, BrokerTypeOK
<1>2. OnePerId
  BY DEF SoundBroker, TablesSound, OneEach, OnePerId
<1>3. IdsDisjoint
  BY DEF SoundBroker, TablesSound, Apart, IdsDisjoint, Ids
<1>4. SlotsAccounted /\ MatchesBounded /\ RegistrationsBounded /\ UsedIdsBounded
  BY DEF SoundBroker, CountsSound, SlotsAccounted, MatchesBounded, RegistrationsBounded, UsedIdsBounded
<1>5. DeliveryHasMatch /\ DeliveryIsMutual
  BY ZenonT(40) DEF SoundBroker, DeliveriesSound, MatchOf, DeliveryHasMatch, DeliveryIsMutual
<1> QED
  BY <1>1, <1>2, <1>3, <1>4, <1>5 DEF BrokerInv

\* What cleanup, a cancellation and an abort have in common: the entries P and R
\* leave the tables, their ids are protected, and their slots are given back.
Retired(b, P, R, C, D, t) ==
  [pending |-> b.pending \ P,
   deliveries |-> D,
   reserved |-> b.reserved \ R,
   completed |-> C \cup Protected(Ids(P \cup R), t),
   registrations |-> Released(b.registrations, Cardinality(P) + 2 * Cardinality(R)),
   matches |-> b.matches]

\* Retiring entries keeps the broker sound, provided that no delivery of theirs stays.
LEMMA RetiredSound ==
  ASSUME NEW b, SoundBroker(b), NEW t \in Nat,
         NEW P \in SUBSET b.pending, NEW R \in SUBSET b.reserved,
         NEW C \in SUBSET b.completed, NEW D \in SUBSET b.deliveries,
         \A x \in D : MatchOf(x) \in (b.reserved \ R) \cup C
  PROVE  SoundBroker(Retired(b, P, R, C, D, t))
<1> DEFINE n == Retired(b, P, R, C, D, t)
           new == Protected(Ids(P \cup R), t)
<1>0. /\ IsFiniteSet(b.pending) /\ IsFiniteSet(b.reserved) /\ IsFiniteSet(b.completed)
      /\ Cardinality(b.pending) \in Nat /\ Cardinality(b.reserved) \in Nat
      /\ Cardinality(b.completed) \in Nat
      /\ b.registrations \in Nat /\ b.matches \in Nat
  BY SoundFinite
<1>1. /\ n.pending = b.pending \ P /\ n.deliveries = D /\ n.reserved = b.reserved \ R
      /\ n.completed = C \cup new /\ n.matches = b.matches
      /\ n.registrations = Released(b.registrations, Cardinality(P) + 2 * Cardinality(R))
  BY DEF Retired
<1>2. /\ \A p \in new : p.expires = t + MaxTtl /\ \E e \in P \cup R : e.id = p.id
      /\ \A p \in new : p = [id |-> p.id, expires |-> t + MaxTtl]
  BY DEF Protected, Ids
<1>3. b.pending \subseteq PendingRegistrations /\ b.reserved \subseteq Expiring
      /\ b.completed \subseteq Expiring /\ b.deliveries \subseteq StoredDeliveries
  BY DEF SoundBroker, BrokerStates
<1>4. new \subseteq Expiring
  <2>1. \A e \in P \cup R : e.id \in Matches
    BY <1>3 DEF PendingRegistrations, Expiring
  <2>2. t + MaxTtl \in Nat
    BY BrokerAssumption
  <2> HIDE DEF new
  <2>3. ASSUME NEW p \in new
        PROVE  p \in Expiring
    <3>1. p.id \in Matches /\ p = [id |-> p.id, expires |-> t + MaxTtl]
      BY <2>1, <1>2
    <3> QED
      BY <3>1, <2>2 DEF Expiring
  <2> QED
    BY <2>3
<1>5. /\ IsFiniteSet(P) /\ IsFiniteSet(R)
      /\ Cardinality(P) \in Nat /\ Cardinality(R) \in Nat
      /\ Cardinality(P) <= Cardinality(b.pending) /\ Cardinality(R) <= Cardinality(b.reserved)
      /\ Cardinality(b.pending \ P) = Cardinality(b.pending) - Cardinality(P)
      /\ Cardinality(b.reserved \ R) = Cardinality(b.reserved) - Cardinality(R)
  BY ZenonT(40), <1>0, RemovedCount DEF SoundBroker
<1>6. n.registrations = b.registrations - (Cardinality(P) + 2 * Cardinality(R))
      /\ n.registrations \in Nat
  <2>1. b.registrations = Cardinality(b.pending) + 2 * Cardinality(b.reserved) + 2 * b.matches
    BY DEF SoundBroker, CountsSound
  <2>2. Cardinality(P) + 2 * Cardinality(R) <= b.registrations
    BY <2>1, <1>0, <1>5
  <2> QED
    BY <2>2, <1>0, <1>1, <1>5 DEF Released
<1>7. n \in BrokerStates
  <2>1. /\ n.pending \in SUBSET PendingRegistrations /\ n.reserved \in SUBSET Expiring
        /\ n.completed \in SUBSET Expiring /\ n.deliveries \in SUBSET StoredDeliveries
        /\ n.matches \in Nat
    BY ZenonT(40), <1>0, <1>1, <1>3, <1>4
  <2>2. n = [pending |-> n.pending, deliveries |-> n.deliveries, reserved |-> n.reserved,
             completed |-> n.completed, registrations |-> n.registrations, matches |-> n.matches]
    BY DEF Retired
  <2> HIDE DEF n
  <2> QED
    BY <1>6, <2>1, <2>2 DEF BrokerStates
<1>8. TablesSound(n)
  <2>1. /\ OneEach(b.pending) /\ OneEach(b.reserved) /\ OneEach(b.completed)
        /\ Apart(b.pending, b.reserved) /\ Apart(b.pending, b.completed)
        /\ Apart(b.reserved, b.completed)
    BY DEF SoundBroker, TablesSound
  <2> HIDE DEF new
  <2>2. OneEach(b.pending \ P) /\ OneEach(b.reserved \ R) /\ Apart(b.pending \ P, b.reserved \ R)
    BY <2>1 DEF OneEach, Apart
  <2>3. OneEach(C \cup new)
    BY <2>1, <1>2 DEF OneEach, Apart
  <2>4. Apart(b.pending \ P, C \cup new)
    BY <2>1, <1>2 DEF OneEach, Apart
  <2>5. Apart(b.reserved \ R, C \cup new)
    BY <2>1, <1>2 DEF OneEach, Apart
  <2> HIDE DEF n
  <2> QED
    BY <1>1, <2>2, <2>3, <2>4, <2>5 DEF TablesSound
<1>9. CountsSound(n)
  <2>1. /\ IsFiniteSet(P \cup R)
        /\ Cardinality(P \cup R) \in Nat
        /\ Cardinality(P \cup R) <= Cardinality(P) + Cardinality(R)
    BY <1>5 DEF SoundBroker, SetsSized, UnionSized, TypeSized
  <2>2. IsFiniteSet(new) /\ Cardinality(new) \in Nat /\ Cardinality(new) <= Cardinality(P \cup R)
    BY ZenonT(40), <2>1, ProtectedCount DEF SoundBroker
  <2> HIDE DEF new
  <2>3. IsFiniteSet(C) /\ Cardinality(C) \in Nat /\ Cardinality(C) <= Cardinality(b.completed)
    BY ZenonT(40), <1>0, RemovedCount DEF SoundBroker
  <2>4. Cardinality(C \cup new) \in Nat
        /\ Cardinality(C \cup new) <= Cardinality(C) + Cardinality(new)
    BY <2>2, <2>3 DEF SoundBroker, SetsSized, UnionSized, TypeSized
  <2>5. /\ b.registrations = Cardinality(b.pending) + 2 * Cardinality(b.reserved) + 2 * b.matches
        /\ b.matches + Cardinality(b.reserved) <= MaxMatches
        /\ b.registrations <= MaxRegistrations
        /\ Cardinality(b.completed) + Cardinality(b.pending) + Cardinality(b.reserved)
             < 5 * MaxPending + MaxMatches
    BY DEF SoundBroker, CountsSound
  <2>6. MaxMatches \in Nat /\ MaxRegistrations \in Nat /\ MaxPending \in Nat
    BY BrokerAssumption
  <2> HIDE DEF n
  <2>7. n.registrations = Cardinality(n.pending) + 2 * Cardinality(n.reserved) + 2 * n.matches
    BY <2>5, <1>0, <1>1, <1>5, <1>6
  <2>8. n.matches + Cardinality(n.reserved) <= MaxMatches /\ n.registrations <= MaxRegistrations
    BY <2>5, <2>6, <1>0, <1>1, <1>5, <1>6
  <2>9. Cardinality(n.completed) + Cardinality(n.pending) + Cardinality(n.reserved)
          < 5 * MaxPending + MaxMatches
    BY <2>1, <2>2, <2>3, <2>4, <2>5, <2>6, <1>0, <1>1, <1>5
  <2> QED
    BY <2>7, <2>8, <2>9 DEF CountsSound
<1>10. DeliveriesSound(n)
  BY <1>1 DEF SoundBroker, DeliveriesSound
<1> QED
  BY <1>7, <1>8, <1>9, <1>10 DEF SoundBroker

\* ... and forgets no id, provided that the protected ids stay.
LEMMA RetiredKnown ==
  ASSUME NEW b, NEW t \in Nat, NEW P, NEW R, NEW C, NEW D,
         \A c \in b.completed : c.expires > t => c \in C \/ c.id \in Ids(P \cup R),
         NEW id, KnownAt(b, id, t)
  PROVE  KnownAt(Retired(b, P, R, C, D, t), id, t)
<1> DEFINE n == Retired(b, P, R, C, D, t)
           new == Protected(Ids(P \cup R), t)
<1>1. n.pending = b.pending \ P /\ n.reserved = b.reserved \ R /\ n.completed = C \cup new
  BY DEF Retired
<1>2. \A i \in Ids(P \cup R) : \E c \in new : c.id = i /\ c.expires > t
  <2>1. t + MaxTtl > t
    BY BrokerAssumption
  <2>2. ASSUME NEW i \in Ids(P \cup R)
        PROVE  \E c \in new : c.id = i /\ c.expires > t
    <3>1. [id |-> i, expires |-> t + MaxTtl] \in new
      BY DEF Protected
    <3> QED
      BY <3>1, <2>1
  <2> QED
    BY ZenonT(40), <2>2
<1>3. id \in Ids(P \cup R) => KnownAt(n, id, t)
  BY ZenonT(40), <1>1, <1>2 DEF KnownAt
<1>4. CASE \E e \in b.pending \cup b.reserved : e.id = id
  BY <1>1, <1>3, <1>4 DEF KnownAt, Has, Ids
<1>5. CASE \E c \in b.completed : c.id = id /\ c.expires > t
  BY ZenonT(40), <1>1, <1>3, <1>5 DEF KnownAt
<1> QED
  BY <1>4, <1>5 DEF KnownAt, Has

\* cleanup retires what has expired.
LEMMA CleanupRetires ==
  ASSUME NEW b, SoundBroker(b), NEW t \in Nat
  PROVE  /\ SoundBroker(Cleanup(b, t))
         /\ \A id : KnownAt(b, id, t) => KnownAt(Cleanup(b, t), id, t)
<1> DEFINE P == LapsedPending(b, t)
           R == LapsedReserved(b, t)
           C == {c \in b.completed : c.id \notin Ids(P) \cup Ids(R) /\ c.expires > t}
           D == {d \in b.deliveries : d.expires > t /\ d.id \notin Ids(R)}
<1>1. P \in SUBSET b.pending /\ R \in SUBSET b.reserved /\ C \in SUBSET b.completed
      /\ D \in SUBSET b.deliveries
  BY DEF LapsedPending, LapsedReserved
<1>2. Ids(P) \cup Ids(R) = Ids(P \cup R)
  BY DEF Ids
<1>3. Cleanup(b, t) = Retired(b, P, R, C, D, t)
  BY ZenonT(40), <1>2 DEF Cleanup, Retired, CleanupCost
<1>4. \A x \in D : MatchOf(x) \in (b.reserved \ R) \cup C
  <2>1. SUFFICES ASSUME NEW x \in D
                 PROVE  MatchOf(x) \in (b.reserved \ R) \cup C
    OBVIOUS
  <2>2. MatchOf(x) \in b.reserved \cup b.completed
    BY DEF SoundBroker, DeliveriesSound
  <2>3. MatchOf(x).id = x.id /\ MatchOf(x).expires = x.expires
    BY DEF MatchOf
  <2>4. CASE MatchOf(x) \in b.reserved
    BY <2>3, <2>4 DEF Ids
  <2>5. CASE MatchOf(x) \in b.completed
    <3>1. x.id \notin Ids(b.pending) /\ x.id \notin Ids(b.reserved)
      BY <2>3, <2>5 DEF SoundBroker, TablesSound, Apart, Ids
    <3>2. x.id \notin Ids(P) \cup Ids(R)
      BY <3>1, <1>1 DEF Ids
    <3> QED
      BY <2>3, <2>5, <3>2
  <2> QED
    BY <2>2, <2>4, <2>5
<1>5. \A c \in b.completed : c.expires > t => c \in C \/ c.id \in Ids(P \cup R)
  BY ZenonT(40), <1>2
<1> HIDE DEF P, R, C, D
<1>6. SoundBroker(Retired(b, P, R, C, D, t))
  BY <1>1, <1>4, RetiredSound
<1>7. \A id : KnownAt(b, id, t) => KnownAt(Retired(b, P, R, C, D, t), id, t)
  BY <1>5, RetiredKnown
<1> QED
  BY <1>3, <1>6, <1>7

\* What the broker becomes when the registrations P are cancelled.
Without(b, P, t) ==
  [b EXCEPT !.pending = @ \ P,
            !.completed = {x \in @ : x.id \notin Ids(P)} \cup Protected(Ids(P), t),
            !.registrations = Released(@, Cardinality(P))]

\* Registrations that wait are retired together.
LEMMA WithoutRetires ==
  ASSUME NEW b, SoundBroker(b), NEW t \in Nat, NEW P \in SUBSET b.pending
  PROVE  /\ SoundBroker(Without(b, P, t))
         /\ \A id : KnownAt(b, id, t) => KnownAt(Without(b, P, t), id, t)
<1> DEFINE C == {x \in b.completed : x.id \notin Ids(P)}
<1>1. C \in SUBSET b.completed /\ {} \in SUBSET b.reserved /\ b.deliveries \in SUBSET b.deliveries
  OBVIOUS
<1>2. Without(b, P, t) = Retired(b, P, {}, C, b.deliveries, t)
  <2>1. b \in BrokerStates
    BY DEF SoundBroker
  <2>2. IsFiniteSet(P) /\ Cardinality(P) \in Nat
    BY ZenonT(40), SoundFinite, RemovedCount DEF SoundBroker
  <2>3. Cardinality({}) = 0 /\ P \cup {} = P /\ b.reserved \ {} = b.reserved
    BY DEF SoundBroker, SetsSized, EmptySized
  <2>4. Cardinality(P) + 2 * Cardinality({}) = Cardinality(P)
    BY <2>2, <2>3
  <2>5. Without(b, P, t) =
          [b EXCEPT !.pending = @ \ P, !.completed = C \cup Protected(Ids(P), t),
                    !.registrations = Released(@, Cardinality(P))]
    BY DEF Without
  <2> QED
    BY ZenonT(40), <2>1, <2>3, <2>4, <2>5 DEF Retired, BrokerStates
<1>3. \A x \in b.deliveries : MatchOf(x) \in (b.reserved \ {}) \cup C
  <2>1. SUFFICES ASSUME NEW x \in b.deliveries, MatchOf(x) \in b.completed
                 PROVE  MatchOf(x).id \notin Ids(P)
    BY DEF SoundBroker, DeliveriesSound
  <2> QED
    BY <2>1 DEF SoundBroker, TablesSound, Apart, Ids
<1>4. \A c \in b.completed : c.expires > t => c \in C \/ c.id \in Ids(P \cup {})
  BY DEF Ids
<1> HIDE DEF C
<1>5. SoundBroker(Retired(b, P, {}, C, b.deliveries, t))
  BY <1>1, <1>3, RetiredSound
<1>6. \A id : KnownAt(b, id, t) => KnownAt(Retired(b, P, {}, C, b.deliveries, t), id, t)
  BY <1>4, RetiredKnown
<1> QED
  BY <1>2, <1>5, <1>6

\* cancel_waiting retires the caller's own registration, if it still waits.
LEMMA CancelledRetires ==
  ASSUME NEW b, SoundBroker(b), NEW t \in Nat, NEW d, NEW id
  PROVE  /\ SoundBroker(Cancelled(b, d, id, t))
         /\ \A i : KnownAt(b, i, t) => KnownAt(Cancelled(b, d, id, t), i, t)
<1>1. CASE WaitingOf(b, d, id) = {}
  BY <1>1 DEF Cancelled
<1>2. CASE WaitingOf(b, d, id) # {}
  <2> DEFINE P == WaitingOf(b, d, id)
  <2>1. P \in SUBSET b.pending
    BY DEF WaitingOf
  <2>2. PICK p \in b.pending : p.id = id /\ p.device = d
    BY <1>2 DEF WaitingOf
  <2>3. P = {p} /\ Ids(P) = {id}
    BY <2>2 DEF WaitingOf, SoundBroker, TablesSound, OneEach, Ids
  <2>4. Cardinality(P) = 1
    BY ZenonT(40), <2>3 DEF SoundBroker, SetsSized, SingletonSized
  <2>5. Put(b.completed, [id |-> id, expires |-> t + MaxTtl])
          = {x \in b.completed : x.id \notin Ids(P)} \cup Protected(Ids(P), t)
    BY ZenonT(40), <2>3 DEF Put, Protected
  <2>6. Cancelled(b, d, id, t) = Without(b, P, t)
    BY ZenonT(40), <1>2, <2>4, <2>5 DEF Cancelled, Without
  <2> QED
    BY <2>1, <2>6, WithoutRetires
<1> QED
  BY <1>1, <1>2

\* abort_match retires a reserved match and its delivery.
LEMMA AbortedRetires ==
  ASSUME NEW b, SoundBroker(b), NEW t \in Nat, NEW id, Has(b.reserved, id)
  PROVE  /\ SoundBroker(Aborted(b, id, t))
         /\ \A i : KnownAt(b, i, t) => KnownAt(Aborted(b, id, t), i, t)
<1>1. PICK r \in b.reserved : r.id = id
  BY DEF Has
<1> DEFINE C == {x \in b.completed : x.id # id}
           D == {x \in b.deliveries : x.id # id}
<1>2. {r} \in SUBSET b.reserved /\ C \in SUBSET b.completed /\ D \in SUBSET b.deliveries
      /\ {} \in SUBSET b.pending
  OBVIOUS
<1>3. {x \in b.reserved : x.id # id} = b.reserved \ {r}
  BY <1>1 DEF SoundBroker, TablesSound, OneEach
<1>4. Ids({} \cup {r}) = {id}
  BY <1>1 DEF Ids
<1>5. Aborted(b, id, t) = Retired(b, {}, {r}, C, D, t)
  <2>1. b \in BrokerStates
    BY DEF SoundBroker
  <2>2. Cardinality({}) = 0 /\ Cardinality({r}) = 1 /\ b.pending \ {} = b.pending
    BY ZenonT(40) DEF SoundBroker, SetsSized, EmptySized, SingletonSized
  <2>3. Cardinality({}) + 2 * Cardinality({r}) = 2
    BY <2>2
  <2>4. Put(b.completed, [id |-> id, expires |-> t + MaxTtl]) = C \cup Protected(Ids({} \cup {r}), t)
    BY <1>4 DEF Put, Protected
  <2>5. Aborted(b, id, t) =
          [b EXCEPT !.reserved = b.reserved \ {r}, !.deliveries = D,
                    !.completed = C \cup Protected(Ids({} \cup {r}), t),
                    !.registrations = Released(b.registrations, 2)]
    BY ZenonT(40), <2>1, <1>3, <2>4 DEF Aborted, BrokerStates
  <2> HIDE DEF C, D
  <2> QED
    BY ZenonT(40), <2>1, <2>2, <2>3, <2>5 DEF Retired, BrokerStates
<1>6. \A x \in D : MatchOf(x) \in (b.reserved \ {r}) \cup C
  <2>1. SUFFICES ASSUME NEW x \in D
                 PROVE  MatchOf(x) \in (b.reserved \ {r}) \cup C
    OBVIOUS
  <2>2. MatchOf(x) \in b.reserved \cup b.completed
    BY DEF SoundBroker, DeliveriesSound
  <2>3. MatchOf(x).id # id
    BY DEF MatchOf
  <2> QED
    BY <1>1, <2>2, <2>3
<1>7. \A c \in b.completed : c.expires > t => c \in C \/ c.id \in Ids({} \cup {r})
  BY <1>4
<1> HIDE DEF C, D
<1>8. SoundBroker(Retired(b, {}, {r}, C, D, t))
  BY <1>2, <1>6, RetiredSound
<1>9. \A i : KnownAt(b, i, t) => KnownAt(Retired(b, {}, {r}, C, D, t), i, t)
  BY <1>7, RetiredKnown
<1> QED
  BY <1>5, <1>8, <1>9

\* Registering a waiter keeps the broker sound: the capacity that register checks
\* bounds the used ids.
LEMMA WaitSound ==
  ASSUME NEW b, SoundBroker(b), NEW t \in Nat, NEW d \in Devices, NEW r \in Registrations,
         CanWait(b, d, r)
  PROVE  SoundBroker(Wait(b, d, r, t))
<1> DEFINE p == [id |-> r.id, device |-> d, peer |-> r.peer, role |-> r.role,
                 generation |-> r.generation, expires |-> t + r.ttl]
           n == Wait(b, d, r, t)
<1>0. /\ IsFiniteSet(b.pending)
      /\ Cardinality(b.pending) \in Nat /\ Cardinality(b.reserved) \in Nat
      /\ Cardinality(b.completed) \in Nat
      /\ b.registrations \in Nat /\ b.matches \in Nat
  BY SoundFinite
<1>1. b \in BrokerStates
  BY DEF SoundBroker
<1>2. p \in PendingRegistrations /\ p.id = r.id
  <2>1. r.ttl \in Nat
    <3>1. r.ttl \in 1 .. MaxTtl
      BY ZenonT(40), BrokerAssumption DEF Registrations
    <3> QED
      BY <3>1, BrokerAssumption
  <2> QED
    BY <2>1 DEF Registrations, PendingRegistrations
<1>3. n = [pending |-> b.pending \cup {p}, deliveries |-> b.deliveries, reserved |-> b.reserved,
           completed |-> b.completed, registrations |-> b.registrations + 1,
           matches |-> b.matches]
  <2>1. n = [b EXCEPT !.pending = b.pending \cup {p}, !.registrations = b.registrations + 1]
    BY <1>1 DEF Wait, BrokerStates
  <2> HIDE DEF n, p
  <2> QED
    BY ZenonT(40), <1>1, <2>1 DEF BrokerStates
<1>4. /\ ~ Has(b.pending, r.id) /\ ~ Has(b.reserved, r.id) /\ ~ Has(b.completed, r.id)
      /\ b.registrations < MaxRegistrations
      /\ Cardinality(b.pending) < MaxPending /\ Cardinality(b.completed) < 4 * MaxPending
  BY DEF CanWait, Admissible, Replayed, WaitCapacity
<1> HIDE DEF p, n
<1>5. n \in BrokerStates
  BY <1>0, <1>1, <1>2, <1>3 DEF BrokerStates
<1>6. TablesSound(n)
  BY <1>2, <1>3, <1>4 DEF SoundBroker, TablesSound, OneEach, Apart, Has
<1>7. CountsSound(n)
  <2>1. p \notin b.pending
    BY <1>2, <1>4 DEF Has
  <2>2. Cardinality(b.pending \cup {p}) = Cardinality(b.pending) + 1
    BY ZenonT(40), <1>0, <2>1 DEF SoundBroker, SetsSized, AddSized
  <2>3. /\ n.registrations = b.registrations + 1 /\ n.matches = b.matches
        /\ Cardinality(n.pending) = Cardinality(b.pending) + 1
        /\ n.reserved = b.reserved /\ n.completed = b.completed
    BY <1>3, <2>2
  <2>4. MaxMatches \in Nat /\ MaxRegistrations \in Nat /\ MaxPending \in Nat
    BY BrokerAssumption
  <2>5. /\ b.registrations = Cardinality(b.pending) + 2 * Cardinality(b.reserved) + 2 * b.matches
        /\ b.matches + Cardinality(b.reserved) <= MaxMatches
    BY DEF SoundBroker, CountsSound
  <2>6. n.registrations = Cardinality(n.pending) + 2 * Cardinality(n.reserved) + 2 * n.matches
    BY <2>3, <2>5, <1>0
  <2>7. n.matches + Cardinality(n.reserved) <= MaxMatches /\ n.registrations <= MaxRegistrations
    BY <2>3, <2>4, <2>5, <1>0, <1>4
  <2>8. Cardinality(n.completed) + Cardinality(n.pending) + Cardinality(n.reserved)
          < 5 * MaxPending + MaxMatches
    BY <2>3, <2>4, <2>5, <1>0, <1>4
  <2> QED
    BY <2>6, <2>7, <2>8 DEF CountsSound
<1>8. DeliveriesSound(n)
  BY <1>3 DEF SoundBroker, DeliveriesSound
<1> QED
  BY <1>5, <1>6, <1>7, <1>8 DEF SoundBroker, n

\* Reserving a reciprocal pair keeps the broker sound: the waiter's slot and the
\* caller's are the two that the reserved match holds.
LEMMA ReserveSound ==
  ASSUME NEW b, SoundBroker(b), NEW t \in Nat, NEW d \in Devices, NEW r \in Registrations,
         NEW w \in Partners(b, d, r)
  PROVE  SoundBroker(Reserve(b, w, d, r, t))
<1> DEFINE expiry == Sooner(w.expires, t + r.ttl)
           m == [id |-> r.id, expires |-> expiry]
           x == [id |-> r.id, to |-> w.device, from |-> d,
                 peer |-> r.peer, role |-> r.role, expires |-> expiry]
           n == Reserve(b, w, d, r, t)
<1>0. /\ IsFiniteSet(b.pending) /\ IsFiniteSet(b.reserved)
      /\ Cardinality(b.pending) \in Nat /\ Cardinality(b.reserved) \in Nat
      /\ Cardinality(b.completed) \in Nat
      /\ b.registrations \in Nat /\ b.matches \in Nat
  BY SoundFinite
<1>1. b \in BrokerStates
  BY DEF SoundBroker
<1>2. /\ w \in b.pending /\ w.id = r.id /\ r.peer = w.device /\ w.device # d
      /\ ~ Has(b.reserved, r.id) /\ ~ Has(b.completed, r.id)
      /\ b.registrations < MaxRegistrations
      /\ b.matches + Cardinality(b.reserved) < MaxMatches
  BY DEF Partners, Admissible, Replayed, Reciprocal, MatchCapacity
<1>3. w \in PendingRegistrations
  BY <1>1, <1>2 DEF BrokerStates
<1>4. expiry \in Nat
  <2>1. r.ttl \in Nat
    <3>1. r.ttl \in 1 .. MaxTtl
      BY ZenonT(40), BrokerAssumption DEF Registrations
    <3> QED
      BY <3>1, BrokerAssumption
  <2>2. w.expires \in Nat
    BY <1>3 DEF PendingRegistrations
  <2> QED
    BY <2>1, <2>2 DEF Sooner
<1> HIDE DEF expiry
<1>5. m \in Expiring /\ m.id = r.id
  BY <1>4 DEF Registrations, Expiring
<1>6. x \in StoredDeliveries /\ MatchOf(x) = m /\ x.peer = x.to /\ x.from # x.to
  BY <1>2, <1>3, <1>4 DEF Registrations, PendingRegistrations, StoredDeliveries, MatchOf
<1>7. n = [pending |-> b.pending \ {w}, deliveries |-> b.deliveries \cup {x},
           reserved |-> b.reserved \cup {m}, completed |-> b.completed,
           registrations |-> b.registrations + 1, matches |-> b.matches]
  <2>1. n = [b EXCEPT !.pending = b.pending \ {w}, !.deliveries = b.deliveries \cup {x},
                      !.reserved = b.reserved \cup {m}, !.registrations = b.registrations + 1]
    BY <1>1 DEF Reserve, BrokerStates, expiry
  <2> HIDE DEF n, m, x
  <2> QED
    BY ZenonT(40), <1>1, <2>1 DEF BrokerStates
<1> HIDE DEF m, x, n
<1>8. n \in BrokerStates
  BY <1>0, <1>1, <1>5, <1>6, <1>7 DEF BrokerStates
<1>9. TablesSound(n)
  <2>1. /\ OneEach(b.pending) /\ OneEach(b.reserved) /\ OneEach(b.completed)
        /\ Apart(b.pending, b.reserved) /\ Apart(b.pending, b.completed)
        /\ Apart(b.reserved, b.completed)
    BY DEF SoundBroker, TablesSound
  <2>2. OneEach(b.pending \ {w}) /\ OneEach(b.reserved \cup {m})
    BY <2>1, <1>2, <1>5 DEF OneEach, Has
  <2>3. Apart(b.pending \ {w}, b.reserved \cup {m})
    BY <2>1, <1>2, <1>5 DEF OneEach, Apart
  <2>4. Apart(b.pending \ {w}, b.completed) /\ Apart(b.reserved \cup {m}, b.completed)
    BY <2>1, <1>2, <1>5 DEF Apart, Has
  <2> QED
    BY <2>1, <2>2, <2>3, <2>4, <1>7 DEF TablesSound
<1>10. CountsSound(n)
  <2>1. m \notin b.reserved
    BY <1>2, <1>5 DEF Has
  <2>2. Cardinality(b.reserved \cup {m}) = Cardinality(b.reserved) + 1
    BY ZenonT(40), <1>0, <2>1 DEF SoundBroker, SetsSized, AddSized
  <2>3. Cardinality(b.pending \ {w}) = Cardinality(b.pending) - 1
    BY ZenonT(40), <1>0, <1>2 DEF SoundBroker, SetsSized, RemoveSized
  <2>4. /\ n.registrations = b.registrations + 1 /\ n.matches = b.matches
        /\ Cardinality(n.pending) = Cardinality(b.pending) - 1
        /\ Cardinality(n.reserved) = Cardinality(b.reserved) + 1
        /\ n.completed = b.completed
    BY <1>7, <2>2, <2>3
  <2>5. MaxMatches \in Nat /\ MaxRegistrations \in Nat /\ MaxPending \in Nat
    BY BrokerAssumption
  <2>6. /\ b.registrations = Cardinality(b.pending) + 2 * Cardinality(b.reserved) + 2 * b.matches
        /\ Cardinality(b.completed) + Cardinality(b.pending) + Cardinality(b.reserved)
             < 5 * MaxPending + MaxMatches
    BY DEF SoundBroker, CountsSound
  <2>7. n.registrations = Cardinality(n.pending) + 2 * Cardinality(n.reserved) + 2 * n.matches
    BY <2>4, <2>6, <1>0
  <2>8. n.matches + Cardinality(n.reserved) <= MaxMatches /\ n.registrations <= MaxRegistrations
    BY <2>4, <2>5, <1>0, <1>2
  <2>9. Cardinality(n.completed) + Cardinality(n.pending) + Cardinality(n.reserved)
          < 5 * MaxPending + MaxMatches
    BY <2>4, <2>5, <2>6, <1>0
  <2> QED
    BY <2>7, <2>8, <2>9 DEF CountsSound
<1>11. DeliveriesSound(n)
  BY <1>6, <1>7 DEF SoundBroker, DeliveriesSound
<1> QED
  BY <1>8, <1>9, <1>10, <1>11 DEF SoundBroker, n

\* register keeps the broker sound and forgets no id.
LEMMA RegisteredSound ==
  ASSUME NEW b, SoundBroker(b), NEW t \in Nat, NEW d \in Devices, NEW r \in Registrations
  PROVE  /\ SoundBroker(Registered(b, d, r, t))
         /\ \A id : KnownAt(b, id, t) => KnownAt(Registered(b, d, r, t), id, t)
<1> DEFINE c == Cleanup(b, t)
           w == CHOOSE x \in Partners(c, d, r) : TRUE
<1>1. SoundBroker(c) /\ \A id : KnownAt(b, id, t) => KnownAt(c, id, t)
  BY CleanupRetires
<1>2. Registered(b, d, r, t) = IF Partners(c, d, r) # {} THEN Reserve(c, w, d, r, t)
                               ELSE IF CanWait(c, d, r) THEN Wait(c, d, r, t) ELSE c
  BY DEF Registered
<1> HIDE DEF c
<1>3. c \in BrokerStates
  BY <1>1 DEF SoundBroker
<1>4. CASE Partners(c, d, r) # {}
  <2>1. w \in Partners(c, d, r)
    BY <1>4
  <2> HIDE DEF w
  <2>2. SoundBroker(Reserve(c, w, d, r, t))
    BY <2>1, <1>1, ReserveSound
  <2>3. \A id : KnownAt(c, id, t) => KnownAt(Reserve(c, w, d, r, t), id, t)
    <3>1. w.id = r.id
      BY <2>1 DEF Partners
    <3> DEFINE n == Reserve(c, w, d, r, t)
               m == [id |-> r.id, expires |-> Sooner(w.expires, t + r.ttl)]
    <3>2. n.pending = c.pending \ {w} /\ n.reserved = c.reserved \cup {m}
          /\ n.completed = c.completed /\ m.id = r.id
      BY <1>3 DEF Reserve, BrokerStates
    <3> HIDE DEF n, m
    <3>3. \A id : KnownAt(c, id, t) => KnownAt(n, id, t)
      BY <3>1, <3>2 DEF KnownAt, Has
    <3> QED
      BY <3>3 DEF n
  <2> QED
    BY <1>1, <1>2, <1>4, <2>2, <2>3
<1>5. CASE Partners(c, d, r) = {} /\ CanWait(c, d, r)
  <2>1. SoundBroker(Wait(c, d, r, t))
    BY <1>1, <1>5, WaitSound
  <2>2. \A id : KnownAt(c, id, t) => KnownAt(Wait(c, d, r, t), id, t)
    BY <1>3 DEF Wait, KnownAt, Has, BrokerStates
  <2> QED
    BY <1>1, <1>2, <1>5, <2>1, <2>2
<1>6. CASE Partners(c, d, r) = {} /\ ~ CanWait(c, d, r)
  BY <1>1, <1>2, <1>6
<1> QED
  BY <1>4, <1>5, <1>6

\* take_delivery removes a delivery after a cleanup.
LEMMA TakenSound ==
  ASSUME NEW b, SoundBroker(b), NEW t \in Nat, NEW d, NEW i
  PROVE  /\ SoundBroker(TakenDelivery(b, d, i, t))
         /\ \A id : KnownAt(b, id, t) => KnownAt(TakenDelivery(b, d, i, t), id, t)
<1> DEFINE c == Cleanup(b, t)
           n == TakenDelivery(b, d, i, t)
           D == {x \in c.deliveries : ~ (x.to = d /\ x.id = i)}
<1>1. SoundBroker(c) /\ \A id : KnownAt(b, id, t) => KnownAt(c, id, t)
  BY CleanupRetires
<1>2. n = [c EXCEPT !.deliveries = D]
  BY DEF TakenDelivery
<1> HIDE DEF c, n
<1>3. c \in BrokerStates
  BY <1>1 DEF SoundBroker
<1>4. n = [pending |-> c.pending, deliveries |-> D, reserved |-> c.reserved,
           completed |-> c.completed, registrations |-> c.registrations, matches |-> c.matches]
  BY ZenonT(40), <1>2, <1>3 DEF BrokerStates
<1>5. D \subseteq c.deliveries
  OBVIOUS
<1> HIDE DEF D
<1>6. n \in BrokerStates
  BY <1>3, <1>4, <1>5 DEF BrokerStates
<1>7. TablesSound(n) /\ CountsSound(n)
  BY ZenonT(40), <1>1, <1>4 DEF SoundBroker, TablesSound, CountsSound
<1>8. DeliveriesSound(n)
  BY <1>1, <1>4, <1>5 DEF SoundBroker, DeliveriesSound
<1>9. SoundBroker(n)
  BY <1>6, <1>7, <1>8 DEF SoundBroker
<1>10. \A id : KnownAt(c, id, t) => KnownAt(n, id, t)
  BY <1>4 DEF KnownAt
<1> QED
  BY <1>1, <1>9, <1>10 DEF n

\* confirm_match moves a reserved match to the used ids, with its expiry.
LEMMA ConfirmedSound ==
  ASSUME NEW b, SoundBroker(b), NEW t \in Nat, NEW i, Confirmable(b, i, t)
  PROVE  /\ SoundBroker(Confirmed(b, i, t))
         /\ \A id : KnownAt(b, id, t) => KnownAt(Confirmed(b, i, t), id, t)
<1>0. /\ IsFiniteSet(b.reserved) /\ IsFiniteSet(b.completed)
      /\ Cardinality(b.pending) \in Nat /\ Cardinality(b.reserved) \in Nat
      /\ Cardinality(b.completed) \in Nat
      /\ b.registrations \in Nat /\ b.matches \in Nat
  BY SoundFinite
<1>1. b \in BrokerStates
  BY DEF SoundBroker
<1>2. PICK r \in b.reserved : r.id = i /\ r.expires > t
  BY DEF Confirmable
<1> DEFINE n == Confirmed(b, i, t)
<1>3. {x \in b.reserved : x.id # i} = b.reserved \ {r} /\ {x \in b.reserved : x.id = i} = {r}
  BY <1>2 DEF SoundBroker, TablesSound, OneEach
<1>4. n = [pending |-> b.pending, deliveries |-> b.deliveries, reserved |-> b.reserved \ {r},
           completed |-> b.completed \cup {r}, registrations |-> b.registrations,
           matches |-> b.matches + 1]
  <2>1. n = [b EXCEPT !.reserved = b.reserved \ {r}, !.completed = b.completed \cup {r},
                      !.matches = b.matches + 1]
    BY ZenonT(40), <1>1, <1>3 DEF Confirmed, BrokerStates
  <2> HIDE DEF n
  <2> QED
    BY ZenonT(40), <1>1, <2>1 DEF BrokerStates
<1> HIDE DEF n
<1>5. n \in BrokerStates
  BY <1>0, <1>1, <1>2, <1>4 DEF BrokerStates
<1>6. TablesSound(n)
  <2>1. /\ OneEach(b.pending) /\ OneEach(b.reserved) /\ OneEach(b.completed)
        /\ Apart(b.pending, b.reserved) /\ Apart(b.pending, b.completed)
        /\ Apart(b.reserved, b.completed)
    BY DEF SoundBroker, TablesSound
  <2>2. OneEach(b.reserved \ {r}) /\ OneEach(b.completed \cup {r})
    BY <2>1, <1>2 DEF OneEach, Apart
  <2>3. Apart(b.pending, b.reserved \ {r}) /\ Apart(b.pending, b.completed \cup {r})
    BY <2>1, <1>2 DEF Apart
  <2>4. Apart(b.reserved \ {r}, b.completed \cup {r})
    BY <2>1, <1>2 DEF OneEach, Apart
  <2> QED
    BY <2>1, <2>2, <2>3, <2>4, <1>4 DEF TablesSound
<1>7. CountsSound(n)
  <2>1. r \notin b.completed
    BY <1>2 DEF SoundBroker, TablesSound, Apart
  <2>2. Cardinality(b.completed \cup {r}) = Cardinality(b.completed) + 1
    BY ZenonT(40), <1>0, <2>1 DEF SoundBroker, SetsSized, AddSized
  <2>3. Cardinality(b.reserved \ {r}) = Cardinality(b.reserved) - 1
    BY ZenonT(40), <1>0, <1>2 DEF SoundBroker, SetsSized, RemoveSized
  <2>4. /\ n.registrations = b.registrations /\ n.matches = b.matches + 1
        /\ n.pending = b.pending
        /\ Cardinality(n.completed) = Cardinality(b.completed) + 1
        /\ Cardinality(n.reserved) = Cardinality(b.reserved) - 1
    BY <1>4, <2>2, <2>3
  <2>5. MaxMatches \in Nat /\ MaxRegistrations \in Nat /\ MaxPending \in Nat
    BY BrokerAssumption
  <2>6. /\ b.registrations = Cardinality(b.pending) + 2 * Cardinality(b.reserved) + 2 * b.matches
        /\ b.matches + Cardinality(b.reserved) <= MaxMatches
        /\ b.registrations <= MaxRegistrations
        /\ Cardinality(b.completed) + Cardinality(b.pending) + Cardinality(b.reserved)
             < 5 * MaxPending + MaxMatches
    BY DEF SoundBroker, CountsSound
  <2>7. n.registrations = Cardinality(n.pending) + 2 * Cardinality(n.reserved) + 2 * n.matches
    BY <2>4, <2>6, <1>0
  <2>8. n.matches + Cardinality(n.reserved) <= MaxMatches /\ n.registrations <= MaxRegistrations
    BY <2>4, <2>5, <2>6, <1>0
  <2>9. Cardinality(n.completed) + Cardinality(n.pending) + Cardinality(n.reserved)
          < 5 * MaxPending + MaxMatches
    BY <2>4, <2>5, <2>6, <1>0
  <2> QED
    BY <2>7, <2>8, <2>9 DEF CountsSound
<1>8. DeliveriesSound(n)
  BY <1>4 DEF SoundBroker, DeliveriesSound
<1>9. SoundBroker(n)
  BY <1>5, <1>6, <1>7, <1>8 DEF SoundBroker
<1>10. \A id : KnownAt(b, id, t) => KnownAt(n, id, t)
  BY <1>2, <1>4 DEF KnownAt, Has
<1> QED
  BY <1>9, <1>10 DEF n

-----------------------------------------------------------------------------
(* The broker driven by any caller.                                        *)

\* The empty broker is sound.
LEMMA EmptySound ==
  ASSUME SetsSized
  PROVE  SoundBroker(EmptyBroker)
<1>1. EmptyBroker \in BrokerStates
  BY DEF EmptyBroker, BrokerStates
<1>2. TablesSound(EmptyBroker) /\ DeliveriesSound(EmptyBroker)
  BY DEF EmptyBroker, TablesSound, OneEach, Apart, DeliveriesSound
<1>3. CountsSound(EmptyBroker)
  <2>1. /\ EmptyBroker.registrations = 0 /\ EmptyBroker.matches = 0
        /\ Cardinality(EmptyBroker.pending) = 0 /\ Cardinality(EmptyBroker.reserved) = 0
        /\ Cardinality(EmptyBroker.completed) = 0
    BY DEF SetsSized, EmptySized, EmptyBroker
  <2>2. MaxMatches \in Nat /\ MaxRegistrations \in Nat /\ MaxPending \in Nat \ {0}
    BY BrokerAssumption
  <2> QED
    BY <2>1, <2>2 DEF CountsSound
<1> QED
  BY <1>1, <1>2, <1>3 DEF SoundBroker

ClockOK == now \in 0 .. MaxTime

\* The broker begins sound.
LEMMA BrokerBegins ==
  ASSUME SetsSized, BrokerInit
  PROVE  SoundBroker(broker) /\ ClockOK
BY EmptySound, BrokerAssumption DEF BrokerInit, ClockOK

\* What a step of the broker does: it stays sound, and knows at the time of the step
\* every id that it knew.
Kept == SoundBroker(broker') /\ \A id : KnownAt(broker, id, now) => KnownAt(broker', id, now)

\* Every call of the broker keeps it sound and forgets no id.
LEMMA BrokerStep ==
  ASSUME SoundBroker(broker), ClockOK, [BrokerNext]_brokerVars
  PROVE  Kept /\ ClockOK'
<1>1. now \in Nat /\ MaxTime \in Nat
  BY BrokerAssumption DEF ClockOK
<1>2. CASE Tick
  BY <1>1, <1>2 DEF Tick, Kept, ClockOK
<1>3. CASE \E d \in Devices, r \in Registrations : Register(d, r)
  BY <1>1, <1>3, RegisteredSound DEF Register, Kept, ClockOK
<1>4. CASE \E d \in Devices, id \in Matches : TakeDelivery(d, id)
  BY <1>1, <1>4, TakenSound DEF TakeDelivery, Kept, ClockOK
<1>5. CASE \E id \in Matches : ConfirmMatch(id)
  BY <1>1, <1>5, ConfirmedSound DEF ConfirmMatch, Kept, ClockOK
<1>6. CASE \E id \in Matches : AbortMatch(id)
  BY <1>1, <1>6, AbortedRetires DEF AbortMatch, Kept, ClockOK
<1>7. CASE \E d \in Devices, id \in Matches : CancelWaiting(d, id)
  BY <1>1, <1>7, CancelledRetires DEF CancelWaiting, Kept, ClockOK
<1>8. CASE CleanUp
  BY <1>1, <1>8, CleanupRetires DEF CleanUp, Kept, ClockOK
<1>9. CASE UNCHANGED brokerVars
  BY <1>9 DEF brokerVars, Kept, ClockOK
<1> QED
  BY <1>2, <1>3, <1>4, <1>5, <1>6, <1>7, <1>8, <1>9 DEF BrokerNext

\* A step that keeps what it knows forgets nothing.
LEMMA KeptRemembers ==
  ASSUME Kept
  PROVE  NotForgotten
BY DEF Kept, KnownAt, NotForgotten, Has

-----------------------------------------------------------------------------
(* What the calls do to the registrations, as the server's report and its   *)
(* waiting connections have to follow it.                                   *)

\* Nothing of the broker has expired at time t.
Fresh(b, t) ==
  /\ \A p \in b.pending : ~ (p.expires <= t)
  /\ \A r \in b.reserved : ~ (r.expires <= t)

\* cleanup leaves what has not expired, and only gives registrations back.
LEMMA CleanupEffect ==
  ASSUME NEW b, SoundBroker(b), NEW t \in Nat
  PROVE  /\ Cleanup(b, t).pending = {p \in b.pending : ~ (p.expires <= t)}
         /\ Cleanup(b, t).reserved = {r \in b.reserved : ~ (r.expires <= t)}
         /\ Cleanup(b, t).matches = b.matches
         /\ Cleanup(b, t).registrations \in Nat
         /\ Cleanup(b, t).registrations <= b.registrations
         /\ Fresh(Cleanup(b, t), t)
<1> DEFINE c == Cleanup(b, t)
<1>1. /\ c.pending = b.pending \ LapsedPending(b, t)
      /\ c.reserved = b.reserved \ LapsedReserved(b, t)
      /\ c.matches = b.matches
      /\ c.registrations = Released(b.registrations, CleanupCost(b, t))
  BY ZenonT(40) DEF Cleanup
<1>2. b.registrations \in Nat /\ CleanupCost(b, t) \in Nat
  <2>1. IsFiniteSet(b.pending) /\ IsFiniteSet(b.reserved) /\ b.registrations \in Nat
    BY SoundFinite
  <2>2. LapsedPending(b, t) \in SUBSET b.pending /\ LapsedReserved(b, t) \in SUBSET b.reserved
    BY DEF LapsedPending, LapsedReserved
  <2>3. Cardinality(LapsedPending(b, t)) \in Nat /\ Cardinality(LapsedReserved(b, t)) \in Nat
    BY ZenonT(40), <2>1, <2>2, RemovedCount DEF SoundBroker
  <2> QED
    BY <2>1, <2>3 DEF CleanupCost
<1> HIDE DEF c
<1>3. c.registrations \in Nat /\ c.registrations <= b.registrations
  BY <1>1, <1>2 DEF Released
<1>4. /\ c.pending = {p \in b.pending : ~ (p.expires <= t)}
      /\ c.reserved = {r \in b.reserved : ~ (r.expires <= t)}
  BY <1>1 DEF LapsedPending, LapsedReserved
<1>5. Fresh(c, t)
  BY <1>4 DEF Fresh
<1> QED
  BY <1>1, <1>3, <1>4, <1>5 DEF c

\* A cleanup with nothing to clean keeps the tables and the counters.
LEMMA CleanupOfFresh ==
  ASSUME NEW b, SoundBroker(b), NEW t \in Nat, Fresh(b, t)
  PROVE  /\ Cleanup(b, t).pending = b.pending
         /\ Cleanup(b, t).reserved = b.reserved
         /\ Cleanup(b, t).matches = b.matches
         /\ Cleanup(b, t).registrations = b.registrations
<1>1. LapsedPending(b, t) = {} /\ LapsedReserved(b, t) = {}
  BY ZenonT(40) DEF Fresh, LapsedPending, LapsedReserved
<1>2. CleanupCost(b, t) = 0
  <2>1. Cardinality({}) = 0
    BY DEF SoundBroker, SetsSized, EmptySized
  <2> QED
    BY <1>1, <2>1 DEF CleanupCost
<1>3. b.registrations \in Nat
  BY SoundFinite
<1>4. Released(b.registrations, 0) = b.registrations
  BY <1>3 DEF Released
<1> QED
  BY ZenonT(40), <1>1, <1>2, <1>4 DEF Cleanup

\* A registration that waits has a slot.
LEMMA AtLeastOne ==
  ASSUME NEW p \in Nat, NEW q \in Nat, NEW m \in Nat, p # 0
  PROVE  p + 2 * q + 2 * m >= 1
OBVIOUS

\* cancel_waiting gives back the one registration it takes out of the table.
LEMMA CancelledEffect ==
  ASSUME NEW b, SoundBroker(b), NEW t \in Nat, NEW d, NEW id
  PROVE  LET n == Cancelled(b, d, id, t)
         IN  /\ n.pending = b.pending \ WaitingOf(b, d, id)
             /\ n.reserved = b.reserved
             /\ n.matches = b.matches
             /\ n.registrations \in Nat /\ n.registrations <= b.registrations
             /\ WaitingOf(b, d, id) # {} => n.registrations = b.registrations - 1
<1> DEFINE n == Cancelled(b, d, id, t)
           W == WaitingOf(b, d, id)
<1>0. b \in BrokerStates /\ b.registrations \in Nat
  BY DEF SoundBroker, BrokerStates
<1>1. CASE W = {}
  BY <1>0, <1>1 DEF Cancelled
<1>2. CASE W # {}
  <2>1. /\ n.pending = b.pending \ W /\ n.reserved = b.reserved /\ n.matches = b.matches
        /\ n.registrations = Released(b.registrations, 1)
    BY <1>0, <1>2 DEF Cancelled, BrokerStates
  <2> HIDE DEF n
  <2>2. b.registrations >= 1
    <3>1. /\ IsFiniteSet(b.pending) /\ Cardinality(b.pending) \in Nat
          /\ Cardinality(b.reserved) \in Nat /\ b.matches \in Nat
      BY SoundFinite
    <3>2. b.pending # {}
      BY <1>2 DEF WaitingOf
    <3>3. Cardinality(b.pending) # 0
      BY <3>1, <3>2 DEF SoundBroker, SetsSized, EmptySized
    <3>4. b.registrations = Cardinality(b.pending) + 2 * Cardinality(b.reserved) + 2 * b.matches
      BY DEF SoundBroker, CountsSound
    <3>5. Cardinality(b.pending) + 2 * Cardinality(b.reserved) + 2 * b.matches >= 1
      BY <3>1, <3>3, AtLeastOne
    <3> QED
      BY ZenonT(40), <3>4, <3>5
  <2> HIDE DEF W
  <2>3. n.registrations = b.registrations - 1 /\ n.registrations \in Nat
        /\ n.registrations <= b.registrations
    BY <1>0, <2>1, <2>2 DEF Released
  <2> QED
    BY <2>1, <2>3 DEF n, W
<1> QED
  BY ZenonT(40), <1>1, <1>2

\* abort_match gives registrations back and leaves the waiting ones alone.
LEMMA AbortedEffect ==
  ASSUME NEW b, SoundBroker(b), NEW t \in Nat, NEW id
  PROVE  LET n == Aborted(b, id, t)
         IN  /\ n.pending = b.pending
             /\ n.matches = b.matches
             /\ n.registrations \in Nat /\ n.registrations <= b.registrations
<1> DEFINE n == Aborted(b, id, t)
<1>1. b \in BrokerStates /\ b.registrations \in Nat
  BY DEF SoundBroker, BrokerStates
<1>2. /\ n.pending = b.pending /\ n.matches = b.matches
      /\ n.registrations \in {Released(b.registrations, 2), b.registrations}
  BY <1>1 DEF Aborted, BrokerStates
<1> HIDE DEF n
<1>3. n.registrations \in Nat /\ n.registrations <= b.registrations
  BY <1>1, <1>2 DEF Released
<1> QED
  BY <1>2, <1>3 DEF n

\* take_delivery takes no registration.
LEMMA TakenEffect ==
  ASSUME NEW b, SoundBroker(b), NEW t \in Nat, Fresh(b, t), NEW d, NEW id
  PROVE  /\ TakenDelivery(b, d, id, t).pending = b.pending
         /\ TakenDelivery(b, d, id, t).reserved = b.reserved
         /\ TakenDelivery(b, d, id, t).matches = b.matches
         /\ TakenDelivery(b, d, id, t).registrations = b.registrations
<1>1. Cleanup(b, t) \in BrokerStates
  BY CleanupRetires DEF SoundBroker
<1> QED
  BY <1>1, CleanupOfFresh DEF TakenDelivery, BrokerStates

\* The registration that waits for device d.
Waiter(d, r, t) ==
  [id |-> r.id, device |-> d, peer |-> r.peer, role |-> r.role,
   generation |-> r.generation, expires |-> t + r.ttl]

\* register of a registration that has to wait adds it.
LEMMA RegisteredWaits ==
  ASSUME NEW b, SoundBroker(b), NEW t \in Nat, Fresh(b, t), NEW d, NEW r,
         CanWait(Cleanup(b, t), d, r)
  PROVE  LET n == Registered(b, d, r, t)
         IN  /\ n.pending = b.pending \cup {Waiter(d, r, t)}
             /\ n.matches = b.matches
             /\ n.registrations = b.registrations + 1
             /\ ~ Has(b.pending, r.id)
<1> DEFINE c == Cleanup(b, t)
<1>1. /\ c.pending = b.pending /\ c.matches = b.matches /\ c.registrations = b.registrations
  BY CleanupOfFresh
<1>2. c \in BrokerStates
  BY CleanupRetires DEF SoundBroker
<1>3. ~ Has(c.pending, r.id)
  BY DEF CanWait
<1>4. Partners(c, d, r) = {}
  BY <1>3 DEF Partners, Has
<1>5. Registered(b, d, r, t) = Wait(c, d, r, t)
  BY <1>4 DEF Registered
<1> HIDE DEF c
<1>6. /\ Wait(c, d, r, t).pending = c.pending \cup {Waiter(d, r, t)}
      /\ Wait(c, d, r, t).matches = c.matches
      /\ Wait(c, d, r, t).registrations = c.registrations + 1
  BY <1>2 DEF Wait, Waiter, BrokerStates
<1> QED
  BY <1>1, <1>3, <1>5, <1>6

\* register of a refused registration changes no count.
LEMMA RegisteredRefused ==
  ASSUME NEW b, SoundBroker(b), NEW t \in Nat, Fresh(b, t), NEW d, NEW r,
         ~ CanWait(Cleanup(b, t), d, r), Partners(Cleanup(b, t), d, r) = {}
  PROVE  LET n == Registered(b, d, r, t)
         IN  /\ n.pending = b.pending
             /\ n.matches = b.matches
             /\ n.registrations = b.registrations
<1>1. Registered(b, d, r, t) = Cleanup(b, t)
  BY DEF Registered
<1> QED
  BY <1>1, CleanupOfFresh

\* register of the second of a pair takes the first out of the table, and the match
\* that it reserves has not expired.
LEMMA RegisteredMatches ==
  ASSUME NEW b, SoundBroker(b), NEW t \in Nat, Fresh(b, t),
         NEW d \in Devices, NEW r \in Registrations,
         NEW w \in Partners(Cleanup(b, t), d, r)
  PROVE  LET n == Registered(b, d, r, t)
         IN  /\ w \in b.pending /\ w.id = r.id
             /\ n.pending = b.pending \ {w}
             /\ n.matches = b.matches
             /\ n.registrations = b.registrations + 1
             /\ Has(n.reserved, r.id)
             /\ Fresh(n, t)
<1> DEFINE c == Cleanup(b, t)
           v == CHOOSE x \in Partners(c, d, r) : TRUE
           m == [id |-> r.id, expires |-> Sooner(v.expires, t + r.ttl)]
           n == Reserve(c, v, d, r, t)
<1>1. /\ c.pending = b.pending /\ c.reserved = b.reserved
      /\ c.matches = b.matches /\ c.registrations = b.registrations
  BY CleanupOfFresh
<1>2. c \in BrokerStates
  BY CleanupRetires DEF SoundBroker
<1>3. v \in Partners(c, d, r)
  OBVIOUS
<1>4. Registered(b, d, r, t) = n
  BY <1>3 DEF Registered
<1> HIDE DEF v
<1>5. v \in b.pending /\ v.id = r.id /\ w \in b.pending /\ w.id = r.id
  BY <1>1, <1>3 DEF Partners
<1>6. v = w
  BY <1>5 DEF SoundBroker, TablesSound, OneEach
<1> HIDE DEF c
<1>7. /\ n.pending = c.pending \ {v} /\ n.reserved = c.reserved \cup {m}
      /\ n.matches = c.matches /\ n.registrations = c.registrations + 1
  BY <1>2 DEF Reserve, BrokerStates
<1> HIDE DEF n
<1>8. m.id = r.id /\ ~ (m.expires <= t)
  <2>1. r.ttl \in 1 .. MaxTtl /\ MaxTtl \in Nat
    BY ZenonT(40), BrokerAssumption DEF Registrations
  <2>2. v.expires \in Nat
    BY <1>5 DEF SoundBroker, BrokerStates, PendingRegistrations
  <2>3. ~ (v.expires <= t)
    BY <1>5 DEF Fresh
  <2>4. ~ (t + r.ttl <= t)
    BY <2>1
  <2> QED
    BY <2>3, <2>4 DEF Sooner
<1> HIDE DEF m
<1>9. Has(n.reserved, r.id) /\ Fresh(n, t)
  BY <1>1, <1>7, <1>8 DEF Has, Fresh
<1> QED
  BY <1>1, <1>4, <1>5, <1>6, <1>7, <1>9
=============================================================================
