----------------------------- MODULE TurnRelay ------------------------------
(***************************************************************************)
(* The allocation state of the TURN relay (crates/turn-relay): allocations *)
(* per client 5-tuple, their permissions and channel bindings, the         *)
(* quarantine of expired bindings, quotas, and requests that were          *)
(* authenticated earlier and are executed later.                           *)
(*                                                                         *)
(* An allocation that is absent from the hash map has incarnation 0.  The  *)
(* integrity check of a request is represented by the user and the nonce   *)
(* the request was built with.  The contents of a request (its peers,      *)
(* channel and lifetime) are chosen when it is executed.  A peer is an ip  *)
(* and a port: permissions are per ip, channels per full address.          *)
(***************************************************************************)
EXTENDS Integers, FiniteSets

CONSTANTS Tuples, Users, Nonces, Relays,
          Peers,                \* [ip, port] records
          AllowedIps,           \* ips that pass validate_permission_ip
          WellKnown,            \* ports below 1024
          Channels,
          AllocationLifetime, PermissionLifetime, ChannelLifetime, QuarantineLifetime,
          MaxAllocations, MaxAllocationsPerUser, MaxPermissions, MaxChannels,
          MaxPackets,           \* Quota::max_packets_per_allocation
          MaxIncarnation,       \* u64::MAX for next_incarnation
          MaxGeneration,        \* u64::MAX for credential_generation
          MaxTime               \* bound on the clock of the model

ASSUME RelayAssumption ==
  /\ AllocationLifetime \in Nat \ {0}
  /\ PermissionLifetime \in Nat \ {0}
  /\ ChannelLifetime \in Nat \ {0}
  /\ QuarantineLifetime \in Nat
  /\ \A n \in {MaxAllocations, MaxAllocationsPerUser, MaxPermissions, MaxChannels,
               MaxPackets, MaxIncarnation, MaxGeneration, MaxTime} : n \in Nat \ {0}

VARIABLES
  alloc,             \* allocations, one per tuple
  next_incarnation,
  tokens,            \* AuthenticatedRequest values that callers still hold
  bound,             \* history: every channel binding until its quarantine ends
  now

vars == <<alloc, next_incarnation, tokens, bound, now>>

Absent == [incarnation |-> 0]

Exists(k) == alloc[k].incarnation # 0

\* Faulty: an allocation lives through the second in which it expires.
UnexpiredLate(x) == now <= x.expires

Unexpired(x) == now < x.expires

Live(k) == Exists(k) /\ Unexpired(alloc[k])

-----------------------------------------------------------------------------
(* Allocation children.                                                    *)

\* Faulty: quarantine ends with the binding.
StillQuarantinedNever(e) == now < e.until - QuarantineLifetime

StillQuarantined(e) == now < e.until

\* prune_children
Pruned(x) ==
  LET lapsed == {c \in x.channels : now >= c.expires}
  IN  [x EXCEPT
         !.permissions = {p \in @ : now < p.expires},
         !.channels = @ \ lapsed,
         !.quarantined =
            {e \in @ \cup {[channel |-> c.channel, peer |-> c.peer, until |-> c.until] :
                             c \in lapsed} : StillQuarantined(e)}]

Permitted(x, ip) == \E p \in x.permissions : p.ip = ip

WithPermissions(x, ips) ==
  [x EXCEPT !.permissions = {p \in @ : p.ip \notin ips} \cup
                              {[ip |-> i, expires |-> now + PermissionLifetime] : i \in ips}]

PermissionIpValid(ip) == ip \in AllowedIps

PeerValid(p) == p.ip \in AllowedIps /\ p.port \notin WellKnown

-----------------------------------------------------------------------------

Init ==
  /\ alloc = [k \in Tuples |-> Absent]
  /\ next_incarnation = 0
  /\ tokens = {}
  /\ bound = {}
  /\ now = 0

Tick ==
  /\ now < MaxTime
  /\ now' = now + 1
  /\ bound' = {e \in bound : e.until > now'}
  /\ UNCHANGED <<alloc, next_incarnation, tokens>>

Cleaned == [k \in Tuples |-> IF Live(k) THEN alloc[k] ELSE Absent]

Cleanup == alloc' = Cleaned /\ UNCHANGED <<next_incarnation, tokens, bound, now>>

UserQuotaFree(a, u) ==
  Cardinality({k \in Tuples : a[k].incarnation # 0 /\ a[k].user = u}) < MaxAllocationsPerUser

RelayFree(a, r) == \A k \in Tuples : a[k].incarnation # 0 => a[k].relay # r

Creatable(a, k, u, r) ==
  /\ a[k].incarnation = 0
  /\ RelayFree(a, r)
  /\ Cardinality({j \in Tuples : a[j].incarnation # 0}) < MaxAllocations
  /\ UserQuotaFree(a, u)
  /\ next_incarnation < MaxIncarnation

IncarnationAfter(n) == n + 1

NewAllocation(u, nonce, r) ==
  [incarnation |-> IncarnationAfter(next_incarnation), generation |-> 1,
   user |-> u, nonce |-> nonce, relay |-> r, expires |-> now + AllocationLifetime,
   permissions |-> {}, channels |-> {}, quarantined |-> {}, packets |-> 0]

\* The requested lifetime is ignored: desired_lifetime is always the default.
Create(k, u, nonce, r) ==
  /\ IF Creatable(Cleaned, k, u, r)
     THEN /\ alloc' = [Cleaned EXCEPT ![k] = NewAllocation(u, nonce, r)]
          /\ next_incarnation' = next_incarnation + 1
     ELSE alloc' = Cleaned /\ UNCHANGED next_incarnation
  /\ UNCHANGED <<tokens, bound, now>>

\* authenticate_request: a live allocation prunes itself even when the request
\* is refused for its user or nonce.
Authenticate(k, u, nonce) ==
  /\ Live(k)
  /\ alloc' = [alloc EXCEPT ![k] = Pruned(@)]
  /\ IF alloc[k].user = u /\ alloc[k].nonce = nonce
     THEN tokens' = tokens \cup
            {[tuple |-> k, incarnation |-> alloc[k].incarnation,
              generation |-> alloc[k].generation, user |-> u]}
     ELSE UNCHANGED tokens
  /\ UNCHANGED <<next_incarnation, bound, now>>

Current(t) ==
  /\ alloc[t.tuple].incarnation = t.incarnation
  /\ alloc[t.tuple].generation = t.generation

\* An authenticated request is executed: authorized_allocation_mut prunes the
\* live allocation, then checks that the request belongs to it.  `x` is what the
\* request makes of its Subject.
Subject(t) == Pruned(alloc[t.tuple])

Execute(t, x) ==
  /\ Live(t.tuple)
  /\ alloc' = [alloc EXCEPT ![t.tuple] = IF Current(t) THEN x ELSE Subject(t)]

RotateNonce(t, nonce) ==
  /\ Execute(t, IF Subject(t).generation < MaxGeneration
                THEN [Subject(t) EXCEPT !.nonce = nonce, !.generation = @ + 1]
                ELSE Subject(t))
  /\ UNCHANGED <<next_incarnation, tokens, bound, now>>

Refresh(t) ==
  /\ Execute(t, [Subject(t) EXCEPT !.expires = now + AllocationLifetime])
  /\ UNCHANGED <<next_incarnation, tokens, bound, now>>

\* A refresh with lifetime zero.
Deallocate(t) ==
  /\ Execute(t, Absent)
  /\ UNCHANGED <<next_incarnation, tokens, bound, now>>

PermissionsFit(x, ips) ==
  Cardinality({p.ip : p \in x.permissions} \cup ips) <= MaxPermissions

CreatePermissions(t, peers) ==
  LET ips == {p.ip : p \in peers}
  IN  /\ Cardinality(peers) \in 1 .. MaxPermissions
      /\ Execute(t, IF (\A i \in ips : PermissionIpValid(i)) /\ PermissionsFit(Subject(t), ips)
                    THEN WithPermissions(Subject(t), ips)
                    ELSE Subject(t))
      /\ UNCHANGED <<next_incarnation, tokens, bound, now>>

Conflicts(e, c, p) == (e.channel = c) # (e.peer = p)

BindingFree(x, c, p) ==
  /\ \A e \in x.quarantined : now < e.until => ~ Conflicts(e, c, p)
  /\ \A e \in x.channels : ~ Conflicts(e, c, p)

Bindable(x, c, p) ==
  /\ PeerValid(p)
  /\ BindingFree(x, c, p)
  /\ (\E e \in x.channels : e.channel = c) \/ Cardinality(x.channels) < MaxChannels
  /\ Permitted(x, p.ip) \/ Cardinality(x.permissions) < MaxPermissions

Bound(x, c, p) ==
  LET expires == now + ChannelLifetime
  IN  [WithPermissions(x, {p.ip}) EXCEPT
         !.channels = {e \in @ : e.channel # c} \cup
                        {[channel |-> c, peer |-> p, expires |-> expires,
                          until |-> expires + QuarantineLifetime]}]

BindChannel(t, c, p) ==
  /\ Execute(t, IF Bindable(Subject(t), c, p) THEN Bound(Subject(t), c, p) ELSE Subject(t))
  /\ bound' = IF Current(t) /\ Bindable(Subject(t), c, p)
              THEN bound \cup {[incarnation |-> t.incarnation, channel |-> c, peer |-> p,
                                until |-> now + ChannelLifetime + QuarantineLifetime]}
              ELSE bound
  /\ UNCHANGED <<next_incarnation, tokens, now>>

-----------------------------------------------------------------------------
(* Traffic.                                                                *)

WithinTrafficQuota(x) == x.packets + 1 <= MaxPackets

\* require_permission_and_account
Accounted(x, ip) ==
  IF Permitted(x, ip) /\ WithinTrafficQuota(x) THEN [x EXCEPT !.packets = @ + 1] ELSE x

Relayed(k, x) ==
  /\ alloc' = [alloc EXCEPT ![k] = x]
  /\ UNCHANGED <<next_incarnation, tokens, bound, now>>

AuthorizeSend(k, p) ==
  /\ Live(k)
  /\ Relayed(k, IF PeerValid(p) THEN Accounted(Pruned(alloc[k]), p.ip) ELSE Pruned(alloc[k]))

AuthorizeChannelData(k, c) ==
  /\ Live(k)
  /\ LET x == Pruned(alloc[k])
         peers == {e.peer : e \in {b \in x.channels : b.channel = c}}
     IN  Relayed(k, IF peers = {} THEN x ELSE Accounted(x, (CHOOSE p \in peers : TRUE).ip))

RoutePeerDatagram(k, p) ==
  /\ Live(k)
  /\ Relayed(k, IF PermissionIpValid(p.ip) THEN Accounted(Pruned(alloc[k]), p.ip)
                ELSE Pruned(alloc[k]))

-----------------------------------------------------------------------------

RequestStep(t) ==
  \/ \E n \in Nonces : RotateNonce(t, n)
  \/ Refresh(t)
  \/ Deallocate(t)
  \/ \E peers \in SUBSET Peers : CreatePermissions(t, peers)
  \/ \E c \in Channels, p \in Peers : BindChannel(t, c, p)

TrafficStep(k) ==
  \/ \E p \in Peers : AuthorizeSend(k, p)
  \/ \E c \in Channels : AuthorizeChannelData(k, c)
  \/ \E p \in Peers : RoutePeerDatagram(k, p)

Next ==
  \/ Tick
  \/ Cleanup
  \/ \E k \in Tuples, u \in Users, n \in Nonces, r \in Relays : Create(k, u, n, r)
  \/ \E k \in Tuples, u \in Users, n \in Nonces : Authenticate(k, u, n)
  \/ \E t \in tokens : RequestStep(t)
  \/ \E k \in Tuples : TrafficStep(k)

Spec == Init /\ [][Next]_vars

-----------------------------------------------------------------------------
(* Properties.                                                             *)

\* The allocation table has the types of the struct's fields, and the counters
\* stay within their integer range and quota.
TypeOK ==
  /\ \A k \in Tuples : Exists(k) =>
       /\ alloc[k].incarnation \in 1 .. MaxIncarnation
       /\ alloc[k].generation \in 1 .. MaxGeneration
       /\ alloc[k].user \in Users /\ alloc[k].nonce \in Nonces /\ alloc[k].relay \in Relays
       /\ alloc[k].packets \in 0 .. MaxPackets
  /\ next_incarnation \in 0 .. MaxIncarnation
  /\ now \in 0 .. MaxTime

\* No two allocations share a relayed address, expired ones included: create
\* cleans up before it compares.
RelaysDistinct ==
  \A j, k \in Tuples : j # k /\ Exists(j) /\ Exists(k) => alloc[j].relay # alloc[k].relay

\* The global and per-user quotas hold for every allocation in the table.
QuotasHold ==
  /\ Cardinality({k \in Tuples : Exists(k)}) <= MaxAllocations
  /\ \A u \in Users :
       Cardinality({k \in Tuples : Exists(k) /\ alloc[k].user = u}) <= MaxAllocationsPerUser

\* Permissions and channels stay within the quota of their allocation, whether
\* they are installed by CreatePermission or as a side effect of ChannelBind.
ChildrenBounded ==
  \A k \in Tuples : Exists(k) =>
    /\ Cardinality(alloc[k].permissions) <= MaxPermissions
    /\ Cardinality(alloc[k].channels) <= MaxChannels

\* While a binding lives, and for the quarantine after it, its channel names no
\* other peer and its peer no other channel in the same allocation.
ChannelsUnambiguous ==
  \A e, f \in bound :
    e.incarnation = f.incarnation /\ e.until > now /\ f.until > now
      => (e.channel = f.channel <=> e.peer = f.peer)

\* A request that was authenticated for one allocation can never be executed on
\* an allocation of another user, however long its holder waits.
TokensStayWithUser ==
  \A t \in tokens : Exists(t.tuple) /\ Current(t) => alloc[t.tuple].user = t.user

\* What holds of the allocation table after every operation.
RelayInv ==
  /\ TypeOK /\ RelaysDistinct /\ QuotasHold /\ ChildrenBounded
  /\ ChannelsUnambiguous /\ TokensStayWithUser

\* Traffic is accounted only to an allocation that has not expired and that has
\* a permission for some ip that has not expired.
AccountedIsPermitted ==
  \A k \in Tuples :
    (/\ Exists(k)
     /\ alloc'[k].incarnation = alloc[k].incarnation
     /\ alloc'[k].packets > alloc[k].packets)
    => /\ now < alloc[k].expires
       /\ \E p \in alloc[k].permissions : now < p.expires

=============================================================================
