------------------------------- MODULE MCTurn -------------------------------
(***************************************************************************)
(* The TURN server with two clients; its allocation table alone, under any   *)
(* order of calls, once with two tuples and two users but no peers, and once *)
(* with one allocation, its permissions and its channels; the TURN client,   *)
(* once with a server that rotates its nonces and once with payloads of the  *)
(* peer; and the messages they exchange.                                     *)
(***************************************************************************)
EXTENDS TurnService, TLC

VARIABLES part,
  mode, route, creds, lock, requests, pending, reader, queue, consumer, stopper, granting, net,
  phase, message, key, datagram, damage, decoded, verified, disc

clientVars == <<mode, route, creds, lock, requests, pending, reader, queue, consumer, stopper,
                granting, net>>
wireVars == <<phase, message, key, datagram, damage, decoded, verified, disc>>

Peer(ip, port) == [ip |-> ip, port |-> port]

MCPeers == {Peer("ip1", 5000)}
MCWellKnown == {80}

\* Two users, named like the transactions of the service.
A == INSTANCE TurnRelay WITH
       Users <- TransactionIds, Peers <- {}, AllowedIps <- {}, Channels <- {},
       AllocationLifetime <- 2, MaxAllocationsPerUser <- 1, MaxIncarnation <- 3, MaxTime <- 3

\* Two ips, of which one also has a well-known port.
C == INSTANCE TurnRelay WITH
       Tuples <- {"tuple"}, Users <- {"user"}, Nonces <- {"nonce"}, Relays <- {"relay"},
       Peers <- {Peer("ip1", 5000), Peer("ip1", 80), Peer("ip2", 5000)},
       AllowedIps <- {"ip1", "ip2"}, Channels <- {1, 2},
       AllocationLifetime <- 2, MaxChannels <- 2, MaxTime <- 3

R == INSTANCE TurnClient WITH
       task <- requests, server <- granting, Modes <- {"route", "probe"}, MaxNonce <- 2,
       MaxId <- 9, MaxPending <- 4, MaxQueue <- 2, MaxBytes <- 3, Sizes <- {1, 2}, MaxData <- 0, MaxGeneration <- 2,
       Faults <- {"timeout", "rotate", "expire", "lost", "drop"}

D == INSTANCE TurnClient WITH
       task <- requests, server <- granting, Modes <- {"route", "probe"}, MaxNonce <- 1,
       MaxId <- 9, MaxPending <- 4, MaxQueue <- 2, MaxBytes <- 3, Sizes <- {1, 2}, MaxData <- 2, MaxGeneration <- 1,
       Faults <- {"timeout", "rotate", "expire", "lost", "drop"}

F == INSTANCE StunWire WITH
       Keys <- {"key1", "key2"}, MaxDamage <- 2, MaxDatagram <- 4096, MaxRequests <- 2,
       MaxIgnored <- 2, MaxDrained <- 1

TurnInit ==
  /\ part \in {"service", "allocations", "children", "renewal", "payloads", "messages"}
  /\ ServerInit
  /\ IF part = "allocations" THEN A!Init ELSE IF part = "children" THEN C!Init ELSE Init
  /\ R!Init
  /\ part \notin {"renewal", "payloads"} => mode = "route"
  /\ F!Init
  /\ part # "messages" => phase = "build"

TurnNext ==
  /\ UNCHANGED part
  /\ \/ /\ \/ part = "service" /\ ServiceNext
           \/ part = "allocations" /\ A!Next /\ UNCHANGED service
           \/ part = "children" /\ C!Next /\ UNCHANGED service
        /\ UNCHANGED <<clientVars, wireVars>>
     \/ /\ \/ part = "renewal" /\ R!Next
           \/ part = "payloads" /\ D!Next
        /\ UNCHANGED <<allVars, wireVars>>
     \/ /\ part = "messages" /\ F!Next
        /\ UNCHANGED <<allVars, clientVars>>

TurnSpec == TurnInit /\ [][TurnNext]_<<part, allVars, clientVars, wireVars>>

TurnSymmetry == Permutations(Tuples) \cup Permutations(Relays) \cup Permutations(TransactionIds)

-------------------------------------------------------------------------------
\* Relayed addresses are distinct, quotas hold, a channel and a peer name each
\* other until the quarantine of their binding ends, and no request runs on an
\* allocation of a user other than the one it was authenticated for (create,
\* execute, install_permission, bind_channel).
RelaySound ==
  /\ part = "service" => RelayInv
  /\ part = "allocations" => A!RelayInv
  /\ part = "children" => C!RelayInv

\* Traffic is accounted only to an allocation that has not expired and that has a
\* permission that has not expired (account_packet).
TrafficIsPermitted ==
  [][/\ part = "service" => AccountedIsPermitted
     /\ part = "children" => C!AccountedIsPermitted]_vars

\* While the service runs, an allocation that has not expired has its own socket and its
\* nonce was issued to it alone; a peer task that is not cancelled serves an open socket;
\* and a request sent again is not executed again within the lifetime of its response
\* (Runtime::prune, handle_allocate, remove_allocation, cache_decision).
SocketsAccounted == part = "service" => ServiceInv /\ RetransmissionIsIdempotent

\* The client's route reaches a generation only with the grants it needs, no pending
\* entry outlives its transaction and a queued payload wakes the driver (refresh_loop,
\* request_with_policy, poll_recv).  A message that passes verify_integrity, or a Binding accepted
\* with a fingerprint, is the one that was built, and a discovered address is the one
\* the server sent in this transaction (turn::decode, stun::decode, run_transaction).
TurnClientSound ==
  /\ part = "renewal" => R!TurnClientInv
  /\ part = "payloads" => D!TurnClientInv
  /\ part = "messages" => F!StunWireInv
===============================================================================
