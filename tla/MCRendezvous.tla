----------------------------- MODULE MCRendezvous -----------------------------
(***************************************************************************)
(* How two devices find each other: the rendezvous server with three         *)
(* connections; its broker alone, under any order of calls, once with few    *)
(* match ids that are used again and once with enough of them to fill the    *)
(* table of used ids; and the connectivity probe between the two devices.    *)
(***************************************************************************)
EXTENDS RendezvousService, TLC

CONSTANTS devA, devB, devC, match1, match2

VARIABLES part,   \* what the behaviour exercises
  table,          \* the broker that is called directly
  candidates, agents, workers, flags, probes, datagrams, lanes, session, echo

probeVars == <<candidates, agents, workers, flags, probes, datagrams, lanes, session, echo>>

\* Two devices that look for each other, one that retries, and a third device
\* that asks for one of them under the same match id.
Attempt(d, i, p, r, t) ==
  [device |-> d,
   reg |-> [id |-> i, peer |-> p, role |-> r, generation |-> 1, ttl |-> t]]

MCAttempts ==
  {Attempt(devA, match1, devB, "Initiator", 1), Attempt(devA, match1, devB, "Initiator", 2),
   Attempt(devB, match1, devA, "Responder", 2), Attempt(devC, match1, devA, "Responder", 2)}

B == INSTANCE RendezvousBroker WITH
       broker <- table, Devices <- Conns, Matches <- {match1, match2}, Generations <- {1, 2},
       Ttls <- {1, 2}, MaxTtl <- 2, MaxPending <- 2, MaxPendingPerDevice <- 1, MaxRegistrations <- 4,
       MaxMatches <- 1, MaxTime <- 2

\* Six ids are more than the broker may ever know at a time.
ManyIds == 1 .. 6

I == INSTANCE RendezvousBroker WITH
       broker <- table, Devices <- {devA, devB}, Matches <- ManyIds, Generations <- {1},
       Ttls <- {1}, MaxTtl <- 1, MaxPending <- 1, MaxPendingPerDevice <- 1, MaxRegistrations <- 2,
       MaxMatches <- 1, MaxTime <- 2

Known == {id \in ManyIds : \E map \in {table.pending, table.reserved, table.completed} :
                             \E e \in map : e.id = id}

\* Unknown ids are alike: of them the least is registered.
Candidates == Known \cup {id \in ManyIds \ Known : \A i \in ManyIds \ Known : id <= i}

IdsNext ==
  \/ I!Tick \/ I!CleanUp
  \/ \E d \in {devA, devB}, id \in Candidates :
       \/ \E r \in I!Registrations : r.id = id /\ I!Register(d, r)
       \/ I!TakeDelivery(d, id) \/ I!CancelWaiting(d, id)
       \/ I!ConfirmMatch(id) \/ I!AbortMatch(id)

P == INSTANCE IceProbe WITH
       cand <- candidates, agent <- agents, worker <- workers, control <- flags, app <- probes,
       net <- datagrams, lane <- lanes, MaxIgnored <- 0, MaxOutbound <- 2, MaxInbound <- 2,
       MaxDrain <- 2, Addresses <- {"authenticated", "private"},
       Faults <- {"timeout", "noise", "io"}

L == INSTANCE IceProbe WITH
       cand <- candidates, agent <- agents, worker <- workers, control <- flags, app <- probes,
       net <- datagrams, lane <- lanes, MaxIgnored <- 0, MaxOutbound <- 2, MaxInbound <- 2,
       MaxDrain <- 2, Addresses <- {"authenticated", "private"}, Faults <- {"late", "disconnect"}

RendezvousInit ==
  /\ part \in {"service", "broker", "ids", "probe", "late"}
  /\ ServiceInit
  /\ table = EmptyBroker
  /\ P!Init
  /\ part \notin {"probe", "late"} => \A p \in P!Peers : candidates[p].ip = "private"

RendezvousNext ==
  /\ UNCHANGED part
  /\ \/ part = "service" /\ Next /\ UNCHANGED <<table, probeVars>>
     \/ part = "broker" /\ B!BrokerNext /\ UNCHANGED <<broker, net, task, probeVars>>
     \/ part = "ids" /\ IdsNext /\ UNCHANGED <<broker, net, task, probeVars>>
     \/ /\ \/ part = "probe" /\ P!Next
           \/ part = "late" /\ L!Next
        /\ UNCHANGED <<table, vars>>

RendezvousSpec == RendezvousInit /\ [][RendezvousNext]_<<part, table, vars, probeVars>>

ConnSymmetry == Permutations(Conns)

-------------------------------------------------------------------------------
\* A broker called in any order keeps its books: every registration slot is accounted
\* for, an id is in one table and once, deliveries are mutual and tied to their match,
\* and the limits hold, that of the used ids included, which expiry, cancel and abort
\* fill unchecked (RendezvousBroker).
BooksAgree ==
  /\ part = "broker" => B!BrokerInv
  /\ part = "ids" => I!BrokerInv

\* A worker gives its probe socket up only when both sides have nominated, a task that
\* is through leaves no thread behind that was not told to stop, the second endpoint
\* opens on a socket its thread has returned, and the peers that report success agree
\* on both nonces (run_ice_on_socket, IceSocketWorker::handoff).
ProbeSound ==
  /\ part = "probe" => P!ProbeInv
  /\ part = "late" => L!ProbeInv
===============================================================================
