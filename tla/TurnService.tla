---------------------------- MODULE TurnService -----------------------------
(***************************************************************************)
(* The TURN server of apps/turn-relayd: one control task that prunes and   *)
(* then handles one datagram at a time, one peer task per allocation, the  *)
(* challenges, and the response cache that makes retransmissions           *)
(* idempotent, over the allocation state of module TurnRelay.              *)
(*                                                                         *)
(* The clock may advance between the prune, the authentication and the     *)
(* execution of a request, and peer tasks run in between: the code takes   *)
(* the state's lock and reads the clock separately for each of them.       *)
(* There is one account; a request with a wrong key is answered like one   *)
(* without integrity.  Channels and payloads are left to TurnRelay.        *)
(***************************************************************************)
EXTENDS TurnRelay

CONSTANTS Account,        \* the configured user
          TransactionIds,
          NonceLifetime, CacheLifetime,
          MaxChallenges, MaxCache,
          ExitAfter       \* exit_after_deallocations

ASSUME ServiceAssumption ==
  /\ Account \in Users
  /\ NonceLifetime \in Nat \ {0}
  /\ CacheLifetime \in Nat \ {0}
  /\ MaxChallenges \in Nat \ {0}
  /\ MaxCache \in Nat \ {0}
  /\ ExitAfter \in Nat

VARIABLES
  server,       \* [pc, req]: where the control task is, and with which request
  challenges,   \* [tuple, nonce, expires]
  cache,        \* [source, id, body, expires]
  runtime,      \* [tuple, relay]: the bound relay sockets
  tasks,        \* [tuple, relay, cancelled]: peer tasks
  issued,       \* history: the nonces handed out
  executed,     \* history: [source, id, until] of requests that were executed
  repeated,     \* history: a cached request was executed again
  deallocations,
  stopped

service == <<server, challenges, cache, runtime, tasks, issued, executed, repeated,
             deallocations, stopped>>
relayVars == <<alloc, next_incarnation, tokens, bound>>
allVars == <<vars, service>>

\* A datagram as the control socket receives it.  "Bare" is an Allocate without
\* integrity, "Unsigned" another request without it, "Send" is data for a peer;
\* the others carry a nonce the server has handed out.
Bodies == [kind : {"Bare", "Unsigned", "Allocate", "Refresh", "Deallocate", "Permit", "Send"},
           nonce : Nonces]

Requests == [source : Tuples, id : TransactionIds, body : Bodies]

Idle == [pc |-> "recv"]

ServerInit ==
  /\ server = Idle
  /\ challenges = {}
  /\ cache = {}
  /\ runtime = {}
  /\ tasks = {}
  /\ issued = {}
  /\ executed = {}
  /\ repeated = FALSE
  /\ deallocations = 0
  /\ stopped = FALSE

ServiceInit == Init /\ ServerInit

Source == server.req.source
Body == server.req.body

-----------------------------------------------------------------------------
(* Receiving and pruning.                                                  *)

ReceiveRequest(r) ==
  /\ ~ stopped
  /\ server.pc = "recv"
  /\ r.body.nonce \in issued
     \/ r.body = [kind |-> "Bare", nonce |-> CHOOSE n \in Nonces : TRUE]
  /\ server' = [pc |-> "prune", req |-> r]
  /\ UNCHANGED <<relayVars, now, challenges, cache, runtime, tasks, issued, executed,
                 repeated, deallocations, stopped>>

\* remove_allocation: the socket is closed, its peer task cancelled and awaited.
Sockets(ks) == {r \in runtime : r.tuple \in ks}

TasksOf(ks) == {t \in tasks : ~ t.cancelled /\ t.tuple \in ks}

\* Faulty: a cached response is dropped when its second begins.
FreshResponseEarly(e) == now + 1 < e.expires

FreshResponse(e) == now < e.expires

\* The maintenance timer, or a datagram: both prune first.
Prune ==
  /\ ~ stopped
  /\ server.pc \in {"recv", "prune"}
  /\ challenges' = {c \in challenges : now < c.expires}
  /\ cache' = {e \in cache : FreshResponse(e)}
  /\ alloc' = [k \in Tuples |-> IF ~ Live(k) THEN Absent
                                ELSE IF Sockets({k}) # {} THEN Pruned(alloc[k])
                                ELSE alloc[k]]
  /\ LET stale == {k \in Tuples : ~ Live(k)}
     IN  /\ runtime' = runtime \ Sockets(stale)
         /\ tasks' = tasks \ TasksOf({r.tuple : r \in Sockets(stale)})
  /\ server' = [server EXCEPT !.pc = IF @ = "prune" THEN "handle" ELSE @]
  /\ UNCHANGED <<next_incarnation, tokens, bound, now, issued, executed, repeated,
                 deallocations, stopped>>

-----------------------------------------------------------------------------
(* The response cache.                                                     *)

Cached == {e \in cache : e.source = Source /\ e.id = server.req.id}

\* Handling pauses at the socket between the effect of a request and its answer.
Answering == server' = [server EXCEPT !.pc = "answer"]

\* A cached answer is sent again; another body under the same transaction id
\* is refused.
Replay ==
  /\ ~ stopped
  /\ server.pc = "handle"
  /\ Body.kind # "Send"
  /\ Cached # {}
  /\ server' = Idle
  /\ UNCHANGED <<relayVars, now, challenges, cache, runtime, tasks, issued, executed,
                 repeated, deallocations, stopped>>

CacheHasRoom == Cardinality(cache) < MaxCache

RejectFull ==
  /\ ~ stopped
  /\ server.pc = "handle"
  /\ Body.kind # "Send"
  /\ Cached = {}
  /\ ~ CacheHasRoom
  /\ server' = Idle
  /\ UNCHANGED <<relayVars, now, challenges, cache, runtime, tasks, issued, executed,
                 repeated, deallocations, stopped>>

Admitted ==
  /\ ~ stopped
  /\ server.pc = "handle"
  /\ Body.kind # "Send"
  /\ Cached = {}
  /\ CacheHasRoom

\* The answer goes out and is cached, errors included; the authenticated request
\* is dropped.
Answer ==
  /\ ~ stopped
  /\ server.pc = "answer"
  /\ cache' = cache \cup {[source |-> Source, id |-> server.req.id, body |-> Body,
                           expires |-> now + CacheLifetime]}
  /\ executed' = executed \cup {[source |-> Source, id |-> server.req.id,
                                 until |-> now + CacheLifetime]}
  /\ repeated' = (repeated \/ \E e \in executed :
                    e.source = Source /\ e.id = server.req.id /\ now < e.until)
  /\ server' = Idle
  /\ tokens' = {}
  /\ UNCHANGED <<alloc, next_incarnation, bound, now, challenges, runtime, tasks, issued,
                 deallocations, stopped>>

-----------------------------------------------------------------------------
(* Challenges and allocation.                                              *)

ChallengeOf(k) == {c \in challenges : c.tuple = k}

ChallengeRoom(k) == Cardinality(challenges) < MaxChallenges \/ ChallengeOf(k) # {}

\* issue_new_challenge: a fresh nonce replaces the source's challenge.
IssueChallenge(k) ==
  IF ChallengeRoom(k)
  THEN /\ \E n \in Nonces \ issued :
            /\ issued' = issued \cup {n}
            /\ challenges' = (challenges \ ChallengeOf(k)) \cup
                               {[tuple |-> k, nonce |-> n, expires |-> now + NonceLifetime]}
  ELSE UNCHANGED <<issued, challenges>>

NonceCurrent(k, n) ==
  \E c \in ChallengeOf(k) : now < c.expires /\ c.nonce = n

\* stale_challenge_nonce: a challenge that has not expired is handed out again.
Rechallenge(k) ==
  IF \E c \in ChallengeOf(k) : now < c.expires
  THEN UNCHANGED <<issued, challenges>>
  ELSE IssueChallenge(k)

HandleUnallocated ==
  /\ Admitted
  /\ Body.kind \in {"Bare", "Allocate"}
  /\ Body.kind = "Allocate" => ~ NonceCurrent(Source, Body.nonce)
  /\ IF Body.kind = "Bare" THEN IssueChallenge(Source) ELSE Rechallenge(Source)
  /\ Answering
  /\ UNCHANGED <<relayVars, now, cache, runtime, tasks, executed, repeated, deallocations,
                 stopped>>

\* Faulty: the peer task that is replaced keeps running.
ReplacedKept(k) == {}

\* Inserting the new socket drops the entry it replaces, and with it the sender
\* that keeps the old peer task from being cancelled.
Replaced(k) == TasksOf({k})

Spawned(k, r) ==
  /\ runtime' = (runtime \ Sockets({k})) \cup {[tuple |-> k, relay |-> r]}
  /\ tasks' = (tasks \ Replaced(k))
                \cup {[t EXCEPT !.cancelled = TRUE] : t \in Replaced(k)}
                \cup {[tuple |-> k, relay |-> r, cancelled |-> FALSE]}

\* The kernel gives the relay socket an address no open socket has.
FreeRelays == Relays \ ({r.relay : r \in runtime} \cup {t.relay : t \in tasks})

\* A transport other than UDP is refused before a socket is bound.
HandleAllocate ==
  /\ Admitted
  /\ Body.kind = "Allocate"
  /\ NonceCurrent(Source, Body.nonce)
  /\ \/ UNCHANGED <<vars, runtime, tasks>>
     \/ \E r \in FreeRelays :
          /\ Create(Source, Account, Body.nonce, r)
          /\ IF Creatable(Cleaned, Source, Account, r)
             THEN Spawned(Source, r)
             ELSE UNCHANGED <<runtime, tasks>>
  /\ Answering
  /\ UNCHANGED <<challenges, cache, issued, executed, repeated, deallocations, stopped>>

-----------------------------------------------------------------------------
(* Requests on an allocation.                                              *)

\* A missing or expired allocation, and a stale nonce, are answered with an
\* error; a live allocation prunes its children on the way, and answers a
\* request without integrity with a new challenge.
HandleRefused ==
  /\ Admitted
  /\ \/ /\ Body.kind \in {"Unsigned", "Refresh", "Deallocate", "Permit"}
        /\ ~ Live(Source)
        /\ UNCHANGED <<alloc, issued, challenges>>
     \/ /\ Body.kind \in {"Refresh", "Deallocate", "Permit"}
        /\ Live(Source) /\ alloc[Source].nonce # Body.nonce
        /\ alloc' = [alloc EXCEPT ![Source] = Pruned(@)]
        /\ UNCHANGED <<issued, challenges>>
     \/ /\ Body.kind = "Unsigned"
        /\ Live(Source)
        /\ alloc' = [alloc EXCEPT ![Source] = Pruned(@)]
        /\ IssueChallenge(Source)
  /\ Answering
  /\ UNCHANGED <<next_incarnation, tokens, bound, now, cache, runtime, tasks, executed,
                 repeated, deallocations, stopped>>

HandleAuthenticate ==
  /\ Admitted
  /\ Body.kind \in {"Refresh", "Deallocate", "Permit"}
  /\ Live(Source)
  /\ alloc[Source].nonce = Body.nonce
  /\ Authenticate(Source, Account, Body.nonce)
  /\ server' = [server EXCEPT !.pc = "execute"]
  /\ UNCHANGED <<challenges, cache, runtime, tasks, issued, executed, repeated,
                 deallocations, stopped>>

\* The allocation that was authenticated may have expired since.
ExecuteExpired ==
  /\ ~ stopped
  /\ server.pc = "execute"
  /\ ~ Live(Source)
  /\ Answering
  /\ UNCHANGED <<relayVars, now, challenges, cache, runtime, tasks, issued, executed, repeated,
                 deallocations, stopped>>

Token == CHOOSE t \in tokens : t.tuple = Source /\ Current(t)

ExecuteRequest ==
  /\ ~ stopped
  /\ server.pc = "execute"
  /\ Live(Source)
  /\ \/ Body.kind = "Refresh" /\ Refresh(Token)
     \/ Body.kind = "Permit" /\ \E p \in Peers : CreatePermissions(Token, {p})
  /\ Answering
  /\ UNCHANGED <<challenges, cache, runtime, tasks, issued, executed, repeated, deallocations,
                 stopped>>

\* A refresh with lifetime zero also ends the peer task and closes its socket.
ExecuteDeallocate ==
  /\ ~ stopped
  /\ server.pc = "execute"
  /\ Body.kind = "Deallocate"
  /\ Live(Source)
  /\ Deallocate(Token)
  /\ runtime' = runtime \ Sockets({Source})
  /\ tasks' = tasks \ TasksOf({Source})
  /\ deallocations' = deallocations + 1
  /\ Answering
  /\ UNCHANGED <<challenges, cache, issued, executed, repeated, stopped>>

-----------------------------------------------------------------------------
(* Peer tasks and the end of the service.                                  *)

\* A datagram from a permitted peer goes to the client of the task's tuple.  A
\* task that was cancelled may still handle the datagram it has in hand.
PeerDatagram(t) ==
  /\ \E p \in Peers : RoutePeerDatagram(t.tuple, p)
  /\ UNCHANGED service

\* peer_loop ends when it is cancelled, at the deadline of the service, and on any
\* error of its relay socket; the entry of its allocation stays.
TaskEnds(t) ==
  /\ tasks' = tasks \ {t}
  /\ UNCHANGED <<vars, server, challenges, cache, runtime, issued, executed, repeated,
                 deallocations, stopped>>

\* Data for a peer: refused without a live allocation, otherwise checked and
\* accounted there.
HandleSend ==
  /\ ~ stopped
  /\ server.pc = "handle"
  /\ Body.kind = "Send"
  /\ IF Live(Source) THEN \E p \in Peers : AuthorizeSend(Source, p) ELSE UNCHANGED vars
  /\ server' = Idle
  /\ UNCHANGED <<challenges, cache, runtime, tasks, issued, executed, repeated,
                 deallocations, stopped>>

\* shutdown, at the deadline, after enough deallocations, or when a handler meets
\* an I/O error: every allocation of the runtime is removed and its task awaited.
Stop ==
  /\ ~ stopped
  /\ \/ server.pc = "recv" /\ now >= MaxTime
     \/ server.pc = "recv" /\ ExitAfter > 0 /\ deallocations >= ExitAfter
     \/ server.pc \in {"handle", "answer"}
  /\ stopped' = TRUE
  /\ server' = Idle
  /\ runtime' = {}
  /\ tasks' = tasks \ TasksOf({r.tuple : r \in runtime})
  /\ UNCHANGED <<vars, challenges, cache, issued, executed, repeated, deallocations>>

\* An error of the control socket itself returns at once: dropping the runtime
\* cancels the peer tasks without awaiting them.
StopAbruptly ==
  /\ ~ stopped
  /\ server.pc = "recv"
  /\ stopped' = TRUE
  /\ server' = Idle
  /\ runtime' = {}
  /\ tasks' = {[t EXCEPT !.cancelled = TRUE] : t \in tasks}
  /\ UNCHANGED <<vars, challenges, cache, issued, executed, repeated, deallocations>>

ServiceTick ==
  /\ ~ stopped
  /\ Tick
  /\ executed' = {e \in executed : now' < e.until}
  /\ UNCHANGED <<server, challenges, cache, runtime, tasks, issued, repeated, deallocations,
                 stopped>>

ServiceNext ==
  \/ ServiceTick
  \/ \E r \in Requests : ReceiveRequest(r)
  \/ Prune
  \/ Replay
  \/ RejectFull
  \/ HandleUnallocated
  \/ HandleAllocate
  \/ HandleRefused
  \/ HandleSend
  \/ Answer
  \/ HandleAuthenticate
  \/ ExecuteExpired
  \/ ExecuteRequest
  \/ ExecuteDeallocate
  \/ \E t \in tasks : PeerDatagram(t) \/ TaskEnds(t)
  \/ Stop
  \/ StopAbruptly

ServiceSpec == ServiceInit /\ [][ServiceNext]_allVars

-----------------------------------------------------------------------------
(* Properties.                                                             *)

\* The tables have the types of the Runtime struct's fields and respect their
\* capacities.
ServiceTypeOK ==
  /\ server.pc \in {"recv", "prune", "handle", "execute", "answer"}
  /\ Cardinality(challenges) <= MaxChallenges
  /\ Cardinality(cache) <= MaxCache
  /\ \A r, s \in runtime : r.tuple = s.tuple => r = s

\* While the service runs, every allocation that has not expired has its own
\* relay socket, bound to the address it was given: "allocation socket missing"
\* cannot be reported.
AllocationHasSocket ==
  ~ stopped => \A k \in Tuples : Live(k) => [tuple |-> k, relay |-> alloc[k].relay] \in runtime

\* A peer task that is not cancelled serves a socket of the runtime, so replacing,
\* expiring, deallocating and shutting down orphan no task.  The converse fails: a
\* task whose socket failed is gone while its allocation stays.
NoOrphanTask ==
  \A t \in tasks : t.cancelled \/ [tuple |-> t.tuple, relay |-> t.relay] \in runtime

\* An allocation is created and destroyed only by requests: its nonce is one that
\* the server issued, and every nonce belongs to one allocation at most.
NoncesIssued ==
  \A k \in Tuples : Exists(k) =>
    /\ alloc[k].nonce \in issued
    /\ \A j \in Tuples : Exists(j) /\ alloc[j].nonce = alloc[k].nonce => j = k

\* The server's tables belong together.
ServiceInv == ServiceTypeOK /\ AllocationHasSocket /\ NoOrphanTask /\ NoncesIssued

\* A retransmitted request is answered from the cache: it is not executed again
\* within the lifetime of its response.
RetransmissionIsIdempotent == ~ repeated

=============================================================================
