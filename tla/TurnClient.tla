----------------------------- MODULE TurnClient -----------------------------
(***************************************************************************)
(* The client side of a relay: AuthenticatedTurnRoute, a QUIC socket whose *)
(* datagrams travel through one TURN allocation, and the sequential        *)
(* evidence client of the relay daemon.                                    *)
(*                                                                         *)
(* A route has four concurrent parties: the task that establishes it and   *)
(* later shuts it down ("main"), the refresh loop ("refresh"), the reader  *)
(* that owns every receive, and the QUIC driver that polls for payloads.   *)
(* They share the pending-response table, the credentials, the payload     *)
(* queue with its byte count and its waker, and the live state, each under *)
(* a mutex of its own; a step is one critical section or what runs between *)
(* two awaits.  Requests are serialised by auth_lock.                      *)
(*                                                                         *)
(* The relay server and the network are external: datagrams are lost,      *)
(* repeated (a retransmission is a repetition) and reordered, the server   *)
(* changes its nonce and expires the allocation when it likes.             *)
(***************************************************************************)
EXTENDS Integers, Sequences, SequencesExt, FiniteSets

CONSTANTS Modes,       \* of {"route", "probe"}
          MaxNonce,    \* nonces of the server
          MaxId,       \* transactions of a behaviour
          MaxPending,  \* MAX_PENDING_RESPONSES
          MaxQueue,    \* MAX_QUEUE
          MaxBytes,    \* MAX_QUEUE_BYTES
          Sizes,       \* sizes of payloads the peer sends
          MaxData,     \* payloads of a behaviour
          MaxGeneration,
          Faults       \* of {"timeout", "rotate", "expire", "lost", "drop"}

VARIABLES mode,      \* which client runs
          route,     \* LiveState and the stop signal
          creds,     \* the nonce of RefreshCredentials, 0 before the challenge
          lock,      \* the holder of auth_lock
          task,      \* task[t]: the main task and the refresh loop
          pending,   \* pending responses: transaction -> whether it is signed
          reader,    \* the read loop
          queue,     \* payloads, their byte count and the registered waker
          consumer,  \* the QUIC driver in poll_recv
          stopper,   \* progress of stop_tasks
          server,    \* the relay server
          net        \* datagrams in flight

vars == <<mode, route, creds, lock, task, pending, reader, queue, consumer,
          stopper, server, net>>

Tasks == {"main", "refresh"}
None == "none"

\* The requests of each script, in order: "challenge" is the unsigned Allocate,
\* "Delete" the Refresh(0) of shutdown.
Script(t) == IF t = "main"
               THEN <<"challenge", "Allocate", "CreatePermission", "ChannelBind", "Delete">>
               ELSE <<"Refresh", "CreatePermission", "ChannelBind">>

NewTask(pc) == [pc |-> pc, step |-> 1, id |-> 0, retried |-> FALSE, reply |-> {}, used |-> 0,
                ok |-> TRUE]

Init ==
    /\ mode \in Modes
    /\ route = [revoked |-> FALSE, expired |-> FALSE, generation |-> 0, stop |-> FALSE,
                 serial |-> 0]
    /\ creds = 0
    /\ lock = None
    /\ task = [t \in Tasks |-> NewTask(IF t = "main" THEN "begin" ELSE "unborn")]
    /\ pending = [i \in {} |-> TRUE]
    /\ reader = [pc |-> "recv", payload |-> 0]
    /\ queue = [items |-> <<>>, bytes |-> 0, waker |-> FALSE]
    /\ consumer = [pc |-> "check", woken |-> FALSE]
    /\ stopper = "idle"
    /\ server = [nonce |-> 1, alloc |-> 0, granted |-> {}, sent |-> 0, echoed |-> {}]
    /\ net = {}

-----------------------------------------------------------------------------
(* The relay server, as the client sees it. *)

Request(id, method, nonce) ==
    [to |-> "server", id |-> id, method |-> method, nonce |-> nonce]

Reply(r, code, signed) ==
    [to |-> "client", id |-> r.id, method |-> IF r.method = "challenge" THEN "Allocate" ELSE r.method,
     code |-> code, nonce |-> server.nonce, signed |-> signed]

\* Nothing the server does matters once the client is gone.
Running == task["main"].pc \notin {"failed", "done", "dropped", "reported"}

\* What the server answers: a challenge, a stale nonce, an allocation that does
\* not fit the request, or success.
Answer(r) ==
    IF r.nonce = 0 THEN Reply(r, 401, FALSE)
    ELSE IF r.nonce # server.nonce THEN Reply(r, 438, TRUE)
    ELSE IF \/ r.method = "Allocate" /\ server.alloc \notin {0, r.id}
            \/ r.method # "Allocate" /\ server.alloc = 0
           THEN Reply(r, 437, TRUE)
    ELSE Reply(r, 200, TRUE)

Serve ==
    /\ Running
    /\ \E r \in net :
         LET a == Answer(r) IN
         /\ r.to = "server"
         /\ net' = net \union {a}
         /\ server' = IF a.code # 200 THEN server
                      ELSE [server EXCEPT !.granted = @ \union {<<r.method, r.id>>},
                                          !.alloc = IF r.method = "Allocate" THEN r.id
                                                    ELSE IF r.method = "Delete" THEN 0 ELSE @]
    /\ UNCHANGED <<mode, route, creds, lock, task, pending, reader, queue, consumer, stopper>>

RotateNonce ==
    /\ "rotate" \in Faults /\ Running /\ server.nonce < MaxNonce
    /\ server' = [server EXCEPT !.nonce = @ + 1]
    /\ UNCHANGED <<mode, route, creds, lock, task, pending, reader, queue, consumer,
                   stopper, net>>

AllocationLost ==
    /\ "lost" \in Faults /\ Running /\ server.alloc # 0
    /\ server' = [server EXCEPT !.alloc = 0]
    /\ UNCHANGED <<mode, route, creds, lock, task, pending, reader, queue, consumer,
                   stopper, net>>

\* A payload of the peer, relayed on the bound channel.
PeerSends ==
    /\ mode = "route" /\ server.alloc # 0 /\ \E i \in 1..MaxId : <<"ChannelBind", i>> \in server.granted
    /\ server.sent < MaxData
    /\ \E n \in Sizes : net' = net \union {[to |-> "route", size |-> n]}
    /\ server' = [server EXCEPT !.sent = @ + 1]
    /\ UNCHANGED <<mode, route, creds, lock, task, pending, reader, queue, consumer, stopper>>

-----------------------------------------------------------------------------
(* Live state. *)

\* Inner::ensure_live.
Live == ~route.revoked /\ ~route.expired

\* Inner::revoke up to the stop signal; the rest of stop_tasks follows.
Revoke ==
    /\ route' = [route EXCEPT !.revoked = TRUE, !.stop = TRUE]
    /\ stopper' = "waker"

\* The clock passes the expiry of the route.
Expire ==
    /\ "expire" \in Faults /\ mode = "route" /\ ~route.expired /\ ~route.revoked
    /\ route' = [route EXCEPT !.expired = TRUE]
    /\ UNCHANGED <<mode, creds, lock, task, pending, reader, queue, consumer, stopper,
                   server, net>>

\* Taking the registered waker wakes the QUIC driver.
TakeWaker ==
    /\ queue' = [queue EXCEPT !.waker = FALSE]
    /\ consumer' = [consumer EXCEPT !.woken = @ \/ queue.waker]

\* stop_tasks: the waker is taken, then the pending responses, the queue and
\* the byte count are cleared, each under its own mutex.
StopTasks ==
    /\ \/ /\ stopper = "waker" /\ stopper' = "responses"
          /\ TakeWaker
          /\ UNCHANGED pending
       \/ /\ stopper = "responses" /\ stopper' = "queue"
          /\ pending' = [i \in {} |-> TRUE]
          /\ UNCHANGED <<queue, consumer>>
       \/ /\ stopper = "queue" /\ stopper' = "bytes"
          /\ queue' = [queue EXCEPT !.items = <<>>]
          /\ UNCHANGED <<pending, consumer>>
       \/ /\ stopper = "bytes" /\ stopper' = "idle"
          /\ queue' = [queue EXCEPT !.bytes = 0]
          /\ UNCHANGED <<pending, consumer>>
    /\ UNCHANGED <<mode, route, creds, lock, task, reader, server, net>>

-----------------------------------------------------------------------------
(* Transactions: authenticated_request and request_with_policy. *)

Method(t) == Script(t)[task[t].step]

\* A response that nobody waits for is ignored when it comes, and a late copy
\* of a request that was answered changes nothing: both are forgotten.
Unanswered(id) == {m \in net : m.to \in {"client", "server"} => m.id # id}

\* The transaction ends in an error: its guards release auth_lock and the
\* pending entry, and every caller then revokes the route.
Fail(t) ==
    /\ lock' = IF lock = t THEN None ELSE lock
    /\ pending' = [i \in DOMAIN pending \ {task[t].id} |-> pending[i]]
    /\ task' = [task EXCEPT ![t] = NewTask("failed")]
    /\ net' = Unanswered(task[t].id)
    /\ Revoke

\* auth_lock is taken (a re-signed retry holds it already), the credentials
\* are cloned and the route is found to be live.
BeginRequest(t) ==
    /\ mode = "route" /\ task[t].pc = "begin" /\ route.serial < MaxId
    /\ Method(t) = "challenge" \/ lock \in {None, t}
    /\ IF Live
         THEN /\ lock' = IF Method(t) = "challenge" THEN lock ELSE t
              /\ task' = [task EXCEPT ![t].pc = "locked", ![t].id = route.serial + 1,
                                      ![t].used = creds]
              /\ route' = [route EXCEPT !.serial = @ + 1]
              /\ UNCHANGED <<pending, stopper, net>>
         ELSE Fail(t)
    /\ UNCHANGED <<mode, creds, reader, queue, consumer, server>>

\* The pending entry is inserted and the request sent for the first time.
SendRequest(t) ==
    /\ task[t].pc = "locked"
    /\ IF Cardinality(DOMAIN pending) >= MaxPending
         THEN Fail(t)
         ELSE /\ LET signed == Method(t) # "challenge" IN
                 /\ pending' = [i \in DOMAIN pending \union {task[t].id} |->
                                  IF i = task[t].id THEN signed ELSE pending[i]]
                 /\ net' = net \union {Request(task[t].id, Method(t), IF signed THEN task[t].used ELSE 0)}
              /\ task' = [task EXCEPT ![t].pc = "wait"]
              /\ UNCHANGED <<lock, route, stopper>>
    /\ UNCHANGED <<mode, creds, reader, queue, consumer, server>>

\* Where a successful response leads.
Succeeded(t) ==
    LET last == IF t = "main" THEN 4 ELSE 3
        next == [NewTask("begin") EXCEPT !.step = task[t].step + 1]
    IN CASE task[t].step < last -> next
         [] task[t].step = last -> [next EXCEPT !.pc = "update"]
         [] OTHER               -> NewTask("deleted")

\* replace_credentials: only the nonce the request was signed with is replaced.
ReplaceCredentials(used, nonce) == IF creds = used THEN nonce ELSE creds

\* require_success.
RequireSuccess(code) == code = 200

\* verify_authenticated_response and what the caller does with it.
TakeResponse(t) ==
    /\ mode = "route" /\ task[t].pc = "wait" /\ task[t].reply # {}
    /\ \E m \in task[t].reply :
         IF Method(t) = "challenge"
           THEN /\ creds' = m.nonce
                /\ task' = [task EXCEPT ![t] = Succeeded(t)]
                /\ UNCHANGED <<route, lock, pending, stopper, net>>
         ELSE IF m.code = 438 /\ ~task[t].retried
           THEN /\ creds' = ReplaceCredentials(task[t].used, m.nonce)
                /\ task' = [task EXCEPT ![t] = [@ EXCEPT !.pc = "begin", !.id = 0, !.reply = {},
                                                         !.retried = TRUE]]
                /\ UNCHANGED <<route, lock, pending, stopper, net>>
         ELSE IF RequireSuccess(m.code)
           THEN /\ task' = [task EXCEPT ![t] = Succeeded(t)]
                /\ lock' = None
                /\ UNCHANGED <<route, creds, pending, stopper, net>>
         ELSE Fail(t) /\ UNCHANGED creds
    /\ UNCHANGED <<mode, reader, queue, consumer, server>>

\* Faulty: the pending entry outlives its transaction.
GiveUpKeeps(t) ==
    /\ mode = "route" /\ task[t].pc = "wait" /\ task[t].reply = {}
    /\ "timeout" \in Faults \/ task[t].id \notin DOMAIN pending
    /\ task' = [task EXCEPT ![t] = NewTask("failed")]
    /\ lock' = None
    /\ Revoke
    /\ UNCHANGED <<mode, creds, pending, reader, queue, consumer, server, net>>

\* The attempts are used up, or stop_tasks dropped the sender.
GiveUp(t) ==
    /\ mode = "route" /\ task[t].pc = "wait" /\ task[t].reply = {}
    /\ "timeout" \in Faults \/ task[t].id \notin DOMAIN pending
    /\ Fail(t)
    /\ UNCHANGED <<mode, creds, reader, queue, consumer, server>>

-----------------------------------------------------------------------------
(* Establishment, refreshing, shutdown and drop. *)

\* The end of establish: the live state is installed and the refresh loop
\* spawned, unless the reader revoked the route meanwhile.
Install ==
    /\ task["main"].pc = "update"
    /\ IF route.revoked
         THEN Fail("main")
         ELSE /\ route' = [route EXCEPT !.generation = 1, !.expired = FALSE]
              /\ task' = [main |-> NewTask("live"), refresh |-> NewTask("sleep")]
              /\ UNCHANGED <<lock, pending, stopper, net>>
    /\ UNCHANGED <<mode, creds, reader, queue, consumer, server>>

\* The establishing future is dropped at one of its awaits.
CancelEstablish ==
    /\ "drop" \in Faults /\ mode = "route"
    /\ task["main"].pc \in {"begin", "wait"} /\ task["main"].step <= 4
    /\ Fail("main")
    /\ UNCHANGED <<mode, creds, reader, queue, consumer, server>>

\* The refresh timer fires, or the stop signal ends the loop.
RefreshWakes ==
    /\ task["refresh"].pc = "sleep" /\ route.generation < MaxGeneration
    /\ task' = [task EXCEPT !["refresh"] = NewTask(IF Live /\ ~route.stop THEN "begin" ELSE "done")]
    /\ UNCHANGED <<mode, route, creds, lock, pending, reader, queue, consumer, stopper,
                   server, net>>

\* Refresh, CreatePermission and ChannelBind succeeded: a new generation.
RefreshUpdates ==
    /\ task["refresh"].pc = "update"
    /\ route' = IF route.revoked THEN route
                ELSE [route EXCEPT !.generation = @ + 1, !.expired = FALSE]
    /\ task' = [task EXCEPT !["refresh"] = NewTask("sleep")]
    /\ UNCHANGED <<mode, creds, lock, pending, reader, queue, consumer, stopper, server, net>>

\* shutdown: Refresh(0) on a route that is not revoked, and stop_tasks.
Shutdown ==
    /\ mode = "route" /\ task["main"].pc = "live"
    /\ IF route.revoked
         THEN /\ task' = [task EXCEPT !["main"] = NewTask("done")]
              /\ Revoke
         ELSE /\ task' = [task EXCEPT !["main"] = [NewTask("begin") EXCEPT !.step = 5]]
              /\ UNCHANGED <<route, stopper>>
    /\ UNCHANGED <<mode, creds, lock, pending, reader, queue, consumer, server, net>>

Deleted ==
    /\ mode = "route" /\ task["main"].pc = "deleted"
    /\ task' = [task EXCEPT !["main"] = NewTask("done")]
    /\ Revoke
    /\ UNCHANGED <<mode, creds, lock, pending, reader, queue, consumer, server, net>>

\* The route is dropped: it is revoked and both workers are aborted, which
\* takes effect at an await of theirs.
DropRoute ==
    /\ "drop" \in Faults /\ task["main"].pc \in {"live", "done"}
    /\ task' = [task EXCEPT !["main"] = NewTask("dropped")]
    /\ Revoke
    /\ UNCHANGED <<mode, creds, lock, pending, reader, queue, consumer, server, net>>

AbortRefresh ==
    /\ task["main"].pc = "dropped" /\ task["refresh"].pc \in {"begin", "wait", "sleep"}
    /\ task' = [task EXCEPT !["refresh"] = NewTask("done")]
    /\ lock' = IF lock = "refresh" THEN None ELSE lock
    /\ pending' = [i \in DOMAIN pending \ {task["refresh"].id} |-> pending[i]]
    /\ net' = Unanswered(task["refresh"].id)
    /\ UNCHANGED <<mode, route, creds, reader, queue, consumer, stopper, server>>

-----------------------------------------------------------------------------
(* The reader and the QUIC driver. *)

\* What the reader hands over: the unsigned 401 of an Allocate only to the
\* unsigned transaction, any other response only with a valid integrity.
ResponseAccepted(m) ==
    /\ m.id \in DOMAIN pending
    /\ IF pending[m.id] THEN m.signed
       ELSE m.method = "Allocate" /\ m.code = 401 /\ ~m.signed

\* One datagram of the server: a payload of the bound channel or a response.
ReaderReceives ==
    /\ mode = "route" /\ reader.pc = "recv"
    /\ \E m \in net :
         /\ m.to \in {"client", "route"}
         /\ net' = IF m.to = "client" /\ ResponseAccepted(m) THEN Unanswered(m.id) ELSE net \ {m}
         /\ IF ~Live
              THEN /\ reader' = [reader EXCEPT !.pc = "dead"]
                   /\ Revoke
                   /\ UNCHANGED <<task, pending>>
            ELSE IF m.to = "route"
              THEN /\ reader' = [pc |-> "enqueue", payload |-> m.size]
                   /\ UNCHANGED <<route, stopper, task, pending>>
            ELSE /\ IF ResponseAccepted(m)
                      THEN /\ task' = [t \in Tasks |->
                                 IF task[t].id = m.id THEN [task[t] EXCEPT !.reply = {m}]
                                                      ELSE task[t]]
                           /\ pending' = [i \in DOMAIN pending \ {m.id} |-> pending[i]]
                      ELSE UNCHANGED <<task, pending>>
                 /\ UNCHANGED <<route, stopper, reader>>
    /\ UNCHANGED <<mode, creds, lock, queue, consumer, server>>

\* enqueue_payload: both mutexes are held; a full queue drops the payload.
EnqueuePayload ==
    /\ reader.pc = "enqueue"
    /\ reader' = [reader EXCEPT !.pc = "wake"]
    /\ queue' = IF Len(queue.items) < MaxQueue /\ queue.bytes + reader.payload <= MaxBytes
                  THEN [queue EXCEPT !.items = Append(@, reader.payload),
                                     !.bytes = @ + reader.payload]
                  ELSE queue
    /\ UNCHANGED <<mode, route, creds, lock, task, pending, consumer, stopper, server, net>>

WakeConsumer ==
    /\ reader.pc = "wake"
    /\ reader' = [pc |-> "recv", payload |-> 0]
    /\ TakeWaker
    /\ UNCHANGED <<mode, route, creds, lock, task, pending, stopper, server, net>>

ReaderStops ==
    /\ reader.pc = "recv" /\ route.stop
    /\ reader' = [reader EXCEPT !.pc = "dead"]
    /\ UNCHANGED <<mode, route, creds, lock, task, pending, queue, consumer, stopper,
                   server, net>>

Saturating(n) == IF n < 0 THEN 0 ELSE n

\* poll_recv: the live check, then the queue under its mutex.
PollChecks ==
    /\ mode = "route" /\ consumer.pc = "check" /\ route.generation >= 1 /\ MaxData > 0
    /\ consumer' = [pc |-> IF Live THEN "pop" ELSE "error", woken |-> FALSE]
    /\ UNCHANGED <<mode, route, creds, lock, task, pending, reader, queue, stopper, server, net>>

PollPops ==
    /\ consumer.pc = "pop"
    /\ IF queue.items = <<>>
         THEN /\ consumer' = [consumer EXCEPT !.pc = "register"]
              /\ UNCHANGED queue
         ELSE /\ consumer' = [consumer EXCEPT !.pc = "check"]
              /\ queue' = [queue EXCEPT !.items = Tail(@),
                                        !.bytes = Saturating(@ - Head(queue.items))]
    /\ UNCHANGED <<mode, route, creds, lock, task, pending, reader, stopper, server, net>>

PollRegisters ==
    /\ consumer.pc = "register"
    /\ queue' = [queue EXCEPT !.waker = TRUE]
    /\ consumer' = [consumer EXCEPT !.pc = "recheck"]
    /\ UNCHANGED <<mode, route, creds, lock, task, pending, reader, stopper, server, net>>

\* Faulty: the queue is not looked at again once the waker is registered.
PollParksBlindly ==
    /\ consumer.pc = "recheck"
    /\ consumer' = [consumer EXCEPT !.pc = "parked"]
    /\ UNCHANGED <<mode, route, creds, lock, task, pending, reader, queue, stopper, server, net>>

\* The second look: a payload that came meanwhile wakes the driver itself.
PollRechecks ==
    /\ consumer.pc = "recheck"
    /\ IF queue.items # <<>> /\ queue.waker
         THEN /\ queue' = [queue EXCEPT !.waker = FALSE]
              /\ consumer' = [pc |-> "parked", woken |-> TRUE]
         ELSE /\ consumer' = [consumer EXCEPT !.pc = "parked"]
              /\ UNCHANGED queue
    /\ UNCHANGED <<mode, route, creds, lock, task, pending, reader, stopper, server, net>>

PollAgain ==
    /\ consumer.pc = "parked" /\ consumer.woken
    /\ consumer' = [pc |-> "check", woken |-> FALSE]
    /\ UNCHANGED <<mode, route, creds, lock, task, pending, reader, queue, stopper, server, net>>

-----------------------------------------------------------------------------
(* The evidence client: one task, one socket, no retry after a stale nonce. *)

ProbeRequest ==
    /\ mode = "probe" /\ task["main"].pc = "begin"
    /\ task' = [task EXCEPT !["main"].pc = "wait", !["main"].id = route.serial + 1]
    /\ route' = [route EXCEPT !.serial = @ + 1]
    /\ net' = net \union {Request(route.serial + 1, Method("main"), creds)}
    /\ UNCHANGED <<mode, creds, lock, pending, reader, queue, consumer, stopper, server>>

\* require_response and verify_integrity.
ProbeAccepts(step, m) == IF step = 1 THEN m.code = 401 ELSE m.signed /\ m.code = 200

\* Where the client goes next; after Refresh(0) it reports only a complete exchange.
ProbeContinues(step, accepted) ==
    CASE ~accepted -> "failed"
      [] step < 4  -> "begin"
      [] step = 4  -> "send1"
      [] OTHER     -> IF task["main"].ok THEN "reported" ELSE "failed"

\* request takes the first response of its transaction.
ProbeResponse ==
    /\ mode = "probe" /\ task["main"].pc = "wait"
    /\ \E m \in net :
         /\ m.to = "client" /\ m.id = task["main"].id
         /\ net' = Unanswered(m.id)
         /\ LET step == task["main"].step
                good == ProbeAccepts(step, m)
            IN /\ creds' = IF step = 1 /\ good THEN m.nonce ELSE creds
               /\ task' = [task EXCEPT !["main"] =
                    [NewTask(ProbeContinues(step, good)) EXCEPT !.step = step + 1, !.ok = task["main"].ok]]
    /\ UNCHANGED <<mode, route, lock, pending, reader, queue, consumer, stopper, server>>

\* A Send indication and then ChannelData; whatever payload of the channel
\* comes next is compared with the one sent.
ProbePayload ==
    LET pc == task["main"].pc
        label == IF pc \in {"send1", "recv1"} THEN 1 ELSE 2
    IN
    /\ mode = "probe"
    /\ \/ /\ pc \in {"send1", "send2"}
          /\ net' = net \union {[to |-> "peer", label |-> label]}
          /\ task' = [task EXCEPT !["main"].pc = IF label = 1 THEN "recv1" ELSE "recv2"]
       \/ /\ pc \in {"recv1", "recv2"}
          /\ \E m \in net :
               /\ m.to = "probe"
               /\ net' = net \ {m}
               /\ task' = [task EXCEPT !["main"].pc = IF label = 1 THEN "send2" ELSE "begin",
                                       !["main"].ok = @ /\ m.label = label]
    /\ UNCHANGED <<mode, route, creds, lock, pending, reader, queue, consumer, stopper, server>>

\* The peer echoes what the relay hands it.
PeerEchoes ==
    /\ \E m \in net :
         /\ m.to = "peer" /\ server.alloc # 0 /\ Running
         /\ net' = net \union {[to |-> "probe", label |-> m.label]}
         /\ server' = [server EXCEPT !.echoed = @ \union {m.label}]
    /\ UNCHANGED <<mode, route, creds, lock, task, pending, reader, queue, consumer, stopper>>

ProbeTimesOut ==
    /\ "timeout" \in Faults /\ mode = "probe" /\ task["main"].pc \in {"wait", "recv1", "recv2"}
    /\ task' = [task EXCEPT !["main"] = NewTask("failed")]
    /\ UNCHANGED <<mode, route, creds, lock, pending, reader, queue, consumer, stopper, server, net>>

Next ==
    \/ Serve \/ RotateNonce \/ AllocationLost \/ PeerSends \/ Expire \/ StopTasks
    \/ \E t \in Tasks : BeginRequest(t) \/ SendRequest(t) \/ TakeResponse(t) \/ GiveUp(t)
    \/ Install \/ CancelEstablish \/ RefreshWakes \/ RefreshUpdates
    \/ Shutdown \/ Deleted \/ DropRoute \/ AbortRefresh
    \/ ReaderReceives \/ EnqueuePayload \/ WakeConsumer \/ ReaderStops
    \/ PollChecks \/ PollPops \/ PollRegisters \/ PollRechecks \/ PollAgain
    \/ ProbeRequest \/ ProbeResponse \/ ProbePayload \/ PeerEchoes \/ ProbeTimesOut

Spec == Init /\ [][Next]_vars

-----------------------------------------------------------------------------
GrantsOf(m) == {g \in server.granted : g[1] = m}

\* The route is usable only with the authority it needs: generation g was
\* reached after g permissions and g channel bindings were granted by the
\* server, one allocation and g - 1 refreshes, each under its own transaction,
\* whatever was repeated, reordered or refused on the way.
AuthorityRenewed ==
    route.generation >= 1 =>
        /\ GrantsOf("Allocate") # {}
        /\ Cardinality(GrantsOf("Refresh")) >= route.generation - 1
        /\ \A m \in {"CreatePermission", "ChannelBind"} :
             Cardinality(GrantsOf(m)) >= route.generation

\* No pending entry outlives the transaction that waits for it, and auth_lock
\* keeps them to one at a time, so the table never refuses a request.
PendingOwned ==
    /\ Cardinality(DOMAIN pending) <= 1
    /\ \A i \in DOMAIN pending : \E t \in Tasks :
          task[t].pc = "wait" /\ task[t].id = i /\ task[t].reply = {}

\* While the route is not revoked the byte count is that of the queue, and a
\* driver that parked without a wake-up has nothing to read: a payload queued
\* between its last look and its registration still wakes it.
ReceivePathSound ==
    ~route.revoked =>
        /\ queue.bytes = FoldLeft(+, 0, queue.items)
        /\ consumer.pc = "parked" /\ ~consumer.woken /\ queue.items # <<>>
             => reader.pc = "wake" /\ queue.waker

\* A report of the evidence client is earned: every transaction of it was
\* granted, both payloads went through the relay and the allocation was
\* deleted.
ReportEarned ==
    task["main"].pc = "reported" =>
        /\ \A m \in {"Allocate", "CreatePermission", "ChannelBind", "Delete"} : GrantsOf(m) # {}
        /\ server.echoed = {1, 2}

TurnClientInv == AuthorityRenewed /\ PendingOwned /\ ReceivePathSound /\ ReportEarned

=============================================================================
