------------------------------ MODULE IceProbe ------------------------------
(***************************************************************************)
(* The isolated connectivity probe: after a product session is active, the *)
(* client and the host each open a fresh UDP socket, exchange credentials  *)
(* and one candidate over the control lane, run connectivity checks on a   *)
(* blocking worker thread (run_ice_on_socket), meet at the Nominated and   *)
(* Ready barriers on the control lane, take the socket back from the       *)
(* worker (IceSocketWorker::handoff), give it to a second QUIC endpoint    *)
(* and exchange an authenticated echo on it.                               *)
(*                                                                         *)
(* A step of a worker is what it does between two reads of the shared      *)
(* flags or of the socket; a step of an application task is what it does   *)
(* between two awaits.  The connectivity-check agent and the network are   *)
(* external: a datagram may be lost, repeated or late, a deadline may pass *)
(* at any time, and a check of the controlling agent nominates the pair.   *)
(***************************************************************************)
EXTENDS Integers, Sequences, FiniteSets

CONSTANTS MaxIgnored,   \* MAX_ICE_IGNORED_DATAGRAMS
          MaxOutbound,  \* MAX_ICE_OUTBOUND_DATAGRAMS
          MaxInbound,   \* MAX_ICE_INBOUND_DATAGRAMS
          MaxDrain,     \* MAX_ICE_DRAIN_DATAGRAMS
          Addresses,    \* how a peer's own address looks to the other peer
          Faults        \* what the environment may do

VARIABLES cand,     \* cand[p]: the candidate p advertises
          agent,    \* agent[p]: the connectivity-check agent of p
          worker,   \* worker[p]: the thread that owns p's probe socket
          control,  \* control[p]: IceRunControl, shared by worker and task
          app,      \* app[p]: the task that runs the probe
          net,      \* datagrams of the probe sockets in flight
          lane,     \* lane[p]: control messages on their way to p
          session,  \* the product session: "open" or "closed"
          echo      \* the second QUIC connection

vars == <<cand, agent, worker, control, app, net, lane, session, echo>>

Peers == {"client", "host"}
Other(p) == IF p = "client" THEN "host" ELSE "client"

WorkerRuns == {"top", "recv", "handoff"}

Message(stage, cn, hn) == [stage |-> stage, client |-> cn, host |-> hn]

\* Ice::new.
NewAgent == [state |-> "checking", ever |-> FALSE, late |-> FALSE, answered |-> FALSE,
             chosen |-> FALSE, event |-> FALSE, out |-> {}]

\* The locals of run_ice_on_socket.
NewWorker(pc) == [pc |-> pc, nominated |-> FALSE, ignored |-> 0, inbound |-> 0, outbound |-> 0]

Init ==
    /\ \E ca \in Addresses, ha \in Addresses :
         cand = [p \in Peers |-> [kind |-> "host", family |-> 4, port |-> "probe",
                                  ip |-> IF p = "client" THEN ca ELSE ha]]
    /\ agent = [p \in Peers |-> NewAgent]
    /\ worker = [p \in Peers |-> NewWorker("none")]
    /\ control = [p \in Peers |-> [cancelled |-> FALSE, nominated |-> FALSE,
                                   handoff |-> FALSE]]
    /\ app = [p \in Peers |-> [pc |-> IF p = "client" THEN "offer" ELSE "recvOffer",
                               result |-> "none", client |-> "zero", host |-> "zero",
                               socket |-> "held"]]
    /\ net = {}
    /\ lane = [p \in Peers |-> <<>>]
    /\ session = "open"
    /\ echo = [state |-> "none", client |-> <<>>, host |-> <<>>]

-----------------------------------------------------------------------------
(* The worker thread. *)

\* Ice::expired.
Expired(p) == agent[p].late /\ ~agent[p].ever

\* The thread returns with its agent and its locals; every exit but the
\* handoff drops the socket.
Finish(p, how) ==
    /\ worker' = [worker EXCEPT ![p] = NewWorker(how)]
    /\ agent' = [agent EXCEPT ![p] = NewAgent]

At(p, pc) == worker[p].pc = pc

\* The head of the loop: the cancellation flag is read, Ice::advance refuses
\* an expired attempt and lets the agent queue a check, and everything queued
\* is sent; one datagram more than the bound ends the thread.  A connected
\* agent that hears nothing may report the pair as lost.
WorkerTop(p) ==
    /\ At(p, "top")
    /\ \/ /\ control[p].cancelled \/ Expired(p)
          /\ Finish(p, "failed")
          /\ UNCHANGED net
       \/ /\ ~control[p].cancelled /\ ~Expired(p)
          /\ \E check \in SUBSET {"check"}, s \in {agent[p].state, "disconnected"} :
               LET out == agent[p].out \union check
                   sent == worker[p].outbound + Cardinality(out)
               IN  /\ s # agent[p].state =>
                         "disconnect" \in Faults /\ agent[p].state = "connected"
                   /\ net' = net \union {[to |-> Other(p), kind |-> k] : k \in out}
                   /\ IF sent > MaxOutbound
                        THEN Finish(p, "failed")
                        ELSE /\ agent' = [agent EXCEPT ![p].out = {}, ![p].state = s]
                             /\ worker' = [worker EXCEPT ![p].outbound = sent, ![p].pc = "recv"]
    /\ UNCHANGED <<cand, control, app, lane, session, echo>>

\* IceAgent::handle_packet of the library: a check is answered and, from the
\* controlling side, chooses the pair; an answer makes the pair usable.
Handled(p, kind) ==
    LET a == agent[p]
        chosen == a.chosen \/ kind = "check" \/ p = "client"
        answered == a.answered \/ kind = "success"
    IN  [a EXCEPT !.out = @ \union IF kind = "check" THEN {"success"} ELSE {},
                  !.answered = answered,
                  !.chosen = chosen,
                  !.state = IF kind = "success" THEN "connected" ELSE @,
                  !.ever = @ \/ kind = "success",
                  !.event = @ \/ (answered /\ chosen /\ ~(a.answered /\ a.chosen))]

\* One recv_from of the loop.  A datagram that is not a check of this pair
\* (no fingerprint, another key, another destination) only counts.
WorkerReceive(p) ==
    LET over == worker[p].inbound + 1 > MaxInbound
    IN  /\ At(p, "recv")
        /\ \/ \E m \in net, kept \in BOOLEAN :
                /\ m.to = p
                /\ net' = IF kept THEN net ELSE net \ {m}
                /\ IF over \/ Expired(p)
                     THEN Finish(p, "failed")
                     ELSE /\ agent' = [agent EXCEPT ![p] = Handled(p, m.kind)]
                          /\ worker' = [worker EXCEPT ![p].inbound = @ + 1]
           \/ /\ "noise" \in Faults
              /\ IF over \/ worker[p].ignored + 1 > MaxIgnored
                   THEN Finish(p, "failed")
                   ELSE /\ worker' = [worker EXCEPT ![p].inbound = @ + 1, ![p].ignored = @ + 1]
                        /\ UNCHANGED agent
              /\ UNCHANGED net
        /\ UNCHANGED <<cand, control, app, lane, session, echo>>

\* A send or a receive the socket refuses.
WorkerBreaks(p) ==
    /\ "io" \in Faults /\ At(p, "recv")
    /\ Finish(p, "failed")
    /\ UNCHANGED <<cand, control, app, net, lane, session, echo>>

\* The socket is empty: poll_event until it is empty too; a nomination is kept
\* and published.
WorkerEvents(p) ==
    /\ At(p, "recv")
    /\ worker' = [worker EXCEPT ![p].pc = "handoff", ![p].nominated = @ \/ agent[p].event]
    /\ control' = [control EXCEPT ![p].nominated = @ \/ agent[p].event]
    /\ agent' = [agent EXCEPT ![p].event = FALSE]
    /\ UNCHANGED <<cand, app, net, lane, session, echo>>

\* The end of the loop: a requested handoff of a connected, nominated pair
\* drains what the socket has queued and returns the socket.
WorkerHandoff(p) ==
    LET ready == control[p].handoff /\ agent[p].state = "connected" /\ worker[p].nominated
        queued == {m \in net : m.to = p}
    IN  /\ At(p, "handoff")
        /\ \/ /\ ready
              /\ \E drained \in SUBSET queued :
                   /\ net' = net \ drained
                   /\ Finish(p, IF Cardinality(drained) >= MaxDrain THEN "failed" ELSE "ok")
           \/ /\ ~ready
              /\ IF Expired(p) THEN Finish(p, "failed")
                 ELSE worker' = [worker EXCEPT ![p].pc = "top"] /\ UNCHANGED agent
              /\ UNCHANGED net
        /\ UNCHANGED <<cand, control, app, lane, session, echo>>

\* The establishment deadline passes.
DeadlinePasses(p) ==
    /\ "late" \in Faults /\ ~agent[p].late
    /\ worker[p].pc \in WorkerRuns
    /\ agent' = [agent EXCEPT ![p].late = TRUE]
    /\ UNCHANGED <<cand, worker, control, app, net, lane, session, echo>>

-----------------------------------------------------------------------------
(* The two application tasks. *)

Goto(p, pc) == app' = [app EXCEPT ![p].pc = pc]

\* The probe of p is over; the caller goes on with the product session, the
\* host to stream and the client to look for a frame.
Ended(p, result, a) == [a EXCEPT !.pc = IF p = "client" THEN "resume" ELSE "streaming",
                                 !.result = result, !.socket = "dropped"]

\* An error leaves the task: the worker handle is cancelled, explicitly or by
\* its Drop, and a socket or a prepared endpoint it holds is dropped.
Abandon(p) ==
    /\ app' = [app EXCEPT ![p] = Ended(p, "failed", @)]
    /\ echo' = IF app[p].socket = "quic" THEN [echo EXCEPT !.state = "closed"] ELSE echo
    /\ control' = [control EXCEPT ![p].cancelled = TRUE]

\* send_control on the session; the lane is ordered and reliable.
SendControl(p, m) == lane' = [lane EXCEPT ![Other(p)] = Append(@, m)]

\* IceCandidate::from_protocol, from_probe_protocol and
\* probe_remote_from_exchange: one IPv4 host candidate at the address of the
\* authenticated peer, on another port than the session's.
ProbeRemote(c) == /\ c.kind = "host" /\ c.family = 4
                  /\ c.ip = "authenticated" /\ c.port # "session"

\* The client sends its credentials and its candidate.
ClientOffers ==
    /\ app["client"].pc = "offer" /\ session = "open"
    /\ SendControl("client", Message("Generation", "zero", "zero"))
    /\ Goto("client", "recvAnswer")
    /\ UNCHANGED <<cand, agent, worker, control, net, session, echo>>

HostReceivesOffer ==
    /\ app["host"].pc = "recvOffer" /\ lane["host"] # <<>>
    /\ lane' = [lane EXCEPT !["host"] = Tail(@)]
    /\ Goto("host", "answer")
    /\ UNCHANGED <<cand, agent, worker, control, net, session, echo>>

\* What both sides do with the peer's generation: an unsuitable candidate
\* closes the product session, a suitable one starts the worker.
Spawn(p) ==
    IF ProbeRemote(cand[Other(p)])
      THEN /\ app' = [app EXCEPT ![p].pc = "wait", ![p].socket = "worker"]
           /\ worker' = [worker EXCEPT ![p] = NewWorker("top")]
           /\ UNCHANGED <<control, session, echo>>
      ELSE /\ session' = "closed"
           /\ Abandon(p)
           /\ UNCHANGED worker

HostAnswers ==
    /\ app["host"].pc = "answer" /\ session = "open"
    /\ SendControl("host", Message("Generation", "zero", "zero"))
    /\ Spawn("host")
    /\ UNCHANGED <<cand, agent, net>>

ClientReceivesAnswer ==
    /\ app["client"].pc = "recvAnswer" /\ lane["client"] # <<>>
    /\ lane' = [lane EXCEPT !["client"] = Tail(@)]
    /\ Spawn("client")
    /\ UNCHANGED <<cand, agent, net>>

\* Faulty: the host asks for its socket as soon as its own agent nominated.
WaitNominatedAlone(p) ==
    /\ app[p].pc = "wait"
    /\ \/ /\ control[p].nominated
          /\ Goto(p, IF p = "client" THEN "sendNominated" ELSE "request")
          /\ UNCHANGED <<control, echo>>
       \/ /\ ~control[p].nominated
          /\ worker[p].pc \notin WorkerRuns \/ "timeout" \in Faults
          /\ Abandon(p)
    /\ UNCHANGED <<cand, agent, worker, net, lane, session>>

\* IceSocketWorker::wait_nominated: the flag is read before the end of the
\* thread, so a worker that was nominated and then failed is found out later.
WaitNominated(p) ==
    /\ app[p].pc = "wait"
    /\ \/ /\ control[p].nominated
          /\ Goto(p, IF p = "client" THEN "sendNominated" ELSE "recvNominated")
          /\ UNCHANGED <<control, echo>>
       \/ /\ ~control[p].nominated
          /\ worker[p].pc \notin WorkerRuns \/ "timeout" \in Faults
          /\ Abandon(p)
    /\ UNCHANGED <<cand, agent, worker, net, lane, session>>

\* The barrier messages a task sends, with the step that follows.
Sends(p) == IF p = "client"
              THEN [sendNominated |-> <<"ClientNominated", "recvNominated">>,
                    sendReady |-> <<"ClientReady", "recvReady">>,
                    sendAck |-> <<"ReadyAck", "connect">>]
              ELSE [sendNominated |-> <<"HostNominated", "request">>,
                    sendReady |-> <<"HostReady", "recvAck">>]

\* The barrier messages a task waits for, with the step that follows.
Receives(p) == IF p = "client"
                 THEN [recvNominated |-> <<"HostNominated", "request">>,
                       recvReady |-> <<"HostReady", "sendAck">>]
                 ELSE [recvNominated |-> <<"ClientNominated", "sendNominated">>,
                       recvReady |-> <<"ClientReady", "sendReady">>,
                       recvAck |-> <<"ReadyAck", "accept">>]

\* The nonces of the transcript so far; generate_control_nonce draws the
\* task's own one when its first message is built.
Nonces(p) == IF app[p].pc # "sendNominated" THEN <<app[p].client, app[p].host>>
             ELSE IF p = "client" THEN <<"cn", "zero">> ELSE <<app[p].client, "hn">>

\* send_ice_probe_barrier.
SendBarrier(p) ==
    /\ app[p].pc \in DOMAIN Sends(p) /\ session = "open"
    /\ LET step == Sends(p)[app[p].pc]
           n == Nonces(p)
       IN  /\ SendControl(p, Message(step[1], n[1], n[2]))
           /\ app' = [app EXCEPT ![p].pc = step[2], ![p].client = n[1], ![p].host = n[2]]
    /\ UNCHANGED <<cand, agent, worker, control, net, session, echo>>

\* The comparisons of receive_ice_probe_barrier: the first message of the
\* peer brings its nonce, every later one repeats both.
Bound(p, m) ==
    /\ m.stage = Receives(p)[app[p].pc][1]
    /\ IF app[p].pc = "recvNominated"
         THEN IF p = "client" THEN m.client = app[p].client ELSE m.host = "zero"
         ELSE m.client = app[p].client /\ m.host = app[p].host

\* receive_ice_probe_barrier: a message that does not belong to the
\* transcript closes the product session.
ReceiveBarrier(p) ==
    /\ app[p].pc \in DOMAIN Receives(p) /\ lane[p] # <<>>
    /\ LET m == Head(lane[p])
       IN  IF Bound(p, m)
             THEN /\ app' = [app EXCEPT ![p].pc = Receives(p)[@][2],
                                        ![p].client = m.client, ![p].host = m.host]
                  /\ UNCHANGED <<control, session, echo>>
             ELSE session' = "closed" /\ Abandon(p)
    /\ lane' = [lane EXCEPT ![p] = Tail(@)]
    /\ UNCHANGED <<cand, agent, worker, net>>

\* A read of the control lane that fails or whose time is up: the dropped
\* future (FailClosedControlRead) closes the product session.
ReadBreaks(p) ==
    /\ app[p].pc \in DOMAIN Receives(p) \union {"recvOffer", "recvAnswer"}
    /\ session = "closed" \/ "timeout" \in Faults
    /\ session' = "closed"
    /\ Abandon(p)
    /\ UNCHANGED <<cand, agent, worker, net, lane>>

\* A send on a session that is closed.
SendBreaks(p) ==
    /\ app[p].pc \in DOMAIN Sends(p) \union {"offer", "answer"}
    /\ session = "closed"
    /\ Abandon(p)
    /\ UNCHANGED <<cand, agent, worker, net, lane, session>>

\* IceSocketWorker::handoff sets the flag, then joins the thread.
RequestHandoff(p) ==
    /\ app[p].pc = "request"
    /\ control' = [control EXCEPT ![p].handoff = TRUE]
    /\ Goto(p, "join")
    /\ UNCHANGED <<cand, agent, worker, net, lane, session, echo>>

\* PreparedIceProbeServer::prepare: the host's endpoint, on the socket the
\* worker returned.
Prepared(p) == IF p = "host" THEN [echo EXCEPT !.state = "listening"] ELSE echo

\* Faulty: a handoff that takes too long forgets the thread.
JoinWorkerForgets(p) ==
    /\ app[p].pc = "join"
    /\ \/ /\ worker[p].pc = "ok"
          /\ app' = [app EXCEPT ![p].pc = IF p = "client" THEN "sendReady" ELSE "recvReady",
                                ![p].socket = IF p = "client" THEN "held" ELSE "quic"]
          /\ echo' = Prepared(p)
       \/ /\ worker[p].pc = "failed" \/ "timeout" \in Faults
          /\ app' = [app EXCEPT ![p] = Ended(p, "failed", @)]
          /\ UNCHANGED echo
    /\ UNCHANGED <<cand, agent, worker, control, net, lane, session>>

\* The thread ended or the time for it is up.  The handle is consumed either
\* way and its Drop sets the cancellation flag.  The host goes on to prepare
\* its endpoint on the socket.
JoinWorker(p) ==
    /\ app[p].pc = "join"
    /\ control' = [control EXCEPT ![p].cancelled = TRUE]
    /\ \/ /\ worker[p].pc = "ok"
          /\ app' = [app EXCEPT ![p].pc = IF p = "client" THEN "sendReady" ELSE "recvReady",
                                ![p].socket = IF p = "client" THEN "held" ELSE "quic"]
          /\ echo' = Prepared(p)
       \/ /\ worker[p].pc = "failed" \/ "timeout" \in Faults
          /\ app' = [app EXCEPT ![p] = Ended(p, "failed", @)]
          /\ UNCHANGED echo
    /\ UNCHANGED <<cand, agent, worker, net, lane, session>>

-----------------------------------------------------------------------------
(* The echo on the second connection. *)

\* What the probe's own connection carries is reliable and ordered.
EchoSend(p, stage) == echo' = [echo EXCEPT ![Other(p)] = Append(@, Message(stage, app[p].client, app[p].host)),
                                           ![p] = IF @ = <<>> THEN @ ELSE Tail(@),
                                           !.state = "open"]

\* Stage, stamp, generation, nonces and challenge are those of the task's own
\* transcript.
EchoBound(p, stage) ==
    /\ echo[p] # <<>>
    /\ Head(echo[p]) = Message(stage, app[p].client, app[p].host)

\* connect_echo: the client takes the socket to its own endpoint, connects to
\* the nominated address and sends the request.
ClientConnects ==
    /\ app["client"].pc = "connect" /\ echo.state = "listening"
    /\ EchoSend("client", "EchoRequest")
    /\ app' = [app EXCEPT !["client"].pc = "recvResponse", !["client"].socket = "quic"]
    /\ UNCHANGED <<cand, agent, worker, control, net, lane, session>>

\* accept_echo_inner, up to the response.
HostEchoes ==
    /\ app["host"].pc = "accept"
    /\ EchoBound("host", "EchoRequest")
    /\ EchoSend("host", "EchoResponse")
    /\ Goto("host", "recvComplete")
    /\ UNCHANGED <<cand, agent, worker, control, net, lane, session>>

ClientCompletes ==
    /\ app["client"].pc = "recvResponse"
    /\ EchoBound("client", "EchoResponse")
    /\ EchoSend("client", "Complete")
    /\ Goto("client", "recvFinal")
    /\ UNCHANGED <<cand, agent, worker, control, net, lane, session>>

HostCompletes ==
    /\ app["host"].pc = "recvComplete"
    /\ EchoBound("host", "Complete")
    /\ EchoSend("host", "Complete")
    /\ Goto("host", "closing")
    /\ UNCHANGED <<cand, agent, worker, control, net, lane, session>>

\* The client reports success and closes the connection; the host, which
\* waits for any close, does so afterwards.
ClientReports ==
    /\ app["client"].pc = "recvFinal"
    /\ EchoBound("client", "Complete")
    /\ echo' = [echo EXCEPT !.state = "closed"]
    /\ app' = [app EXCEPT !["client"] = Ended("client", "ok", @)]
    /\ UNCHANGED <<cand, agent, worker, control, net, lane, session>>

HostReports ==
    /\ app["host"].pc = "closing" /\ echo.state = "closed"
    /\ app' = [app EXCEPT !["host"] = Ended("host", "ok", @)]
    /\ UNCHANGED <<cand, agent, worker, control, net, lane, session, echo>>

\* The connection is gone, or the time for the echo or for the endpoint's
\* clean-up is over.  The product session is not touched.
EchoBreaks(p) ==
    /\ app[p].pc \in {"connect", "recvResponse", "recvFinal", "accept", "recvComplete", "closing"}
    /\ \/ "timeout" \in Faults
       \/ echo.state = "closed" /\ app[p].pc # "closing"
    /\ app' = [app EXCEPT ![p] = Ended(p, "failed", @)]
    /\ echo' = IF app[p].socket = "quic" THEN [echo EXCEPT !.state = "closed"] ELSE echo
    /\ UNCHANGED <<cand, agent, worker, control, net, lane, session>>

\* After the probe the client waits for a frame of the product session and
\* releases the input: the frame comes once the host streams.
ClientResumes ==
    /\ app["client"].pc = "resume"
    /\ \/ session = "open" /\ app["host"].pc = "streaming" /\ Goto("client", "done")
       \/ session = "closed" /\ Goto("client", "broken")
    /\ UNCHANGED <<cand, agent, worker, control, net, lane, session, echo>>

WorkerStep(p) == \/ WorkerTop(p) \/ WorkerReceive(p) \/ WorkerBreaks(p)
                 \/ WorkerEvents(p) \/ WorkerHandoff(p)

TaskStep(p) == \/ WaitNominated(p) \/ SendBarrier(p) \/ ReceiveBarrier(p)
               \/ ReadBreaks(p) \/ SendBreaks(p)
               \/ RequestHandoff(p) \/ JoinWorker(p) \/ EchoBreaks(p)

Next ==
    \/ \E p \in Peers : WorkerStep(p) \/ TaskStep(p) \/ DeadlinePasses(p)
    \/ ClientOffers \/ HostReceivesOffer \/ HostAnswers \/ ClientReceivesAnswer
    \/ ClientConnects \/ HostEchoes \/ ClientCompletes \/ HostCompletes
    \/ ClientReports \/ HostReports \/ ClientResumes

Spec == Init /\ [][Next]_vars

-----------------------------------------------------------------------------
(* What the probe promises. *)

\* A worker gives its socket up only when both sides have nominated the pair:
\* the two barriers keep each raw runner answering checks until then.
BarrierHolds ==
    \A p \in Peers : worker[p].pc = "ok" => \A q \in Peers : control[q].nominated

\* A task that is through with the probe leaves no thread behind that will not
\* stop at the head of its loop, and a QUIC endpoint is opened only on a socket
\* whose thread has returned it.
SocketsSequential ==
    \A p \in Peers :
       /\ app[p].result # "none" /\ worker[p].pc \in WorkerRuns => control[p].cancelled
       /\ app[p].socket = "quic" => worker[p].pc = "ok"

\* The client reports success only for an echo whose completion the host has
\* seen, the host only after the client has checked its response, and both over
\* the same two nonces.
EchoAgrees ==
    /\ app["client"].result = "ok" =>
          /\ app["host"].pc = "closing" \/ app["host"].result # "none"
          /\ app["host"].client = app["client"].client
          /\ app["host"].host = app["client"].host
          /\ app["client"].client # "zero" /\ app["client"].host # "zero"
    /\ app["host"].result = "ok" =>
          /\ app["client"].result # "none"
          /\ app["host"].client = app["client"].client
          /\ app["host"].host = app["client"].host

ProbeInv == BarrierHolds /\ SocketsSequential /\ EchoAgrees

=============================================================================
