---------------------------- MODULE SecureSessions ----------------------------
(***************************************************************************)
(* The secure Linux Host's listener (apps/host/src/secure.rs) and the        *)
(* headless Client's successor sequence (apps/client/src/secure.rs), over    *)
(* connections that can be lost at any point.                                *)
(*                                                                         *)
(* The Host serves sessions one after another; in each of them the media     *)
(* loop and the input worker run side by side and end separately.  The       *)
(* Client runs a fixed number of sessions and, when a path is lost,          *)
(* reconnects under a policy.  The four lifecycle epochs of a stamp advance  *)
(* together and are one number; the session identifier is random.            *)
(***************************************************************************)
EXTENDS Integers, TLAPS

CONSTANTS
  Ids,            \* random session identifiers
  MaxSessions,    \* Host: --max-sessions
  SessionCount,   \* Client: sessions to complete
  MaxReconnects,  \* Client: --reconnect-attempts
  Budget,         \* Client: total reconnect time
  MaxRestarts,    \* bound: times the Host program is started again
  Faults          \* subset of {"loss", "provider", "input", "limit", "shutdown"}

ASSUME SecureAssumption ==
  /\ MaxSessions \in Nat \ {0} /\ SessionCount \in Nat \ {0}
  /\ MaxReconnects \in Nat /\ Budget \in Nat /\ MaxRestarts \in Nat

VARIABLES host, client, conns, restarts

vars == <<host, client, conns, restarts>>

Sides == {"host", "client"}
Other(side) == IF side = "host" THEN "client" ELSE "host"
NoStamp == [id |-> 0, epoch |-> 0]

\* Every session and every reconnect attempt opens at most one connection.
MaxConns == SessionCount + MaxReconnects
Conns == 1 .. MaxConns

\* A connection: the records that crossed it, the close each side has been sent
\* and what each side has noticed of its end.
NewConn ==
  [up |-> TRUE, offer |-> NoStamp, caps |-> FALSE, config |-> FALSE, frame |-> FALSE,
   sent |-> [s \in Sides |-> "none"], fate |-> [s \in Sides |-> "open"]]

NewHost(epoch, ended) ==
  [phase |-> "Accepting", conn |-> 0, stamp |-> NoStamp, next |-> epoch, ended |-> ended,
   stream |-> "running", worker |-> "none", result |-> "none", status |-> "none",
   observed |-> FALSE, held |-> FALSE, last |-> "none"]

Init ==
  /\ host = NewHost(1, 0)
  /\ client = [phase |-> "Connecting", mode |-> "first", conn |-> 0, opened |-> 0,
               stamp |-> NoStamp, completed |-> 0, attempts |-> 0, armed |-> FALSE, spent |-> 0]
  /\ conns = [n \in Conns |-> NewConn]
  /\ restarts = 0

-------------------------------------------------------------------------------
(* The connection.                                                            *)

Fate(side, n) == IF n = 0 THEN "open" ELSE conns[n].fate[side]
HostFate == Fate("host", host.conn)
ClientFate == Fate("client", client.conn)

\* A side closes the connection; the other side notices if the path is up.
Closed(c, side, code) ==
  [c EXCEPT !.fate[side] = IF @ = "open" THEN "local" ELSE @,
            !.sent[Other(side)] = IF c.up /\ @ = "none" /\ c.fate[side] = "open" THEN code ELSE @]

CloseConn(side, n, code) ==
  conns' = IF n = 0 THEN conns ELSE [conns EXCEPT ![n] = Closed(@, side, code)]

\* The path dies ...
LosePath(n) ==
  /\ "loss" \in Faults
  /\ conns[n].up /\ n <= client.opened
  /\ \E s \in Sides : conns[n].fate[s] = "open"
  /\ conns' = [conns EXCEPT ![n].up = FALSE]
  /\ UNCHANGED <<host, client, restarts>>

\* ... and each side that is still open runs into its idle timeout later.  So
\* does a side whose peer closed with a packet that was lost.
NoticeLoss(side, n) ==
  /\ ~conns[n].up \/ ("loss" \in Faults /\ conns[n].sent[side] # "none")
  /\ conns[n].fate[side] = "open"
  /\ conns' = [conns EXCEPT ![n].fate[side] = "lost"]
  /\ UNCHANGED <<host, client, restarts>>

NoticeClose(side, n) ==
  /\ conns[n].sent[side] # "none" /\ conns[n].fate[side] = "open"
  /\ conns' = [conns EXCEPT ![n].fate[side] = conns[n].sent[side]]
  /\ UNCHANGED <<host, client, restarts>>

-------------------------------------------------------------------------------
(* The Host.                                                                  *)

\* Any error of `run` closes the endpoint, with it the connection, and ends it.
HostFails ==
  /\ host' = [host EXCEPT !.phase = "Failed"]
  /\ CloseConn("host", host.conn, "error")
  /\ UNCHANGED <<client, restarts>>

\* accept_exact_peer_with_timeout meets the Client's connection attempt.
Accept ==
  /\ host.phase = "Accepting" /\ client.phase = "Connecting" /\ client.opened < MaxConns
  /\ LET n == client.opened + 1 IN
     /\ host' = [host EXCEPT !.phase = "Activating", !.conn = n]
     /\ client' = [client EXCEPT !.phase = "Handshaking", !.conn = n, !.opened = n]
  /\ UNCHANGED <<conns, restarts>>

\* Faulty: the listener waits for a peer without a deadline.
PairingUntimed == FALSE

\* Nobody authenticates before the pairing deadline.
PairingTimeout == host.phase = "Accepting" /\ HostFails

\* ProductStampAllocator::allocate
Allocated(id) == [id |-> id, epoch |-> host.next]

\* The providers open, the stamp is allocated and host_with_stamp publishes it.
Activate(id) ==
  /\ host.phase = "Activating" /\ HostFate = "open"
  /\ host' = [host EXCEPT !.phase = "Negotiating", !.stamp = Allocated(id), !.next = @ + 1]
  /\ conns' = [conns EXCEPT ![host.conn].offer = IF conns[host.conn].up THEN Allocated(id) ELSE @]
  /\ UNCHANGED <<client, restarts>>

ActivateFails ==
  /\ host.phase = "Activating"
  /\ HostFate # "open" \/ "provider" \in Faults
  /\ HostFails

\* The Client's capabilities arrive, the configuration is sent and the input
\* worker is spawned.
Negotiate ==
  /\ host.phase = "Negotiating" /\ conns[host.conn].caps /\ HostFate = "open"
  /\ host' = [host EXCEPT !.phase = "Streaming", !.stream = "running", !.worker = "opening",
                          !.result = "none", !.status = "none", !.observed = FALSE]
  /\ conns' = [conns EXCEPT ![host.conn].config = conns[host.conn].up]
  /\ UNCHANGED <<client, restarts>>

\* The capabilities are late, the connection is gone, or no encoder opens.
NegotiateFails ==
  /\ host.phase = "Negotiating"
  /\ HostFate # "open" \/ ~conns[host.conn].caps \/ "provider" \in Faults
  /\ HostFails

\* The input worker opens its provider; when that fails it reports and ends.
WorkerOpens(ok) ==
  /\ host.worker = "opening"
  /\ ok \/ "provider" \in Faults
  /\ host' = IF ok THEN [host EXCEPT !.worker = "working"]
             ELSE [host EXCEPT !.worker = "ended", !.result = "fatal", !.status = "fatal"]
  /\ UNCHANGED <<client, conns, restarts>>

\* One input record: what it presses is held.  An injection may fail, and the
\* record may ask for an acknowledgement, which is sent before the failure is
\* looked at.
WorkerInput(presses, ok, ack) ==
  /\ "input" \in Faults
  /\ host.worker = "working" /\ conns[host.conn].up /\ HostFate = "open"
  /\ host.phase # "Joining"
  /\ host' = [host EXCEPT !.held = presses, !.result = IF ok THEN @ ELSE "fatal",
                          !.worker = IF ack THEN "acking" ELSE IF ok THEN "working" ELSE "releasing"]
  /\ UNCHANGED <<client, conns, restarts>>

\* The acknowledgement is sent, or fails with the connection; the worker does not
\* listen to the stop signal meanwhile.
WorkerAcks ==
  /\ host.worker = "acking"
  /\ host' = CASE HostFate = "open" ->
                    [host EXCEPT !.worker = IF host.result = "fatal" THEN "releasing" ELSE "working"]
               [] HostFate = "lost" -> [host EXCEPT !.worker = "releasing", !.result = "lost"]
               [] OTHER -> [host EXCEPT !.worker = "releasing", !.result = "fatal"]
  /\ UNCHANGED <<client, conns, restarts>>

\* What the end of a connection means to the input worker.
WorkerEnd(fate) ==
  CASE fate = "clean" -> "ok" [] fate = "lost" -> "lost" [] OTHER -> "fatal"

\* The worker stops: told so by the media loop, which it heeds first, or because
\* the connection ended.
WorkerStops ==
  /\ host.worker = "working"
  /\ host.phase = "Joining" \/ HostFate # "open"
  /\ host' = [host EXCEPT !.worker = "releasing",
                          !.result = IF host.phase = "Joining" THEN "ok" ELSE WorkerEnd(HostFate)]
  /\ UNCHANGED <<client, conns, restarts>>

\* Faulty: a peer that was lost hides that its input could not be released.
MergedLost(result, ok) == IF ok \/ result = "lost" THEN result ELSE "fatal"

\* merge_input_worker_results
Merged(result, ok) == IF ok THEN result ELSE "fatal"

\* release_all on every terminal path, and only then the lifecycle status.
WorkerReleases(ok) ==
  /\ host.worker = "releasing"
  /\ ok \/ ("input" \in Faults /\ host.held)
  /\ host' = [host EXCEPT !.worker = "ended", !.held = @ /\ ~ok,
                          !.result = Merged(host.result, ok),
                          !.status = Merged(host.result, ok)]
  /\ UNCHANGED <<client, conns, restarts>>

Streaming == host.phase = "Streaming"

\* stream_desktop returns ...
StreamEnds(end, observed) ==
  host' = [host EXCEPT !.phase = "Stopping", !.stream = end, !.observed = observed]

\* ... and the worker, which runs on another thread, is told to stop.
Stop ==
  /\ host.phase = "Stopping"
  /\ host' = [host EXCEPT !.phase = "Joining"]
  /\ UNCHANGED <<client, conns, restarts>>

Shutdown ==
  /\ "shutdown" \in Faults /\ Streaming
  /\ StreamEnds("HostShutdown", FALSE)
  /\ UNCHANGED <<client, conns, restarts>>

\* The media loop receives the worker's status.
StreamStatus ==
  /\ Streaming /\ host.status # "none"
  /\ StreamEnds(CASE host.status = "ok" -> "PeerCompleted" [] host.status = "lost" -> "PeerLost"
                  [] OTHER -> "error", host.status # "ok")
  /\ UNCHANGED <<client, conns, restarts>>

\* One media tick: a frame is captured, encoded and sent; the limit may be reached.
StreamFrame ==
  /\ Streaming /\ HostFate = "open"
  /\ conns' = [conns EXCEPT ![host.conn].frame = @ \/ conns[host.conn].up]
  /\ \/ UNCHANGED host
     \/ "limit" \in Faults /\ StreamEnds("FrameLimit", FALSE)
  /\ UNCHANGED <<client, restarts>>

\* Sending finds the connection ended, or the capture or the encoder fails.
StreamBroken ==
  /\ Streaming
  /\ \/ HostFate # "open"
        /\ StreamEnds(CASE HostFate = "clean" -> "PeerCompleted" [] HostFate = "lost" -> "PeerLost"
                        [] OTHER -> "error", FALSE)
     \/ "provider" \in Faults /\ StreamEnds("error", FALSE)
  /\ UNCHANGED <<client, conns, restarts>>

\* The worker's result may be left aside when the media loop has seen it, or has
\* seen the same loss itself.
WorkerAccounted ==
  \/ host.result = "ok" \/ host.observed
  \/ host.stream = "PeerLost" /\ host.result = "lost"   \* input_failure_is_redundant

Ended == host.ended + 1

\* listener_decision
Decision(end, ended) ==
  CASE end = "HostShutdown" -> "Done"
    [] ended < MaxSessions -> "Accepting"
    [] end = "PeerLost" -> "Failed"
    [] OTHER -> "Done"

\* The input worker's task has finished.
Joined == host.worker = "ended"

\* The session's results are merged, the session is closed and the listener goes
\* on or ends.
Join ==
  /\ host.phase = "Joining" /\ Joined
  /\ IF host.stream = "error" \/ ~WorkerAccounted THEN HostFails
     ELSE LET phase == Decision(host.stream, Ended) IN
          /\ host' = [host EXCEPT !.phase = phase, !.ended = Ended, !.last = host.stream,
                                  !.worker = "none", !.conn = IF phase = "Accepting" THEN 0 ELSE @]
          /\ IF host.stream = "PeerLost" /\ phase = "Accepting" THEN UNCHANGED conns
             ELSE CloseConn("host", host.conn, IF phase = "Failed" THEN "error" ELSE "clean")
          /\ UNCHANGED <<client, restarts>>

\* The operator starts the Host program again: the allocator starts over.
HostRestart ==
  /\ host.phase \in {"Done", "Failed"} /\ restarts < MaxRestarts
  /\ host' = NewHost(1, 0)
  /\ restarts' = restarts + 1
  /\ UNCHANGED <<client, conns>>

-------------------------------------------------------------------------------
(* The Client.                                                                *)

\* Dropping or closing the endpoint closes the connection with code 0; a session
\* that failed was closed with code 1 before.
ClientEnds(phase, code) ==
  /\ client' = [client EXCEPT !.phase = phase]
  /\ CloseConn("client", client.conn, code)

\* establish_product_session fails: by its deadline or the loss of the path,
\* which may be retried, or for another reason, which may not.  The first
\* session and a successor after a clean one are never retried.
EstablishFails(retryable) ==
  /\ client.phase \in {"Connecting", "Handshaking"}
  /\ client.phase = "Handshaking" /\ ClientFate \in {"clean", "error"} => ~retryable
  /\ ClientEnds(IF retryable /\ client.mode = "recovering" THEN "Claiming" ELSE "Failed", "clean")
  /\ UNCHANGED <<host, restarts>>

\* Faulty: any other session identifier is a successor.
SucceedsById(stamp, previous) == stamp.id # previous.id

\* The checks of client_successor.
Succeeds(stamp, previous) == stamp.id # previous.id /\ stamp.epoch > previous.epoch

Handshake ==
  LET stamp == conns[client.conn].offer IN
  /\ client.phase = "Handshaking" /\ ClientFate = "open" /\ stamp # NoStamp
  /\ IF client.mode = "first" \/ Succeeds(stamp, client.stamp)
     THEN client' = [client EXCEPT !.phase = "Offering", !.stamp = stamp] /\ UNCHANGED conns
     ELSE ClientEnds("Failed", "error")
  /\ UNCHANGED <<host, restarts>>

RunPhases == {"Offering", "Configuring", "Receiving", "Finishing"}

\* run_headless: send the capabilities, await the configuration, receive frames,
\* send ReleaseAll.
RunStep ==
  LET n == client.conn IN
  /\ ClientFate = "open"
  /\ \/ /\ client.phase = "Offering"
        /\ conns' = [conns EXCEPT ![n].caps = conns[n].up]
        /\ client' = [client EXCEPT !.phase = "Configuring"]
     \/ /\ client.phase = "Configuring" /\ conns[n].config
        /\ client' = [client EXCEPT !.phase = "Receiving"] /\ UNCHANGED conns
     \/ /\ client.phase = "Receiving" /\ conns[n].frame
        /\ client' = [client EXCEPT !.phase = "Finishing"] /\ UNCHANGED conns
  /\ UNCHANGED <<host, restarts>>

\* The session completes: the next one is established, or the run is done.
Complete ==
  /\ client.phase = "Finishing" /\ ClientFate = "open"
  /\ client' = [client EXCEPT !.completed = @ + 1, !.mode = "successor",
                              !.phase = IF client.completed + 1 >= SessionCount
                                        THEN "Done" ELSE "Connecting"]
  /\ CloseConn("client", client.conn, "clean")
  /\ UNCHANGED <<host, restarts>>

\* is_retryable_session_run_error: only a lost path.
Retryable == ClientFate = "lost"

\* The run fails: the connection ended or an operation timed out.
RunFails ==
  /\ client.phase \in RunPhases
  /\ IF Retryable
     THEN /\ client' = [client EXCEPT !.phase = "Claiming", !.mode = "recovering", !.armed = TRUE]
          /\ CloseConn("client", client.conn, "error")
     ELSE ClientEnds("Failed", "error")
  /\ UNCHANGED <<host, restarts>>

\* RECONNECT_BASE_DELAY_MILLIS, in units of the shortest delay
BaseDelays == <<1, 2, 4, 8, 16>>

\* ReconnectPolicy::delay_for, without jitter
Delay(attempt) == BaseDelays[IF attempt > 5 THEN 5 ELSE attempt]

\* claim_reconnect_delay, the check of the total deadline, and the wait
Claim ==
  LET attempt == client.attempts + 1
      inTime  == Budget - client.spent > Delay(attempt)
  IN
  /\ client.phase = "Claiming"
  /\ client' = IF attempt > MaxReconnects THEN [client EXCEPT !.phase = "Failed"]
               ELSE [client EXCEPT !.attempts = attempt,
                                   !.phase = IF inTime THEN "Connecting" ELSE "Failed",
                                   !.spent = IF inTime THEN @ + Delay(attempt) ELSE @]
  /\ UNCHANGED <<host, conns, restarts>>

\* Time passes; the deadline was fixed at the first loss.
Tick ==
  /\ client.armed /\ client.spent < Budget
  /\ client' = [client EXCEPT !.spent = @ + 1]
  /\ UNCHANGED <<host, conns, restarts>>

-------------------------------------------------------------------------------
Network ==
  \E n \in Conns : LosePath(n) \/ \E side \in Sides : NoticeLoss(side, n) \/ NoticeClose(side, n)

Notices == \E n \in Conns, side \in Sides : NoticeLoss(side, n) \/ NoticeClose(side, n)

ListenerStep ==
  \/ PairingTimeout \/ ActivateFails \/ Negotiate \/ NegotiateFails \/ Stop \/ Join
  \/ \E id \in Ids : Activate(id)

MediaStep == Shutdown \/ StreamStatus \/ StreamFrame \/ StreamBroken

WorkerStep ==
  \/ \E ok \in BOOLEAN : WorkerOpens(ok) \/ WorkerReleases(ok)
  \/ \E presses, ok, ack \in BOOLEAN : WorkerInput(presses, ok, ack)
  \/ WorkerAcks \/ WorkerStops

ClientStep ==
  \/ \E retryable \in BOOLEAN : EstablishFails(retryable)
  \/ Handshake \/ RunStep \/ Complete \/ RunFails \/ Claim

Next == Network \/ Accept \/ ListenerStep \/ MediaStep \/ WorkerStep \/ HostRestart \/ ClientStep \/ Tick

Spec == Init /\ [][Next]_vars

-------------------------------------------------------------------------------
Stamps == [id : Ids \cup {0}, epoch : 0 .. MaxConns]

SecureTypeOK ==
  /\ host.phase \in {"Accepting", "Activating", "Negotiating", "Streaming", "Stopping",
                     "Joining", "Done", "Failed"}
  /\ client.phase \in {"Connecting", "Handshaking", "Claiming", "Done", "Failed"} \cup RunPhases
  /\ host.stamp \in Stamps /\ client.stamp \in Stamps /\ host.next \in 1 .. MaxConns + 1
  /\ host.ended \in 0 .. MaxSessions /\ client.completed \in 0 .. SessionCount
  /\ client.opened \in 0 .. MaxConns /\ client.spent \in 0 .. Budget
  /\ \A n \in Conns, s \in Sides : conns[n].fate[s] \in {"open", "local", "lost", "clean", "error"}

\* "ReleaseAll completes before the listener accepts the successor": outside a
\* session the Host holds no input, however the session ended and whichever of
\* media loop and input worker noticed first.
ReleasedBetweenSessions ==
  host.phase \in {"Accepting", "Activating", "Negotiating", "Done"} => ~host.held /\ host.worker = "none"

\* An input worker whose last word is a failure, above all that it could not
\* release what is held, ends the Host with an error: a session that counts as
\* ended had no such failure, whatever the media loop saw.
FailureNeverHidden ==
  host.phase \in {"Accepting", "Done"} /\ host.last # "none" => host.result # "fatal"

\* Stamps only go up along the Client's sessions, also when the Host was started
\* again in between and its allocator began anew; and only a lost path is retried:
\* everything else ends the Client.
StampsRise ==
  /\ client'.stamp # client.stamp => client'.stamp.epoch > client.stamp.epoch
  /\ client'.phase = "Claiming" /\ client.phase \in RunPhases => ClientFate = "lost"

\* The Host's success is no false one: its last session was not lost, and it
\* ended all its sessions unless it was shut down.
HostSuccessHonest ==
  host.phase = "Done" => host.last # "PeerLost" /\ (host.last = "HostShutdown" \/ host.ended = MaxSessions)

\* Reconnects are bounded over the whole run: a connection is either one for a
\* session in sequence or one of at most MaxReconnects claimed attempts.
ReconnectsBounded ==
  /\ client.attempts <= MaxReconnects
  /\ client.opened <= client.completed + 1 + client.attempts
  /\ client.phase = "Done" => client.completed = SessionCount

\* A session ends with its input released, no failure hidden and no success claimed
\* that was none, and the Client's reconnects stay within their bound.
SessionsEndSafely ==
  /\ SecureTypeOK /\ ReleasedBetweenSessions /\ FailureNeverHidden
  /\ HostSuccessHonest /\ ReconnectsBounded

\* Both programs end: no session, cleanup or retry waits for ever.
BothEnd == <>(host.phase \in {"Done", "Failed"} /\ client.phase \in {"Done", "Failed"})

\* "Only an authenticated connection Reset or TimedOut is a recoverable
\* established-path failure" (ADR 0011): when nothing but the path of a streaming
\* session fails, the listener goes on as long as it has sessions left.
LossSurvived ==
  host.phase \in {"Streaming", "Stopping", "Joining"} /\ HostFate = "lost" /\ host.stream # "error"
    /\ host.result # "fatal" /\ host.ended + 1 < MaxSessions
      => host'.phase # "Failed"

LossRecoverable == [][LossSurvived]_vars

-------------------------------------------------------------------------------
(* Proofs.                                                                    *)

HostPhases == {"Accepting", "Activating", "Negotiating", "Streaming", "Stopping", "Joining",
               "Done", "Failed"}
ClientPhases == {"Connecting", "Handshaking", "Claiming", "Done", "Failed"} \cup RunPhases
StreamResults == {"running", "HostShutdown", "PeerCompleted", "PeerLost", "FrameLimit", "error"}
WorkerResults == {"none", "ok", "lost", "fatal"}
ActiveWorker == {"opening", "working", "acking", "releasing"}
Fates == {"open", "local", "lost", "clean", "error"}

HostRecords ==
  [phase : HostPhases, conn : Conns \cup {0}, stamp : Stamps, next : Nat \ {0},
   ended : 0 .. MaxSessions, stream : StreamResults, worker : ActiveWorker \cup {"none", "ended"},
   result : WorkerResults, status : WorkerResults, observed : BOOLEAN, held : BOOLEAN,
   last : StreamResults \cup {"none"}]

ClientRecords ==
  [phase : ClientPhases, mode : {"first", "successor", "recovering"}, conn : Conns \cup {0},
   opened : 0 .. MaxConns, stamp : Stamps, completed : 0 .. SessionCount,
   attempts : 0 .. MaxReconnects, armed : BOOLEAN, spent : 0 .. Budget]

ConnRecords ==
  [up : BOOLEAN, offer : Stamps, caps : BOOLEAN, config : BOOLEAN, frame : BOOLEAN,
   sent : [Sides -> {"none", "clean", "error"}], fate : [Sides -> Fates]]

\* The Host.  A worker that ended has told the media loop its last word, and only a
\* fatal one leaves input held; the media loop calls a result observed only after
\* that, and takes a fatal one for its own error.  So when Join accepts a session,
\* nothing is held.
HostInv ==
  /\ host \in HostRecords
  /\ host.phase \notin {"Accepting", "Done", "Failed"} => host.conn # 0
  /\ host.phase \notin {"Done", "Failed"} => host.ended < MaxSessions
  /\ host.phase \in {"Streaming", "Stopping", "Joining"} => host.worker # "none"
  /\ host.phase = "Failed" => host.worker \notin ActiveWorker
  /\ host.worker \in ActiveWorker => host.status = "none"
  /\ host.worker = "ended" => host.status = host.result /\ (host.held => host.result = "fatal")
  /\ host.phase = "Streaming" => ~host.observed
  /\ host.phase \in {"Stopping", "Joining"} /\ host.observed =>
       host.worker = "ended" /\ (host.result = "fatal" => host.stream = "error")
  /\ ReleasedBetweenSessions /\ FailureNeverHidden /\ HostSuccessHonest

\* The Client.  While it connects, every connection it opened is paid for by a
\* session that completed or by a claimed attempt.
ClientInv ==
  /\ client \in ClientRecords
  /\ client.phase \in {"Handshaking"} \cup RunPhases => client.conn # 0
  /\ IF client.phase = "Done" THEN client.completed = SessionCount
                              ELSE client.completed < SessionCount
  /\ client.opened <= client.completed + 1 + client.attempts
  /\ client.phase = "Connecting" => client.opened <= client.completed + client.attempts
  /\ client.mode = "first" /\ client.phase \in {"Connecting", "Handshaking"} => client.stamp = NoStamp
  /\ client.phase = "Claiming" => client.mode # "first"

\* The connections.  A stamp that was offered was allocated.
ConnInv ==
  /\ conns \in [Conns -> ConnRecords]
  /\ \A n \in Conns : conns[n].offer # NoStamp => conns[n].offer.epoch > 0

\* The allocator has handed out at most one stamp per connection.
LinkInv ==
  /\ host.next <= client.opened + 1
  /\ host.phase = "Activating" => host.next <= client.opened

SecureInv == HostInv /\ ClientInv /\ ConnInv /\ LinkInv

USE SMTT(40)

\* The constants, as the proofs use them.
LEMMA SecureFacts ==
  /\ MaxSessions \in Nat \ {0} /\ SessionCount \in Nat \ {0}
  /\ MaxReconnects \in Nat /\ Budget \in Nat
  /\ MaxConns \in Nat \ {0} /\ MaxConns = SessionCount + MaxReconnects
  /\ Conns = 1 .. MaxConns
BY SecureAssumption DEF MaxConns, Conns

\* Closing a connection changes neither its type nor what was offered on it.
LEMMA ClosedKeeps ==
  ASSUME NEW c \in ConnRecords, NEW side \in Sides, NEW code \in {"clean", "error"}
  PROVE  Closed(c, side, code) \in ConnRecords /\ Closed(c, side, code).offer = c.offer
BY ZenonT(40) DEF Closed, ConnRecords, Sides, Other, Fates

\* Setting one field of a connection keeps its type, and only the field `offer' is
\* the offer.
LEMMA ConnFields ==
  ASSUME NEW c \in ConnRecords
  PROVE  /\ c.up \in BOOLEAN /\ c.offer \in Stamps
         /\ \A s \in Stamps : [c EXCEPT !.offer = s] \in ConnRecords /\ [c EXCEPT !.offer = s].offer = s
         /\ \A b \in BOOLEAN :
              /\ [c EXCEPT !.up = b] \in ConnRecords /\ [c EXCEPT !.up = b].offer = c.offer
              /\ [c EXCEPT !.caps = b] \in ConnRecords /\ [c EXCEPT !.caps = b].offer = c.offer
              /\ [c EXCEPT !.config = b] \in ConnRecords /\ [c EXCEPT !.config = b].offer = c.offer
              /\ [c EXCEPT !.frame = b] \in ConnRecords /\ [c EXCEPT !.frame = b].offer = c.offer
BY ZenonT(40) DEF ConnRecords

\* So ConnInv survives a close, whichever side closes which connection.
LEMMA CloseKeepsConns ==
  ASSUME ConnInv, NEW side \in Sides, NEW n \in Conns \cup {0}, NEW code \in {"clean", "error"},
         CloseConn(side, n, code)
  PROVE  ConnInv'
<1>1. CASE n = 0
  BY <1>1 DEF ConnInv, CloseConn
<1>2. CASE n \in Conns
  <2>1. conns' = [conns EXCEPT ![n] = Closed(conns[n], side, code)]
    BY <1>2, SecureFacts DEF CloseConn
  <2>2. conns[n] \in ConnRecords
    BY <1>2 DEF ConnInv
  <2> QED
    BY <1>2, <2>1, <2>2, ClosedKeeps DEF ConnInv
<1> QED
  BY <1>1, <1>2

\* The invariant holds when both programs start.
LEMMA SecureInvInit == Init => SecureInv
<1> SUFFICES ASSUME Init
             PROVE  SecureInv
  OBVIOUS
<1> USE SecureFacts
<1>1. NoStamp \in Stamps
  BY DEF NoStamp, Stamps
<1>2. HostInv
  BY <1>1 DEF Init, NewHost, HostInv, HostRecords, HostPhases, StreamResults, WorkerResults,
              ActiveWorker, ReleasedBetweenSessions, FailureNeverHidden, HostSuccessHonest
<1>3. ClientInv
  BY <1>1 DEF Init, ClientInv, ClientRecords, ClientPhases, RunPhases
<1>4. ConnInv
  BY <1>1 DEF Init, ConnInv, ConnRecords, NewConn, Fates
<1>5. LinkInv
  BY DEF Init, LinkInv, NewHost
<1> QED
  BY <1>2, <1>3, <1>4, <1>5 DEF SecureInv

\* An error of `run` ends the Host, with no worker left running.
LEMMA FailKeepsHost ==
  ASSUME HostInv, host.worker \notin ActiveWorker, HostFails
  PROVE  HostInv'
BY DEF HostFails, HostInv, HostRecords, HostPhases, ReleasedBetweenSessions, FailureNeverHidden,
       HostSuccessHonest

\* A session whose results Join accepts holds no input and hides no failure.
LEMMA JoinKeepsHost ==
  ASSUME HostInv, Join
  PROVE  HostInv'
<1> USE SecureFacts
<1>1. host.phase = "Joining" /\ host.worker = "ended"
  BY DEF Join, Joined
<1>2. CASE host.stream = "error" \/ ~WorkerAccounted
  BY <1>1, <1>2, FailKeepsHost DEF Join, ActiveWorker
<1>3. CASE ~(host.stream = "error" \/ ~WorkerAccounted)
  <2> DEFINE phase == Decision(host.stream, Ended)
  <2>1. host' = [host EXCEPT !.phase = phase, !.ended = Ended, !.last = host.stream,
                             !.worker = "none", !.conn = IF phase = "Accepting" THEN 0 ELSE @]
    BY <1>3 DEF Join
  <2>2. host.result # "fatal" /\ ~host.held
    BY <1>1, <1>3 DEF WorkerAccounted, HostInv, HostRecords, WorkerResults
  <2>3. Ended \in 0 .. MaxSessions /\ (Ended < MaxSessions \/ Ended = MaxSessions)
    BY <1>1 DEF Ended, HostInv, HostRecords
  <2>4. /\ phase \in {"Accepting", "Done", "Failed"}
        /\ phase = "Accepting" => Ended < MaxSessions
        /\ phase = "Done" => host.stream # "PeerLost" /\ (host.stream = "HostShutdown" \/ Ended = MaxSessions)
    BY <2>3 DEF Decision
  <2> HIDE DEF phase
  <2>5. host' \in HostRecords
    BY ZenonT(40), <2>1, <2>3, <2>4 DEF HostInv, HostRecords, HostPhases
  <2>6. /\ host'.phase = phase /\ host'.ended = Ended /\ host'.last = host.stream
        /\ host'.worker = "none" /\ host'.result = host.result /\ host'.held = host.held
    BY <2>1 DEF HostInv, HostRecords
  <2> QED
    BY <2>2, <2>3, <2>4, <2>5, <2>6
       DEF HostInv, ActiveWorker, ReleasedBetweenSessions, FailureNeverHidden, HostSuccessHonest
<1> QED
  BY <1>2, <1>3

\* Every step of the Host's listener, media loop and input worker keeps HostInv;
\* no other step changes the Host.
LEMMA HostInvNext ==
  ASSUME SecureInv, Next
  PROVE  HostInv'
<1> USE SecureFacts DEF SecureInv
<1>0. host \in HostRecords
  BY DEF HostInv
<1>1. CASE UNCHANGED host
  BY <1>1 DEF HostInv, ReleasedBetweenSessions, FailureNeverHidden, HostSuccessHonest
<1>2. CASE Accept
  <2> DEFINE n == client.opened + 1
  <2>1. n \in Conns /\ n # 0
    <3>1. client.opened \in 0 .. MaxConns /\ client.opened < MaxConns
      BY <1>2 DEF Accept, ClientInv, ClientRecords
    <3> QED
      BY <3>1
  <2>2. host.phase = "Accepting" /\ host' = [host EXCEPT !.phase = "Activating", !.conn = n]
    BY <1>2 DEF Accept
  <2> HIDE DEF n
  <2>3. host' \in HostRecords
    BY ZenonT(40), <1>0, <2>1, <2>2 DEF HostRecords, HostPhases
  <2> QED
    BY <2>1, <2>2, <2>3 DEF HostInv, HostRecords, ActiveWorker, ReleasedBetweenSessions,
                            FailureNeverHidden, HostSuccessHonest
<1>3. CASE PairingTimeout \/ ActivateFails \/ NegotiateFails
  <2>1. host.phase \in {"Accepting", "Activating", "Negotiating"} /\ HostFails
    BY <1>3 DEF PairingTimeout, ActivateFails, NegotiateFails
  <2> QED
    BY <2>1, FailKeepsHost DEF HostInv, ReleasedBetweenSessions, ActiveWorker
<1>4. ASSUME NEW id \in Ids, Activate(id)
      PROVE  HostInv'
  <2> DEFINE stamp == Allocated(id)
  <2>1. host.phase = "Activating"
        /\ host' = [host EXCEPT !.phase = "Negotiating", !.stamp = stamp, !.next = @ + 1]
    BY <1>4 DEF Activate
  <2>2. stamp \in Stamps
    <3>1. host.next \in 0 .. MaxConns
      BY <2>1 DEF HostInv, HostRecords, LinkInv, ClientInv, ClientRecords
    <3> QED
      BY <3>1 DEF Allocated, Stamps
  <2> HIDE DEF stamp
  <2>3. host' \in HostRecords
    <3> DEFINE following == host.next + 1
    <3>1. following \in Nat \ {0} /\ "Negotiating" \in HostPhases
      BY <1>0 DEF HostRecords, HostPhases
    <3>2. host' = [host EXCEPT !.phase = "Negotiating", !.stamp = stamp, !.next = following]
      BY <2>1
    <3> HIDE DEF following
    <3> QED
      BY ZenonT(40), <1>0, <2>2, <3>1, <3>2 DEF HostRecords
  <2> QED
    BY <2>1, <2>3 DEF HostInv, HostRecords, ActiveWorker, ReleasedBetweenSessions,
                      FailureNeverHidden, HostSuccessHonest
<1>5. CASE Negotiate
  <2>1. /\ host.phase = "Negotiating"
        /\ host' = [host EXCEPT !.phase = "Streaming", !.stream = "running", !.worker = "opening",
                                !.result = "none", !.status = "none", !.observed = FALSE]
    BY <1>5 DEF Negotiate
  <2>2. host' \in HostRecords
    <3>1. /\ "Streaming" \in HostPhases /\ "running" \in StreamResults /\ "none" \in WorkerResults
          /\ "opening" \in ActiveWorker \cup {"none", "ended"}
      BY DEF HostPhases, StreamResults, WorkerResults, ActiveWorker
    <3> QED
      BY ZenonT(40), <1>0, <2>1, <3>1 DEF HostRecords
  <2> QED
    BY <2>1, <2>2 DEF HostInv, HostRecords, ActiveWorker, ReleasedBetweenSessions,
                      FailureNeverHidden, HostSuccessHonest
<1>6. CASE Stop
  BY <1>6 DEF Stop, HostInv, HostRecords, HostPhases, ActiveWorker,
              ReleasedBetweenSessions, FailureNeverHidden, HostSuccessHonest
<1>7. CASE Join
  BY <1>7, JoinKeepsHost
<1>8. CASE MediaStep
  <2>1. ASSUME NEW end \in StreamResults, NEW observed \in BOOLEAN, host.phase = "Streaming",
               StreamEnds(end, observed),
               observed => host.status # "none" /\ (host.status = "fatal" => end = "error")
        PROVE  HostInv'
    BY ZenonT(40), <2>1 DEF StreamEnds, HostInv, HostRecords, HostPhases, ActiveWorker,
                ReleasedBetweenSessions, FailureNeverHidden, HostSuccessHonest
  <2>2. CASE Shutdown
    BY ZenonT(40), <2>1, <2>2 DEF Shutdown, Streaming, StreamResults
  <2>3. CASE StreamStatus
    <3> DEFINE end == CASE host.status = "ok" -> "PeerCompleted" [] host.status = "lost" -> "PeerLost"
                        [] OTHER -> "error"
               observed == host.status # "ok"
    <3>1. host.phase = "Streaming" /\ StreamEnds(end, observed) /\ host.status # "none"
      BY <2>3 DEF StreamStatus, Streaming
    <3>2. end \in StreamResults /\ observed \in BOOLEAN /\ (host.status = "fatal" => end = "error")
      BY DEF StreamResults
    <3> QED
      BY ZenonT(40), <2>1, <3>1, <3>2
  <2>4. CASE StreamFrame
    BY ZenonT(40), <1>1, <2>1, <2>4 DEF StreamFrame, Streaming, StreamResults
  <2>5. CASE StreamBroken
    <3> DEFINE end == CASE HostFate = "clean" -> "PeerCompleted" [] HostFate = "lost" -> "PeerLost"
                        [] OTHER -> "error"
    <3>1. end \in StreamResults
      BY DEF StreamResults
    <3>2. host.phase = "Streaming" /\ (StreamEnds(end, FALSE) \/ StreamEnds("error", FALSE))
      BY ZenonT(40), <2>5 DEF StreamBroken, Streaming
    <3> HIDE DEF end
    <3> QED
      BY ZenonT(40), <2>1, <3>1, <3>2 DEF StreamResults
  <2> QED
    BY <1>8, <2>2, <2>3, <2>4, <2>5 DEF MediaStep
<1>9. CASE WorkerStep
  <2> USE DEF HostInv, HostRecords, ActiveWorker, WorkerResults, ReleasedBetweenSessions,
              FailureNeverHidden, HostSuccessHonest
  <2>1. ASSUME NEW ok \in BOOLEAN, WorkerOpens(ok)
        PROVE  HostInv'
    BY ZenonT(40), <2>1 DEF WorkerOpens
  <2>2. ASSUME NEW ok \in BOOLEAN, WorkerReleases(ok)
        PROVE  HostInv'
    BY ZenonT(40), <2>2 DEF WorkerReleases, Merged
  <2>3. ASSUME NEW presses \in BOOLEAN, NEW ok \in BOOLEAN, NEW ack \in BOOLEAN,
               WorkerInput(presses, ok, ack)
        PROVE  HostInv'
    <3> DEFINE r == IF ok THEN host.result ELSE "fatal"
               w == IF ack THEN "acking" ELSE IF ok THEN "working" ELSE "releasing"
    <3>1. host' = [host EXCEPT !.held = presses, !.result = r, !.worker = w]
      BY <2>3 DEF WorkerInput
    <3>2. host.worker = "working"
      BY <2>3 DEF WorkerInput
    <3>3. r \in WorkerResults /\ w \in ActiveWorker
      BY <1>0
    <3>4. host \in HostRecords
      OBVIOUS
    <3> HIDE DEF r, w, WorkerResults, ActiveWorker
    <3>5. host' \in HostRecords
      BY ZenonT(40), <3>1, <3>3, <3>4
    <3> USE DEF r, w, WorkerResults, ActiveWorker
    <3> QED
      BY <3>1, <3>2, <3>5
  <2>4. CASE WorkerAcks
    BY ZenonT(40), <2>4 DEF WorkerAcks
  <2>5. CASE WorkerStops
    BY ZenonT(40), <2>5 DEF WorkerStops, WorkerEnd
  <2> QED
    BY <1>9, <2>1, <2>2, <2>3, <2>4, <2>5 DEF WorkerStep
<1>10. CASE HostRestart
  <2>1. NoStamp \in Stamps
    BY DEF NoStamp, Stamps
  <2> QED
    BY <1>10, <2>1 DEF HostRestart, NewHost, HostInv, HostRecords, HostPhases, StreamResults, WorkerResults,
                ActiveWorker, ReleasedBetweenSessions, FailureNeverHidden, HostSuccessHonest
<1>11. Network \/ ClientStep \/ Tick => UNCHANGED host
  BY DEF Network, LosePath, NoticeLoss, NoticeClose, ClientStep, EstablishFails, Handshake, RunStep,
         Complete, RunFails, Claim, Tick
<1> QED
  BY <1>1, <1>2, <1>3, <1>4, <1>5, <1>6, <1>7, <1>8, <1>9, <1>10, <1>11 DEF Next, ListenerStep

\* A claimed delay is a number, and the wait fits into what is left of the budget.
LEMMA DelayIsNat ==
  ASSUME NEW attempt \in Nat \ {0}
  PROVE  Delay(attempt) \in Nat
<1> DEFINE index == IF attempt > 5 THEN 5 ELSE attempt
<1>1. index = 1 \/ index = 2 \/ index = 3 \/ index = 4 \/ index = 5
  OBVIOUS
<1> QED
  BY <1>1 DEF Delay, BaseDelays

\* Every step of the Client keeps ClientInv; of the Host's steps only Accept
\* changes the Client.
LEMMA ClientInvNext ==
  ASSUME SecureInv, Next
  PROVE  ClientInv'
<1> USE SecureFacts DEF SecureInv
<1>0. client \in ClientRecords
  BY DEF ClientInv
<1>1. CASE UNCHANGED client
  BY <1>1 DEF ClientInv
<1>2. CASE Accept
  <2> DEFINE n == client.opened + 1
  <2>1. n \in Conns /\ n # 0 /\ n \in 0 .. MaxConns
    <3>1. client.opened \in 0 .. MaxConns /\ client.opened < MaxConns
      BY <1>2 DEF Accept, ClientInv, ClientRecords
    <3> QED
      BY <3>1
  <2>2. /\ client.phase = "Connecting"
        /\ client' = [client EXCEPT !.phase = "Handshaking", !.conn = n, !.opened = n]
    BY <1>2 DEF Accept
  <2>3. n <= client.completed + 1 + client.attempts
    BY <2>2 DEF ClientInv, ClientRecords
  <2> HIDE DEF n
  <2>4. client' \in ClientRecords
    BY ZenonT(40), <1>0, <2>1, <2>2 DEF ClientRecords, ClientPhases, RunPhases
  <2> QED
    BY <1>0, <2>1, <2>2, <2>3, <2>4 DEF ClientInv, ClientRecords, RunPhases
<1>3. ASSUME NEW phase \in ClientPhases, client.phase # "Done", phase # "Done",
             phase \notin {"Connecting", "Handshaking"} \cup RunPhases,
             phase = "Claiming" => client.mode # "first",
             client' = [client EXCEPT !.phase = phase]
      PROVE  ClientInv'
  <2>1. client' \in ClientRecords
    BY <1>0, <1>3 DEF ClientRecords
  <2> QED
    BY <1>0, <1>3, <2>1 DEF ClientInv, ClientRecords, RunPhases
<1>4. ASSUME NEW retryable \in BOOLEAN, EstablishFails(retryable)
      PROVE  ClientInv'
  <2> DEFINE phase == IF retryable /\ client.mode = "recovering" THEN "Claiming" ELSE "Failed"
  <2>1. /\ client.phase \in {"Connecting", "Handshaking"}
        /\ client' = [client EXCEPT !.phase = phase]
    BY <1>4 DEF EstablishFails, ClientEnds
  <2> QED
    BY <1>3, <2>1 DEF ClientPhases, RunPhases
<1>5. CASE Handshake
  <2> DEFINE stamp == conns[client.conn].offer
  <2>1. client.phase = "Handshaking" /\ stamp \in Stamps
    <3>1. client.phase = "Handshaking" /\ client.conn \in Conns
      BY <1>5 DEF Handshake, ClientInv, ClientRecords
    <3> QED
      BY <3>1 DEF ConnInv, ConnRecords
  <2>2. \/ client' = [client EXCEPT !.phase = "Offering", !.stamp = stamp]
        \/ client' = [client EXCEPT !.phase = "Failed"]
    BY <1>5 DEF Handshake, ClientEnds
  <2> HIDE DEF stamp
  <2>3. CASE client' = [client EXCEPT !.phase = "Offering", !.stamp = stamp]
    <3>1. client' \in ClientRecords
      BY ZenonT(40), <1>0, <2>1, <2>3 DEF ClientRecords, ClientPhases, RunPhases
    <3> QED
      BY <1>0, <2>1, <2>3, <3>1 DEF ClientInv, ClientRecords, RunPhases
  <2> QED
    BY <1>3, <2>1, <2>2, <2>3 DEF ClientPhases, RunPhases
<1>6. CASE RunStep
  <2>1. PICK phase \in RunPhases : client' = [client EXCEPT !.phase = phase]
    BY <1>6 DEF RunStep, RunPhases
  <2>2. client.phase \in RunPhases
    BY <1>6 DEF RunStep, RunPhases
  <2>3. client' \in ClientRecords
    BY <1>0, <2>1 DEF ClientRecords, ClientPhases
  <2> QED
    BY ZenonT(40), <1>0, <2>1, <2>2, <2>3 DEF ClientInv, ClientRecords, RunPhases
<1>7. CASE Complete
  <2> DEFINE done == client.completed + 1
             phase == IF done >= SessionCount THEN "Done" ELSE "Connecting"
  <2>1. client.phase = "Finishing"
        /\ client' = [client EXCEPT !.completed = done, !.mode = "successor", !.phase = phase]
    BY <1>7 DEF Complete
  <2>2. done \in 0 .. SessionCount /\ client.opened <= done + client.attempts
    BY <2>1 DEF ClientInv, ClientRecords
  <2>3. /\ phase \in {"Done", "Connecting"}
        /\ phase = "Done" => done = SessionCount
        /\ phase = "Connecting" => done < SessionCount
    BY <2>2
  <2> HIDE DEF done, phase
  <2>4. client' \in ClientRecords
    BY ZenonT(40), <1>0, <2>1, <2>2, <2>3 DEF ClientRecords, ClientPhases
  <2> QED
    <3>1. /\ client'.completed = done /\ client'.mode = "successor" /\ client'.phase = phase
          /\ client'.opened = client.opened /\ client'.attempts = client.attempts
      BY <1>0, <2>1 DEF ClientRecords
    <3>2. done \in Nat /\ client.opened \in Nat /\ client.attempts \in Nat
      BY <1>0, <2>2 DEF ClientRecords
    <3> QED
      BY <2>2, <2>3, <2>4, <3>1, <3>2 DEF ClientInv, RunPhases
<1>8. CASE RunFails
  <2>1. client.phase \in RunPhases
    BY <1>8 DEF RunFails
  <2>2. \/ client' = [client EXCEPT !.phase = "Claiming", !.mode = "recovering", !.armed = TRUE]
        \/ client' = [client EXCEPT !.phase = "Failed"]
    BY <1>8 DEF RunFails, ClientEnds
  <2>3. CASE client' = [client EXCEPT !.phase = "Claiming", !.mode = "recovering", !.armed = TRUE]
    <3>1. client' \in ClientRecords
      BY ZenonT(40), <1>0, <2>3 DEF ClientRecords, ClientPhases
    <3> QED
      BY <1>0, <2>1, <2>3, <3>1 DEF ClientInv, ClientRecords, RunPhases
  <2> QED
    BY <1>3, <2>1, <2>2, <2>3 DEF ClientPhases, RunPhases
<1>9. CASE Claim
  <2> DEFINE attempt == client.attempts + 1
             inTime == Budget - client.spent > Delay(attempt)
             phase == IF inTime THEN "Connecting" ELSE "Failed"
             spent == IF inTime THEN client.spent + Delay(attempt) ELSE client.spent
  <2>1. client.phase = "Claiming" /\ client.mode # "first" /\ client.completed < SessionCount
    BY <1>9 DEF Claim, ClientInv
  <2>2. client' = IF attempt > MaxReconnects THEN [client EXCEPT !.phase = "Failed"]
                  ELSE [client EXCEPT !.attempts = attempt, !.phase = phase, !.spent = spent]
    BY <1>9 DEF Claim
  <2>3. spent \in 0 .. Budget
    <3>1. Delay(attempt) \in Nat /\ client.spent \in 0 .. Budget
      BY <1>0, DelayIsNat DEF ClientRecords
    <3> QED
      BY <3>1
  <2>4. attempt \in Nat /\ client.opened <= client.completed + attempt
    BY DEF ClientInv, ClientRecords
  <2>5. phase \in {"Connecting", "Failed"}
    OBVIOUS
  <2>6. CASE attempt > MaxReconnects
    BY <1>3, <2>1, <2>2, <2>6 DEF ClientPhases, RunPhases
  <2>7. CASE ~(attempt > MaxReconnects)
    <3>1. client' = [client EXCEPT !.attempts = attempt, !.phase = phase, !.spent = spent]
      BY <2>2, <2>7
    <3>2. attempt \in 0 .. MaxReconnects /\ client.opened <= client.completed + 1 + attempt
      BY <1>0, <2>4, <2>7 DEF ClientRecords
    <3> HIDE DEF attempt, inTime, phase, spent
    <3>3. client' \in ClientRecords
      BY ZenonT(40), <1>0, <2>3, <2>5, <3>1, <3>2 DEF ClientRecords, ClientPhases
    <3> QED
      BY ZenonT(40), <1>0, <2>1, <2>4, <2>5, <3>1, <3>2, <3>3 DEF ClientInv, ClientRecords, RunPhases
  <2> QED
    BY <2>6, <2>7
<1>10. CASE Tick
  <2> DEFINE spent == client.spent + 1
  <2>1. client' = [client EXCEPT !.spent = spent]
    BY <1>10 DEF Tick
  <2>2. spent \in 0 .. Budget
    BY <1>0, <1>10 DEF Tick, ClientRecords
  <2> HIDE DEF spent
  <2>3. client' \in ClientRecords
    BY <1>0, <2>1, <2>2 DEF ClientRecords
  <2> QED
    BY <1>0, <2>1, <2>3 DEF ClientInv, ClientRecords
<1>11. Network \/ ListenerStep \/ MediaStep \/ WorkerStep \/ HostRestart => UNCHANGED client
  BY ZenonT(40) DEF Network, LosePath, NoticeLoss, NoticeClose, ListenerStep, PairingTimeout, ActivateFails,
         Negotiate, NegotiateFails, Stop, Join, HostFails, Activate, MediaStep, Shutdown, StreamStatus,
         StreamFrame, StreamBroken, WorkerStep, WorkerOpens, WorkerReleases, WorkerInput, WorkerAcks,
         WorkerStops, HostRestart
<1> QED
  BY <1>1, <1>2, <1>4, <1>5, <1>6, <1>7, <1>8, <1>9, <1>10, <1>11 DEF Next, ClientStep

\* Every step keeps ConnInv: it closes a connection, or sets flags of one, and only
\* Activate offers a stamp.
LEMMA ConnInvNext ==
  ASSUME SecureInv, Next
  PROVE  ConnInv'
<1> USE SecureFacts DEF SecureInv
<1>0. /\ host.conn \in Conns \cup {0} /\ client.conn \in Conns \cup {0}
      /\ "host" \in Sides /\ "client" \in Sides
  BY DEF HostInv, HostRecords, ClientInv, ClientRecords, Sides
<1>1. CASE UNCHANGED conns
  BY <1>1 DEF ConnInv
<1>a. \A n \in Conns : conns[n] \in ConnRecords
  BY DEF ConnInv
<1>2. CASE \E n \in Conns \cup {0}, side \in Sides, code \in {"clean", "error"} : CloseConn(side, n, code)
  BY <1>2, CloseKeepsConns
<1>3. ASSUME NEW n \in Conns, NEW c \in ConnRecords, conns' = [conns EXCEPT ![n] = c],
             c.offer = conns[n].offer
      PROVE  ConnInv'
  BY <1>3 DEF ConnInv
<1>4. CASE Network
  <2>1. ASSUME NEW n \in Conns, LosePath(n)
        PROVE  ConnInv'
    BY ZenonT(40), <1>3, <1>a, <2>1, ConnFields DEF LosePath
  <2>2. ASSUME NEW n \in Conns, NEW side \in Sides, NEW fate \in Fates,
               conns' = [conns EXCEPT ![n].fate[side] = fate]
        PROVE  ConnInv'
    <3>1. [conns[n] EXCEPT !.fate[side] = fate] \in ConnRecords
      BY DEF ConnInv, ConnRecords
    <3> QED
      BY ZenonT(40), <1>3, <2>2, <3>1 DEF ConnInv, ConnRecords
  <2>3. ASSUME NEW n \in Conns, NEW side \in Sides, NoticeLoss(side, n)
        PROVE  ConnInv'
    BY ZenonT(40), <2>2, <2>3 DEF NoticeLoss, Fates
  <2>4. ASSUME NEW n \in Conns, NEW side \in Sides, NoticeClose(side, n)
        PROVE  ConnInv'
    <3>1. conns[n].sent[side] \in Fates
      BY <2>4 DEF NoticeClose, ConnInv, ConnRecords, Fates
    <3> QED
      BY ZenonT(40), <2>2, <2>4, <3>1 DEF NoticeClose
  <2> QED
    BY <1>4, <2>1, <2>3, <2>4 DEF Network
<1>5. CASE HostFails
  BY <1>0, <1>2, <1>5 DEF HostFails
<1>6. CASE Join
  <2>1. HostFails \/ UNCHANGED conns \/ CloseConn("host", host.conn, "error")
          \/ CloseConn("host", host.conn, "clean")
    BY <1>6 DEF Join
  <2> QED
    BY <1>0, <1>1, <1>2, <1>5, <2>1
<1>7. ASSUME NEW id \in Ids, Activate(id)
      PROVE  ConnInv'
  <2> DEFINE stamp == IF conns[host.conn].up THEN Allocated(id) ELSE conns[host.conn].offer
  <2>0. host.phase = "Activating"
    BY <1>7 DEF Activate
  <2>1. host.conn \in Conns /\ host.next \in 1 .. MaxConns
    <3>1. host.next <= client.opened /\ client.opened \in 0 .. MaxConns /\ host.next \in Nat \ {0}
      BY <2>0 DEF HostInv, HostRecords, LinkInv, ClientInv, ClientRecords
    <3>2. host.conn \in Conns
      BY <1>0, <2>0 DEF HostInv
    <3> QED
      BY <3>1, <3>2
  <2>2. conns' = [conns EXCEPT ![host.conn].offer = stamp]
    BY <1>7 DEF Activate
  <2>3. Allocated(id) \in Stamps /\ Allocated(id).epoch > 0
    BY <2>1 DEF Allocated, Stamps
  <2>4. stamp \in Stamps /\ (stamp # NoStamp => stamp.epoch > 0)
    BY <2>1, <2>3 DEF ConnInv, ConnRecords
  <2> HIDE DEF stamp
  <2> DEFINE c == [conns[host.conn] EXCEPT !.offer = stamp]
  <2>5. c \in ConnRecords /\ c.offer = stamp
    BY <1>a, <2>1, <2>4, ConnFields
  <2>6. conns' = [conns EXCEPT ![host.conn] = c]
    BY <2>2
  <2> HIDE DEF c
  <2> QED
    BY <2>1, <2>4, <2>5, <2>6 DEF ConnInv
<1>8. CASE Negotiate
  <2>1. host.conn \in Conns
    BY <1>8 DEF Negotiate, HostInv, HostRecords
  <2>2. conns[host.conn] \in ConnRecords /\ conns[host.conn].up \in BOOLEAN
    BY <1>a, <2>1, ConnFields
  <2> QED
    BY ZenonT(40), <1>3, <1>8, <2>1, <2>2, ConnFields DEF Negotiate
<1>9. CASE StreamFrame
  <2>1. host.conn \in Conns
    BY <1>9 DEF StreamFrame, Streaming, HostInv, HostRecords
  <2> DEFINE seen == conns[host.conn].frame \/ conns[host.conn].up
  <2>2. conns' = [conns EXCEPT ![host.conn].frame = seen] /\ seen \in BOOLEAN
    BY <1>9 DEF StreamFrame
  <2> HIDE DEF seen
  <2> DEFINE c == [conns[host.conn] EXCEPT !.frame = seen]
  <2>3. c \in ConnRecords /\ c.offer = conns[host.conn].offer
    BY ZenonT(40), <1>a, <2>1, <2>2, ConnFields
  <2>4. conns' = [conns EXCEPT ![host.conn] = c]
    BY <2>2
  <2> HIDE DEF c
  <2> QED
    BY ZenonT(40), <1>3, <2>1, <2>3, <2>4
<1>10. CASE RunStep
  <2>1. client.conn \in Conns
    BY <1>10 DEF RunStep, ClientInv, ClientRecords, RunPhases
  <2>2. conns[client.conn] \in ConnRecords /\ conns[client.conn].up \in BOOLEAN
    BY <1>a, <2>1, ConnFields
  <2>3. UNCHANGED conns \/ conns' = [conns EXCEPT ![client.conn].caps = conns[client.conn].up]
    BY <1>10 DEF RunStep
  <2> QED
    BY ZenonT(40), <1>1, <1>3, <2>1, <2>2, <2>3, ConnFields
<1>11. PairingTimeout \/ ActivateFails \/ NegotiateFails => HostFails
  BY DEF PairingTimeout, ActivateFails, NegotiateFails
<1>12. CASE ClientStep
  <2>1. ASSUME NEW retryable \in BOOLEAN, EstablishFails(retryable)
        PROVE  ConnInv'
    BY <1>0, <1>2, <2>1 DEF EstablishFails, ClientEnds
  <2>2. CASE Handshake \/ Complete \/ RunFails
    BY <1>0, <1>1, <1>2, <2>2 DEF Handshake, Complete, RunFails, ClientEnds
  <2>3. CASE Claim
    BY <1>1, <2>3 DEF Claim
  <2> QED
    BY <1>10, <1>12, <2>1, <2>2, <2>3 DEF ClientStep
<1>13. Accept \/ Stop \/ Shutdown \/ StreamStatus \/ StreamBroken \/ WorkerStep \/ HostRestart \/ Tick
         => UNCHANGED conns
  BY ZenonT(40) DEF Accept, Stop, Shutdown, StreamStatus, StreamBroken, WorkerStep, WorkerOpens, WorkerReleases,
         WorkerInput, WorkerAcks, WorkerStops, HostRestart, Tick
<1> QED
  BY <1>1, <1>4, <1>5, <1>6, <1>7, <1>8, <1>9, <1>11, <1>12, <1>13 DEF Next, ListenerStep, MediaStep

\* The allocator and the connections stay in step.
LEMMA LinkInvNext ==
  ASSUME SecureInv, Next
  PROVE  LinkInv'
<1> USE SecureFacts DEF SecureInv
<1>0. host.next \in Nat \ {0} /\ client.opened \in Nat
  BY DEF HostInv, HostRecords, ClientInv, ClientRecords
<1>1. CASE Accept
  <2>1. /\ host'.next = host.next /\ client'.opened = client.opened + 1
    BY <1>1 DEF Accept, HostInv, HostRecords, ClientInv, ClientRecords
  <2> QED
    BY <1>0, <2>1 DEF LinkInv
<1>2. ASSUME NEW id \in Ids, Activate(id)
      PROVE  LinkInv'
  <2>1. /\ host.phase = "Activating" /\ host'.phase = "Negotiating"
        /\ host'.next = host.next + 1 /\ client' = client
    BY <1>2 DEF Activate, HostInv, HostRecords
  <2> QED
    BY <1>0, <2>1 DEF LinkInv
<1>3. CASE HostRestart
  BY <1>0, <1>3 DEF HostRestart, NewHost, LinkInv
<1>4. ASSUME client'.opened = client.opened, host'.next = host.next,
             host'.phase = "Activating" => host.phase = "Activating"
      PROVE  LinkInv'
  BY <1>4 DEF LinkInv
<1>5. CASE ClientStep \/ Tick
  <2>1. host' = host
    BY <1>5 DEF ClientStep, EstablishFails, Handshake, RunStep, Complete, RunFails, Claim, Tick
  <2>2. client'.opened = client.opened
    BY ZenonT(40), <1>5 DEF ClientStep, EstablishFails, ClientEnds, Handshake, RunStep, Complete, RunFails, Claim, Tick,
                ClientInv, ClientRecords
  <2> QED
    BY <1>4, <2>1, <2>2
<1>6. CASE UNCHANGED <<host, client>>
  BY <1>4, <1>6
<1>7. CASE UNCHANGED client /\ host'.next = host.next /\ host'.phase # "Activating"
  BY <1>4, <1>7
<1>a. host \in HostRecords
  BY DEF HostInv
<1>b. CASE HostFails
  BY <1>7, <1>a, <1>b DEF HostFails, HostRecords
<1>8. CASE PairingTimeout \/ ActivateFails \/ NegotiateFails \/ Negotiate \/ Stop
  BY ZenonT(40), <1>7, <1>8, <1>a, <1>b DEF PairingTimeout, ActivateFails, NegotiateFails, Negotiate, Stop, HostRecords
<1>12. CASE Join
  <2> DEFINE phase == Decision(host.stream, Ended)
  <2>1. phase # "Activating"
    BY DEF Decision
  <2>2. HostFails \/ /\ UNCHANGED client
                     /\ host' = [host EXCEPT !.phase = phase, !.ended = Ended, !.last = host.stream,
                                  !.worker = "none", !.conn = IF phase = "Accepting" THEN 0 ELSE @]
    BY <1>12 DEF Join
  <2> HIDE DEF phase
  <2> QED
    BY ZenonT(40), <1>7, <1>a, <1>b, <2>1, <2>2 DEF HostRecords
<1>9. CASE MediaStep
  <2>1. ASSUME NEW end, NEW observed, StreamEnds(end, observed)
        PROVE  host'.next = host.next /\ host'.phase # "Activating"
    BY <1>a, <2>1 DEF StreamEnds, HostRecords
  <2>2. UNCHANGED client /\ (UNCHANGED host \/ \E end, observed : StreamEnds(end, observed))
    BY ZenonT(40), <1>9 DEF MediaStep, Shutdown, StreamStatus, StreamFrame, StreamBroken
  <2> QED
    BY <1>6, <1>7, <2>1, <2>2
<1>10. CASE WorkerStep
  <2>1. ASSUME NEW ok \in BOOLEAN, WorkerOpens(ok) \/ WorkerReleases(ok)
        PROVE  UNCHANGED client /\ host'.next = host.next /\ host'.phase = host.phase
    BY ZenonT(40), <1>a, <2>1 DEF WorkerOpens, WorkerReleases, HostRecords
  <2>2. ASSUME NEW presses \in BOOLEAN, NEW ok \in BOOLEAN, NEW ack \in BOOLEAN,
               WorkerInput(presses, ok, ack)
        PROVE  UNCHANGED client /\ host'.next = host.next /\ host'.phase = host.phase
    BY <1>a, <2>2 DEF WorkerInput, HostRecords
  <2>3. WorkerAcks \/ WorkerStops
          => UNCHANGED client /\ host'.next = host.next /\ host'.phase = host.phase
    BY ZenonT(40), <1>a DEF WorkerAcks, WorkerStops, HostRecords
  <2> QED
    BY <1>4, <1>10, <2>1, <2>2, <2>3 DEF WorkerStep
<1>11. Network => UNCHANGED <<host, client>>
  BY DEF Network, LosePath, NoticeLoss, NoticeClose
<1> QED
  BY <1>1, <1>2, <1>3, <1>5, <1>6, <1>8, <1>9, <1>10, <1>11, <1>12 DEF Next, ListenerStep

\* SecureInv is inductive.
LEMMA SecureInvNext == SecureInv /\ [Next]_vars => SecureInv'
<1>1. ASSUME SecureInv, Next
      PROVE  SecureInv'
  BY <1>1, HostInvNext, ClientInvNext, ConnInvNext, LinkInvNext DEF SecureInv
<1>2. ASSUME SecureInv, UNCHANGED vars
      PROVE  SecureInv'
  BY <1>2 DEF vars, SecureInv, HostInv, ClientInv, ConnInv, LinkInv, ReleasedBetweenSessions,
              FailureNeverHidden, HostSuccessHonest
<1> QED
  BY <1>1, <1>2

\* What SecureInv says contains all that SessionsEndSafely says.
LEMMA SecureInvImplies == SecureInv => SessionsEndSafely
<1> SUFFICES ASSUME SecureInv
             PROVE  SessionsEndSafely
  OBVIOUS
<1> USE SecureFacts DEF SecureInv
<1>1. ReleasedBetweenSessions /\ FailureNeverHidden /\ HostSuccessHonest
  BY DEF HostInv
<1>2. ReconnectsBounded
  BY DEF ReconnectsBounded, ClientInv, ClientRecords
<1>3. host.next \in 1 .. MaxConns + 1
  BY DEF HostInv, HostRecords, ClientInv, ClientRecords, LinkInv
<1>4. \A n \in Conns, s \in Sides : conns[n].fate[s] \in Fates
  BY DEF ConnInv, ConnRecords
<1>5. SecureTypeOK
  BY <1>3, <1>4 DEF SecureTypeOK, HostInv, HostRecords, HostPhases, ClientInv, ClientRecords,
                    ClientPhases, Fates
<1> QED
  BY <1>1, <1>2, <1>5 DEF SessionsEndSafely

\* For every number of sessions, reconnects and restarts, every set of faults and
\* every interleaving of listener, media loop, input worker, Client and network: a
\* session ends with its input released and no failure hidden, the Host claims no
\* success that was none, and the Client's reconnects stay within their bound.
THEOREM SessionsAreSafe == Spec => []SessionsEndSafely
BY SecureInvInit, SecureInvNext, SecureInvImplies, PTL DEF Spec

\* A step that gives the Client another stamp gives it a later one, and one that
\* sends it to a reconnect from a running session finds the path lost
\* (client_successor, is_retryable_session_run_error).
LEMMA StampStep == SecureInv /\ [Next]_vars => StampsRise \/ UNCHANGED vars
<1> SUFFICES ASSUME SecureInv, Next
             PROVE  StampsRise
  OBVIOUS
<1> USE SecureFacts DEF SecureInv
<1>0. client \in ClientRecords
  BY DEF ClientInv
<1>1. CASE UNCHANGED client
  BY <1>1 DEF StampsRise, RunPhases
<1>2. CASE client'.stamp = client.stamp /\ ~(client'.phase = "Claiming" /\ client.phase \in RunPhases)
  BY <1>2 DEF StampsRise
<1>3. CASE Handshake
  <2> DEFINE stamp == conns[client.conn].offer
  <2>1. client.phase = "Handshaking" /\ stamp # NoStamp
    BY <1>3 DEF Handshake
  <2>2. stamp \in Stamps /\ stamp.epoch > 0
    <3>1. client.conn \in Conns
      BY <2>1 DEF ClientInv, ClientRecords
    <3> QED
      BY <2>1, <3>1 DEF ConnInv, ConnRecords
  <2>3. CASE client' = [client EXCEPT !.phase = "Failed"]
    BY <1>0, <1>2, <2>3 DEF ClientRecords
  <2>4. CASE /\ client.mode = "first" \/ Succeeds(stamp, client.stamp)
             /\ client' = [client EXCEPT !.phase = "Offering", !.stamp = stamp]
    <3>1. client'.stamp = stamp /\ client'.phase = "Offering"
      BY <1>0, <2>4 DEF ClientRecords
    <3>2. client.stamp.epoch < stamp.epoch
      <4>1. CASE client.mode = "first"
        <5>1. client.stamp = NoStamp
          BY <2>1, <4>1 DEF ClientInv
        <5> QED
          BY <2>2, <5>1 DEF NoStamp
      <4>2. CASE Succeeds(stamp, client.stamp)
        BY <1>0, <2>2, <4>2 DEF Succeeds, Stamps, ClientRecords
      <4> QED
        BY <2>4, <4>1, <4>2
    <3> QED
      BY <1>0, <2>2, <3>1, <3>2 DEF StampsRise, Stamps, ClientRecords
  <2> QED
    BY <1>3, <2>3, <2>4 DEF Handshake, ClientEnds
<1>4. CASE RunFails
  <2>1. client'.stamp = client.stamp
    BY ZenonT(40), <1>0, <1>4 DEF RunFails, ClientEnds, ClientRecords
  <2>2. client'.phase = "Claiming" => ClientFate = "lost"
    BY <1>0, <1>4 DEF RunFails, ClientEnds, ClientRecords, Retryable
  <2> QED
    BY <2>1, <2>2 DEF StampsRise
<1>5. ASSUME NEW retryable \in BOOLEAN, EstablishFails(retryable)
      PROVE  StampsRise
  BY <1>0, <1>2, <1>5 DEF EstablishFails, ClientEnds, ClientRecords, RunPhases
<1>6. CASE Accept \/ RunStep \/ Complete \/ Tick
  BY ZenonT(40), <1>0, <1>2, <1>6 DEF Accept, RunStep, Complete, Tick, ClientRecords, RunPhases
<1>7. CASE Claim
  BY <1>0, <1>2, <1>7 DEF Claim, ClientRecords, RunPhases
<1>8. Network \/ ListenerStep \/ MediaStep \/ WorkerStep \/ HostRestart => UNCHANGED client
  BY ZenonT(40) DEF Network, LosePath, NoticeLoss, NoticeClose, ListenerStep, PairingTimeout, ActivateFails,
         Negotiate, NegotiateFails, Stop, Join, HostFails, Activate, MediaStep, Shutdown, StreamStatus,
         StreamFrame, StreamBroken, WorkerStep, WorkerOpens, WorkerReleases, WorkerInput, WorkerAcks,
         WorkerStops, HostRestart
<1> QED
  BY <1>1, <1>3, <1>4, <1>5, <1>6, <1>7, <1>8 DEF Next, ClientStep

\* Stamps rise along the Client's sessions for ever, whenever the Host is started
\* again in between, and only a lost path is retried (run_session_sequence).
THEOREM StampsAlwaysRise == Spec => [][StampsRise]_vars
<1>1. Spec => []SecureInv
  BY SecureInvInit, SecureInvNext, PTL DEF Spec
<1> QED
  BY <1>1, StampStep, PTL DEF Spec

\* The model numbers at most MaxConns connections.  The Client never needs more, so
\* that bound in Accept hides no behaviour.
THEOREM ConnectionsSuffice == Spec => [](client.phase = "Connecting" => client.opened < MaxConns)
<1>1. SecureInv => (client.phase = "Connecting" => client.opened < MaxConns)
  BY SecureFacts DEF SecureInv, ClientInv, ClientRecords
<1> QED
  BY <1>1, SecureInvInit, SecureInvNext, PTL DEF Spec
===============================================================================
