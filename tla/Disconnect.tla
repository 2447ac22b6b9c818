------------------------------ MODULE Disconnect ------------------------------
(***************************************************************************)
(* SafeDisconnectController (crates/session/src/disconnect.rs) at the two    *)
(* ends of a session, and of the sessions that succeed it.  Disconnect       *)
(* messages may be lost, duplicated or arrive in a later session.            *)
(***************************************************************************)
EXTENDS Integers

CONSTANTS
  Ends, MaxSession, DrainTimeout,
  LastTime           \* the last value of the clock, at which deadlines saturate

VARIABLES
  controller,   \* per end: [session, state, deadline]
  pending,      \* per end: bytes are left to drain
  wires,        \* disconnect messages sent: [to, session]
  now,
  cause         \* history, per end: what ended the current session

vars == <<controller, pending, wires, now, cause>>

States == {"Connected", "Closing", "Closed"}
New(session) == [session |-> session, state |-> "Connected", deadline |-> 0]

Init ==
  /\ controller = [e \in Ends |-> New(1)]
  /\ pending = [e \in Ends |-> FALSE]
  /\ wires = {}
  /\ now = 0
  /\ cause = [e \in Ends |-> "none"]

\* can_process_traffic gates what an end queues.
Traffic(e) ==
  /\ controller[e].state = "Connected"
  /\ pending' = [pending EXCEPT ![e] = TRUE]
  /\ UNCHANGED <<controller, wires, now, cause>>

Drain(e) ==
  /\ pending[e]
  /\ pending' = [pending EXCEPT ![e] = FALSE]
  /\ UNCHANGED <<controller, wires, now, cause>>

SaturatingAdd(a, b) == IF a + b > LastTime THEN LastTime ELSE a + b

\* initiate_disconnect looks at no state: it may run again and again, and each time
\* the deadline moves.
InitiateDisconnect(e) ==
  /\ controller' = [controller EXCEPT ![e].state = "Closing",
                                   ![e].deadline = SaturatingAdd(now, DrainTimeout)]
  /\ wires' = wires \cup {[to |-> f, session |-> controller[e].session] : f \in Ends \ {e}}
  /\ cause' = [cause EXCEPT ![e] = "local"]
  /\ UNCHANGED <<pending, now>>

\* Faulty: the session named by the message is not compared.
MeantForAny(e, wire) == wire.to = e

\* handle_remote_disconnect's checks: the session and the epoch, one value here.
MeantFor(e, wire) == wire.to = e /\ wire.session = controller[e].session

\* The message stays in `wires`: it may be delivered again.
HandleRemoteDisconnect(e, wire) ==
  /\ MeantFor(e, wire)
  /\ controller[e].state # "Closed"
  /\ controller' = [controller EXCEPT ![e].state = "Closed"]
  /\ cause' = [cause EXCEPT ![e] = IF @ = "none" THEN "remote" ELSE @]
  /\ UNCHANGED <<pending, wires, now>>

Drained(e) == ~pending[e] \/ now >= controller[e].deadline

CheckDrain(e) ==
  /\ controller[e].state = "Closing"
  /\ Drained(e)
  /\ controller' = [controller EXCEPT ![e].state = "Closed"]
  /\ UNCHANGED <<pending, wires, now, cause>>

ForceClose(e) ==
  /\ controller' = [controller EXCEPT ![e].state = "Closed"]
  /\ cause' = [cause EXCEPT ![e] = "local"]
  /\ UNCHANGED <<pending, wires, now>>

\* A successor session gets a controller of its own at each end.
Successor(e) ==
  /\ controller[e].state = "Closed" /\ controller[e].session < MaxSession
  /\ controller' = [controller EXCEPT ![e] = New(@.session + 1)]
  /\ pending' = [pending EXCEPT ![e] = FALSE]
  /\ cause' = [cause EXCEPT ![e] = "none"]
  /\ UNCHANGED <<wires, now>>

Tick == now < LastTime /\ now' = now + 1 /\ UNCHANGED <<controller, pending, wires, cause>>

Next ==
  \/ \E e \in Ends : \/ Traffic(e) \/ Drain(e) \/ InitiateDisconnect(e) \/ CheckDrain(e)
                     \/ ForceClose(e) \/ Successor(e)
                     \/ \E wire \in wires : HandleRemoteDisconnect(e, wire)
  \/ Tick

Spec == Init /\ [][Next]_vars

-------------------------------------------------------------------------------
Controllers == [session : 1 .. MaxSession, state : States, deadline : 0 .. LastTime]

DisconnectTypeOK ==
  /\ controller \in [Ends -> Controllers]
  /\ pending \in [Ends -> BOOLEAN] /\ now \in 0 .. LastTime
  /\ wires \subseteq [to : Ends, session : 1 .. MaxSession]
  /\ cause \in [Ends -> {"none", "local", "remote"}]

\* A message closes only the session it was sent in: an end that the peer
\* disconnected has a peer that gave that session up, so that no message of an
\* old session closes its successor (handle_remote_disconnect).
RemoteCloseMeant ==
  \A e \in Ends : cause[e] = "remote" =>
    \E f \in Ends \ {e} : \/ controller[f].session > controller[e].session
                          \/ controller[f].session = controller[e].session
                             /\ controller[f].state # "Connected"

\* Fail closed: a session that began to end carries no traffic again, neither by
\* a repeated initiate_disconnect nor by a late message (can_process_traffic).
StaysClosed(e) ==
  controller[e].state # "Connected" /\ controller'[e].session = controller[e].session =>
    controller'[e].state # "Connected"
=============================================================================
