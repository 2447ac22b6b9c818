---------------------------- MODULE WindowsCapture ----------------------------
(***************************************************************************)
(* Capture on Windows (crates/platform-windows): the broker that binds one   *)
(* interactive agent per generation, the capture backends of that binding,   *)
(* the desktop duplication source below each of them, and the publication    *)
(* gate that joins them.                                                     *)
(*                                                                         *)
(* Three kinds of threads meet: the owner of a backend, which calls start,   *)
(* poll, stop, recover and drop; the session monitor, which ends a           *)
(* generation; and whoever revokes the authorization of a window capture.    *)
(* One step is one lock section or one call into the system.  What an        *)
(* operation still has to do is in op; an abort, which any thread may run    *)
(* inside another operation, is in aborts.                                   *)
(*                                                                         *)
(* A window capture has no source in the repository: the source of a         *)
(* backend whose target is "Wgc" does what the trait asks, and may besides   *)
(* answer a stop with the receipt of another session and deliver a late      *)
(* callback.  Times are left out: a recovery is asked for when it is due.    *)
(***************************************************************************)
EXTENDS Integers, Sequences, FiniteSets

CONSTANTS
  Backends,        \* capture backends, built again after they were dropped
  Targets,         \* a subset of {"DesktopOutput", "Wgc"}
  Slots,           \* destination surfaces of a backend's pool
  MaxEpoch,        \* the display epoch after which checked_add fails
  MaxGeneration,   \* the same for the broker's generation
  MaxSessions,     \* native starts explored
  Faults           \* failures of the system that are explored

VARIABLES
  broker,      \* [state, generation, operations, sessions]
  gates,       \* per session: its backend and NativePublicationGateState
  authority,   \* per backend: [live, session] of its window authorization
  backend,     \* per backend: WindowsCaptureBackend and its CaptureSelector
  source,      \* per backend: DesktopDuplicationState and the capture object
  op,          \* per backend: what its owner is doing
  aborts,      \* per thread: the sessions it still has to abort
  frames       \* published frames the callers still hold

vars == <<broker, gates, authority, backend, source, op, aborts, frames>>

None == 0
Threads == Backends \cup {"monitor", "revoker"}

\* What an operation of a backend has done and has to do: the permit it holds, the
\* destination it reserved and what is in it, how the source is to be stopped, and when
\* the end of the drain is tried after the permit was given back.
NoOp == [pc |-> "idle", permit |-> FALSE, slot |-> None, token |-> 0, terminal |-> "Stopped",
         quiesce |-> FALSE, finish |-> "never", clears |-> FALSE, ok |-> TRUE,
         event |-> "none", epoch |-> 0]

NoAbort == [pc |-> "none", todo |-> {}, session |-> None, global |-> FALSE]

ClosedBackend ==
  [life |-> "none", generation |-> 0, target |-> "DesktopOutput", authorized |-> FALSE,
   state |-> "Idle", epoch |-> 0, session |-> None, registered |-> FALSE,
   cleanup |-> FALSE, pending |-> "none", deadline |-> FALSE]

\* A window authorization, of one start.
NewAuthority(live) == [live |-> live, session |-> None]

NewSource ==
  [active |-> None, epoch |-> 0, pending |-> FALSE, aborted |-> FALSE, running |-> FALSE]

Init ==
  /\ broker = [state |-> "Idle", generation |-> 0, operations |-> 0, sessions |-> {}]
  /\ gates = <<>>
  /\ authority = [b \in Backends |-> NewAuthority(FALSE)]
  /\ backend = [b \in Backends |-> ClosedBackend]
  /\ source = [b \in Backends |-> NewSource]
  /\ op = [b \in Backends |-> NoOp]
  /\ aborts = [t \in Threads |-> NoAbort]
  /\ frames = {}

-------------------------------------------------------------------------------
(* The broker.                                                                *)

\* What the local adapter and the agent's answer prove: the pipe's list, the token,
\* the process, the same user as at launch, and the challenge of this attempt.
Evidence == [pipe : BOOLEAN, token : BOOLEAN, process : BOOLEAN, user : BOOLEAN, answer : BOOLEAN]
Verified(e) == e.pipe /\ e.token /\ e.process /\ e.user /\ e.answer

BeginAgentLaunch ==
  /\ broker.state = "Idle"
  /\ broker' = [broker EXCEPT !.state = "AwaitingAgent"]
  /\ UNCHANGED <<gates, authority, backend, source, op, aborts, frames>>

\* One answer is taken per launch; a wrong one, or a generation that is used up, ends it.
AuthenticateAgent(e) ==
  /\ broker.state = "AwaitingAgent"
  /\ broker' = IF Verified(e) /\ broker.generation < MaxGeneration
               THEN [broker EXCEPT !.state = "AgentAuthenticated", !.generation = @ + 1]
               ELSE [broker EXCEPT !.state = "Idle"]
  /\ UNCHANGED <<gates, authority, backend, source, op, aborts, frames>>

Bound(b) == broker.generation = backend[b].generation
IsCurrent(b) == broker.state = "AgentAuthenticated" /\ Bound(b)
Drains(b) == broker.state = "Draining" /\ Bound(b)

\* session_changed: every session registered so far is aborted before it returns.
BeginSessionChange(t) ==
  /\ broker' = [broker EXCEPT !.state = "Draining"]
  /\ aborts' = [aborts EXCEPT ![t] = [NoAbort EXCEPT !.todo = broker.sessions]]

SessionChanged ==
  /\ broker.state = "AgentAuthenticated"
  /\ aborts["monitor"] = NoAbort
  /\ BeginSessionChange("monitor")
  /\ UNCHANGED <<gates, authority, backend, source, op, frames>>

CanBegin(b, allowDraining) == IsCurrent(b) \/ (allowDraining /\ Drains(b))
WithPermit == [broker EXCEPT !.operations = @ + 1]

\* finish_operation and unregister_session do nothing for a binding that is gone.
Counted(b) == broker.state \in {"AgentAuthenticated", "Draining"} /\ Bound(b)
WithoutPermit(b) == IF Counted(b) /\ broker.operations > 0
                    THEN [broker EXCEPT !.operations = @ - 1] ELSE broker
WithoutSession(b) == IF Counted(b) /\ backend[b].registered
                     THEN [broker EXCEPT !.sessions = @ \ {backend[b].session}] ELSE broker

Drained == broker.operations = 0 /\ broker.sessions = {}
AfterDrain(b) == IF Drains(b) /\ Drained THEN [broker EXCEPT !.state = "Idle"] ELSE broker

-------------------------------------------------------------------------------
(* The publication gate, and aborting a session.                              *)

NewGate(b) ==
  [backend |-> b, generation |-> backend[b].generation, open |-> TRUE, exact |-> "no",
   global |-> "no", token |-> 1, valid |-> TRUE]

GateClosed(g) == [g EXCEPT !.open = FALSE, !.valid = FALSE]
GateQuiesced(g) == [GateClosed(g) EXCEPT !.exact = "done"]
IsQuiesced(g) == g.exact = "done" \/ g.global = "done"

\* Faulty: an open gate keeps the authorization of the frames it published.
GateInvalidatedKept(g) == IF g.open THEN g ELSE [g EXCEPT !.valid = FALSE]

\* The frames already published lose their authorization; later ones get a new one.
GateInvalidated(g) == IF g.open THEN [g EXCEPT !.token = @ + 1] ELSE [g EXCEPT !.valid = FALSE]

CanPublish(g) == g.open /\ g.valid

\* A frame may be presented while the authorization it was published with stands.
Presentable(f) == gates[f.session].valid /\ f.token = gates[f.session].token

AbortBegin(t) ==
  /\ aborts[t].pc = "none" /\ aborts[t].todo # {}
  /\ LET s == CHOOSE x \in aborts[t].todo : \A y \in aborts[t].todo : x <= y
     IN  /\ aborts' = [aborts EXCEPT ![t].pc = "decide", ![t].session = s]
         /\ gates' = [gates EXCEPT ![s] = GateClosed(@)]
  /\ UNCHANGED <<broker, authority, backend, source, op, frames>>

AbortNext(t) == IF Cardinality(aborts[t].todo) = 1 THEN NoAbort
                ELSE [NoAbort EXCEPT !.todo = aborts[t].todo \ {aborts[t].session}]

\* One thread aborts; the others wait for it.
AbortDecide(t) ==
  /\ aborts[t].pc = "decide"
  /\ LET s == aborts[t].session
         g == gates[s]
         first == IF aborts[t].global THEN g.global = "no" ELSE g.exact = "no"
         over == g.global = "done" \/ (~aborts[t].global /\ g.exact = "done")
     IN  /\ g.global # "started"
         /\ over \/ first
         /\ IF over
            THEN aborts' = [aborts EXCEPT ![t] = AbortNext(t)] /\ UNCHANGED gates
            ELSE /\ aborts' = [aborts EXCEPT ![t].pc = "state"]
                 /\ gates' = IF aborts[t].global THEN [gates EXCEPT ![s].global = "started"]
                             ELSE [gates EXCEPT ![s].exact = "started"]
  /\ UNCHANGED <<broker, authority, backend, source, op, frames>>

\* The abort handle of the source: first its state, then its capture object.
AbortState(t) ==
  /\ aborts[t].pc = "state"
  /\ LET s == aborts[t].session
         b == gates[s].backend
     IN  IF aborts[t].global \/ source[b].active = s
         THEN /\ source' = [source EXCEPT ![b].active = None, ![b].pending = FALSE,
                                          ![b].aborted = TRUE]
              /\ aborts' = [aborts EXCEPT ![t].pc = "capture"]
         ELSE /\ aborts' = [aborts EXCEPT ![t].pc = "done"]
              /\ UNCHANGED source
  /\ UNCHANGED <<broker, gates, authority, backend, op, frames>>

AbortCapture(t) ==
  /\ aborts[t].pc = "capture"
  /\ source' = [source EXCEPT ![gates[aborts[t].session].backend].running = FALSE]
  /\ aborts' = [aborts EXCEPT ![t].pc = "done"]
  /\ UNCHANGED <<broker, gates, authority, backend, op, frames>>

AbortDone(t) ==
  /\ aborts[t].pc = "done"
  /\ gates' = [gates EXCEPT ![aborts[t].session] =
                 IF aborts[t].global THEN [@ EXCEPT !.global = "done", !.exact = "done"]
                 ELSE [@ EXCEPT !.exact = "done"]]
  /\ aborts' = [aborts EXCEPT ![t] = AbortNext(t)]
  /\ UNCHANGED <<broker, authority, backend, source, op, frames>>

Abort(t) == AbortBegin(t) \/ AbortDecide(t) \/ AbortState(t) \/ AbortCapture(t) \/ AbortDone(t)

\* WgcAuthorizationAuthority::revoke.
RevokeWgc(b) ==
  /\ authority[b].live /\ aborts["revoker"] = NoAbort
  /\ authority' = [authority EXCEPT ![b].live = FALSE]
  /\ aborts' = [aborts EXCEPT !["revoker"].todo = {authority[b].session} \ {None}]
  /\ UNCHANGED <<broker, gates, backend, source, op, frames>>

-------------------------------------------------------------------------------
(* The owner of a backend: the pieces its operations share.                   *)

Wgc(b) == backend[b].target = "Wgc"
Gate(b) == gates[backend[b].session]
Idle(b) == backend[b].life = "live" /\ op[b].pc = "idle"
At(b, pc) == op[b].pc = pc /\ aborts[b] = NoAbort
Goto(b, pc) == op' = [op EXCEPT ![b].pc = pc]

\* wgc_liveness_is_current: the authority of the start stands.
WgcLive(b) == ~Wgc(b) \/ authority[b].live

\* checked_add on the display epoch; without a next one the selector ends Failed.
CanAdvance(b) == backend[b].epoch < MaxEpoch
Failed(b) == [backend[b] EXCEPT !.state = "Failed"]
Advanced(b, state) == IF CanAdvance(b) THEN [backend[b] EXCEPT !.state = state, !.epoch = @ + 1]
                      ELSE Failed(b)

\* finish_source_quiescence without its use of the broker, WithoutSession.
Quiesced(b, terminal) ==
  [backend[b] EXCEPT !.session = None, !.registered = FALSE, !.cleanup = FALSE,
                     !.pending = "none", !.state = terminal]

FinishQuiescence(b, terminal) ==
  /\ broker' = WithoutSession(b)
  /\ backend' = [backend EXCEPT ![b] = Quiesced(b, terminal)]

\* The ways out of an operation that go on to stop the source.
ToStop(o, terminal) == [o EXCEPT !.pc = "stop", !.terminal = terminal]
ToQuiesce(o) == [o EXCEPT !.pc = "drain", !.terminal = "Stopped", !.quiesce = TRUE]
WithoutSurface(o) == [o EXCEPT !.slot = None, !.token = 0]

\* Faulty: the reservation is given back while the source may still write to it.
FailStopAtOnce(b) ==
  /\ op' = [op EXCEPT ![b].ok = FALSE, ![b].pc = "release"]
  /\ UNCHANGED aborts

\* An error on the way to the stop ends the operation; one that holds a reservation
\* aborts the session first.
FailStop(b) ==
  /\ op' = [op EXCEPT ![b].ok = FALSE, ![b].pc = IF op[b].slot = None THEN "release" ELSE "settle"]
  /\ aborts' = IF op[b].slot = None THEN aborts
               ELSE [aborts EXCEPT ![b].todo = {backend[b].session}]

\* begin_or_observe_drain: whoever sees the binding still current ends it.
Drain(b) ==
  /\ At(b, "drain")
  /\ \/ /\ IsCurrent(b)
        /\ Goto(b, "drainBegin") /\ UNCHANGED aborts
     \/ /\ Drains(b)
        /\ Goto(b, IF op[b].quiesce THEN "quiesce" ELSE "stop") /\ UNCHANGED aborts
     \/ /\ ~IsCurrent(b) /\ ~Drains(b)
        /\ FailStop(b)
  /\ UNCHANGED <<broker, gates, authority, backend, source, frames>>

\* session_changed of another thread may have come first: then this one fails.
DrainBegin(b) ==
  /\ At(b, "drainBegin")
  /\ IF broker.state = "AgentAuthenticated"
     THEN /\ BeginSessionChange(b)
          /\ Goto(b, IF op[b].quiesce THEN "quiesce" ELSE "stop")
     ELSE FailStop(b) /\ UNCHANGED broker
  /\ UNCHANGED <<gates, authority, backend, source, frames>>

\* selector.fail(SessionChanged); when that fails the source is not stopped.
Quiesce(b) ==
  /\ At(b, "quiesce")
  /\ backend' = IF backend[b].state = "Running"
                THEN [backend EXCEPT ![b] = Advanced(b, "Reconfiguring")] ELSE backend
  /\ IF backend[b].state = "Running" /\ ~CanAdvance(b)
     THEN FailStop(b)
     ELSE Goto(b, "stop") /\ UNCHANGED aborts
  /\ UNCHANGED <<broker, gates, authority, source, frames>>

\* stop_source_with_permit up to the call of the source.
StopSource(b) ==
  /\ At(b, "stop")
  /\ LET o == op[b]
         x == backend[b]
     IN  CASE x.session = None ->
                /\ backend' = [backend EXCEPT ![b].cleanup = FALSE, ![b].pending = "none",
                                              ![b].state = o.terminal]
                /\ Goto(b, "release")
                /\ UNCHANGED <<broker, gates>>
           [] x.session # None /\ IsQuiesced(Gate(b)) ->
                /\ FinishQuiescence(b, o.terminal)
                /\ Goto(b, "release")
                /\ UNCHANGED gates
           [] OTHER ->
                /\ gates' = [gates EXCEPT ![x.session] = GateClosed(@)]
                /\ Goto(b, "stopState")
                /\ UNCHANGED <<broker, backend>>
  /\ UNCHANGED <<authority, source, aborts, frames>>

\* DesktopDuplicationCaptureSource::stop, in two lock sections.
StopState(b) ==
  /\ At(b, "stopState")
  /\ IF source[b].active \in {backend[b].session, None}
     THEN /\ source' = [source EXCEPT ![b].active = None, ![b].pending = FALSE]
          /\ Goto(b, "stopCapture")
     ELSE Goto(b, "stopped") /\ UNCHANGED source
  /\ UNCHANGED <<broker, gates, authority, backend, aborts, frames>>

StopCapture(b) ==
  /\ At(b, "stopCapture")
  /\ \/ /\ source' = [source EXCEPT ![b].running = FALSE]
        /\ Goto(b, "stopped")
        /\ UNCHANGED <<backend, aborts>>
     \/ /\ "stop" \in Faults /\ source[b].running
        /\ backend' = [backend EXCEPT ![b].cleanup = TRUE, ![b].pending = op[b].terminal,
                                      ![b].state = "Draining"]
        /\ FailStop(b)
        /\ UNCHANGED source
     \/ /\ "receipt" \in Faults /\ Wgc(b)   \* the receipt of another session
        /\ source' = [source EXCEPT ![b].running = FALSE]
        /\ op' = [op EXCEPT ![b].ok = FALSE, ![b].pc = "settle"]
        /\ aborts' = [aborts EXCEPT ![b].todo = {backend[b].session}]
        /\ UNCHANGED backend
  /\ UNCHANGED <<broker, gates, authority, frames>>

Stopped(b) ==
  /\ At(b, "stopped")
  /\ gates' = [gates EXCEPT ![backend[b].session] = GateQuiesced(@)]
  /\ Goto(b, "settle")
  /\ UNCHANGED <<broker, authority, backend, source, aborts, frames>>

\* The source was stopped or aborted.
Settle(b) ==
  /\ At(b, "settle")
  /\ FinishQuiescence(b, op[b].terminal)
  /\ Goto(b, "release")
  /\ UNCHANGED <<gates, authority, source, aborts, frames>>

\* The reservation is dropped, then the permit.
Release(b) ==
  /\ At(b, "release")
  /\ broker' = IF op[b].permit THEN WithoutPermit(b) ELSE broker
  /\ LET o == op[b]
         try == CASE o.finish = "ok" -> o.ok
                  [] o.finish = "error" -> ~o.ok
                  [] o.finish = "clean" -> ~backend[b].cleanup
                  [] OTHER -> o.finish = "always"
     IN  op' = [op EXCEPT ![b] = IF try THEN [NoOp EXCEPT !.pc = "finish"] ELSE NoOp]
  /\ backend' = [backend EXCEPT ![b].deadline = @ /\ ~(op[b].clears /\ op[b].ok)]
  /\ UNCHANGED <<gates, authority, source, aborts, frames>>

\* try_finish_drain.
FinishDraining(b) ==
  /\ At(b, "finish")
  /\ broker' = AfterDrain(b)
  /\ op' = [op EXCEPT ![b] = NoOp]
  /\ UNCHANGED <<gates, authority, backend, source, aborts, frames>>

-------------------------------------------------------------------------------
(* Building, starting, recovering, stopping and dropping a backend.           *)

BeingAborted(s) == \E t \in Threads : s \in aborts[t].todo

\* A new backend has a new source and, for a window, a new authorization.
NewBackend(b, target) ==
  /\ broker.state = "AgentAuthenticated"
  /\ backend[b].life # "live" /\ op[b] = NoOp
  /\ \A s \in DOMAIN gates : gates[s].backend = b => ~BeingAborted(s)
  /\ backend' = [backend EXCEPT ![b] = [ClosedBackend EXCEPT !.life = "live", !.target = target,
                   !.generation = broker.generation, !.authorized = target = "Wgc"]]
  /\ source' = [source EXCEPT ![b] = NewSource]
  /\ authority' = [authority EXCEPT ![b] = NewAuthority(target = "Wgc")]
  /\ UNCHANGED <<broker, gates, op, aborts, frames>>

StartBound == Len(gates) + Cardinality({b \in Backends : op[b].pc \in {"admit", "attach"}}) < MaxSessions

\* A window authorization is used up by the start, whether it succeeds or not.
Start(b) ==
  /\ Idle(b) /\ StartBound
  /\ backend[b].session = None /\ ~backend[b].cleanup /\ ~backend[b].deadline
  /\ Wgc(b) => backend[b].authorized
  /\ LET live == WgcLive(b)
     IN  /\ backend' = [backend EXCEPT ![b].authorized = FALSE,
                                       ![b].state = IF live THEN @ ELSE "Revoked"]
         /\ op' = IF live THEN [op EXCEPT ![b] = [NoOp EXCEPT !.pc = "admit", !.finish = "error"]] ELSE op
  /\ UNCHANGED <<broker, gates, authority, source, aborts, frames>>

\* begin_operation(false) and selector.start, whose error does not try to end a drain.
StartAdmit(b) ==
  /\ At(b, "admit")
  /\ LET starts == backend[b].state \in {"Idle", "Stopped"}
         next == IF starts /\ CanAdvance(b) THEN [op[b] EXCEPT !.pc = "attach", !.permit = TRUE]
                 ELSE [NoOp EXCEPT !.pc = "release", !.permit = TRUE]
     IN  IF IsCurrent(b)
         THEN /\ broker' = WithPermit
              /\ backend' = IF starts THEN [backend EXCEPT ![b] = Advanced(b, "Running")] ELSE backend
              /\ op' = [op EXCEPT ![b] = next]
         ELSE op' = [op EXCEPT ![b] = NoOp] /\ UNCHANGED <<broker, backend>>
  /\ UNCHANGED <<gates, authority, source, aborts, frames>>

\* A start on a source that runs for a generation that is over stops it.
StartAgain(b) ==
  /\ Idle(b) /\ backend[b].session # None /\ Drains(b)
  /\ broker' = WithPermit
  /\ op' = [op EXCEPT ![b] = [NoOp EXCEPT !.pc = "drain", !.permit = TRUE, !.finish = "ok"]]
  /\ UNCHANGED <<gates, authority, backend, source, aborts, frames>>

Recover(b) ==
  /\ Idle(b) /\ StartBound
  /\ backend[b].deadline /\ backend[b].state = "Reconfiguring"
  /\ ~Wgc(b) /\ backend[b].session = None /\ ~backend[b].cleanup /\ IsCurrent(b)
  /\ broker' = WithPermit
  /\ backend' = [backend EXCEPT ![b].state = "Running"]
  /\ op' = [op EXCEPT ![b] = [NoOp EXCEPT !.pc = "attach", !.permit = TRUE, !.finish = "error",
                                          !.clears = TRUE]]
  /\ UNCHANGED <<gates, authority, source, aborts, frames>>

\* launch_source: a new session and its gate, known to the window authority first.
LaunchAttach(b) ==
  /\ At(b, "attach")
  /\ LET s == Len(gates) + 1
         refused == Wgc(b) /\ (~authority[b].live \/ authority[b].session # None)
     IN  IF refused
         THEN /\ op' = [op EXCEPT ![b].pc = "release", ![b].ok = FALSE]
              /\ UNCHANGED <<gates, authority, backend>>
         ELSE /\ gates' = Append(gates, NewGate(b))
              /\ authority' = IF Wgc(b) THEN [authority EXCEPT ![b].session = s] ELSE authority
              /\ backend' = [backend EXCEPT ![b].session = s]
              /\ Goto(b, "register")
  /\ UNCHANGED <<broker, source, aborts, frames>>

LaunchRegister(b) ==
  /\ At(b, "register")
  /\ IF IsCurrent(b)
     THEN /\ broker' = [broker EXCEPT !.sessions = @ \cup {backend[b].session}]
          /\ backend' = [backend EXCEPT ![b].registered = TRUE]
          /\ Goto(b, "launchLive")
          /\ UNCHANGED aborts
     ELSE /\ op' = [op EXCEPT ![b].pc = "settle", ![b].ok = FALSE]
          /\ aborts' = [aborts EXCEPT ![b].todo = {backend[b].session}]
          /\ UNCHANGED <<broker, backend>>
  /\ UNCHANGED <<gates, authority, source, frames>>

LaunchGate(b) ==
  /\ At(b, "launchGate")
  /\ Goto(b, IF Gate(b).open THEN "nativeStart" ELSE "verdict")
  /\ UNCHANGED <<broker, gates, authority, backend, source, aborts, frames>>

\* What ended the launch before the source was started.
LaunchVerdict(b) ==
  /\ At(b, "verdict")
  /\ op' = [op EXCEPT ![b].pc = "settle", ![b].ok = FALSE,
                      ![b].terminal = IF WgcLive(b) THEN "Stopped" ELSE "Revoked"]
  /\ UNCHANGED <<broker, gates, authority, backend, source, aborts, frames>>

\* DesktopDuplicationCaptureSource::start does not look at the cancellation it is given.
NativeStart(b) ==
  /\ At(b, "nativeStart")
  /\ \/ /\ Wgc(b) => Gate(b).open
        /\ source' = [source EXCEPT ![b] = [active |-> backend[b].session, epoch |-> backend[b].epoch,
                                            pending |-> FALSE, aborted |-> FALSE, running |-> TRUE]]
        /\ Goto(b, "startedLive")
     \/ /\ "start" \in Faults \/ (Wgc(b) /\ ~Gate(b).open)
        /\ op' = [op EXCEPT ![b] = [ToStop(@, "Failed") EXCEPT !.ok = FALSE]]
        /\ UNCHANGED source
  /\ UNCHANGED <<broker, gates, authority, backend, aborts, frames>>

Stop(b) ==
  /\ Idle(b)
  /\ IF backend[b].session = None
     THEN /\ backend' = [backend EXCEPT ![b].deadline = FALSE, ![b].pending = "none",
                                        ![b].state = "Stopped"]
          /\ UNCHANGED <<broker, op>>
     ELSE /\ CanBegin(b, TRUE)
          /\ broker' = WithPermit
          /\ op' = [op EXCEPT ![b] =
                [ToStop(NoOp, IF backend[b].pending \in {"none", "Reconfiguring"}
                              THEN "Stopped" ELSE backend[b].pending)
                   EXCEPT !.permit = TRUE, !.finish = "ok", !.clears = TRUE]]
          /\ UNCHANGED backend
  /\ UNCHANGED <<gates, authority, source, aborts, frames>>

\* Drop needs no permit; it aborts what still runs.
Drop(b) ==
  /\ Idle(b)
  /\ backend' = [backend EXCEPT ![b].life = "dropped"]
  /\ IF backend[b].session # None
     THEN /\ aborts' = [aborts EXCEPT ![b].todo = {backend[b].session}]
          /\ op' = [op EXCEPT ![b] = [NoOp EXCEPT !.pc = "settle", !.finish = "always"]]
     ELSE /\ op' = [op EXCEPT ![b] = [NoOp EXCEPT !.pc = "finish"]]
          /\ UNCHANGED aborts
  /\ UNCHANGED <<broker, gates, authority, source, frames>>

-------------------------------------------------------------------------------
(* Polling.                                                                   *)

\* A generation that is over is quiesced by the poll that meets it.
Poll(b) ==
  /\ Idle(b) /\ backend[b].state = "Running" /\ backend[b].session # None
  /\ CanBegin(b, TRUE)
  /\ broker' = WithPermit
  /\ op' = [op EXCEPT ![b] = IF IsCurrent(b)
                             THEN [NoOp EXCEPT !.pc = "pollLive", !.permit = TRUE]
                             ELSE [ToQuiesce(NoOp) EXCEPT !.permit = TRUE, !.finish = "ok"]]
  /\ UNCHANGED <<gates, authority, backend, source, aborts, frames>>

\* permit.is_current(), asked again after every call that may take time.
CurrentThen ==
  [launchCurrent |-> "launchGate", startedCurrent |-> "release", polledCurrent |-> "polledLive",
   frameCurrent |-> "frameLive", discardedCurrent |-> "discardedLive",
   reservedCurrent |-> "reservedLive", detachedCurrent |-> "detachedLive",
   refusedCurrent |-> "refused", boundCurrent |-> "boundLive", notedCurrent |-> "release"]

CheckCurrent(b) ==
  /\ op[b].pc \in DOMAIN CurrentThen /\ At(b, op[b].pc)
  /\ LET o == op[b]
     IN  op' = [op EXCEPT ![b] =
           CASE IsCurrent(b) -> [o EXCEPT !.pc = CurrentThen[o.pc]]
             [] ~IsCurrent(b) /\ o.pc = "launchCurrent" -> [o EXCEPT !.pc = "verdict"]
             [] ~IsCurrent(b) /\ o.pc = "startedCurrent" ->
                  [o EXCEPT !.pc = "drain", !.ok = FALSE]
             [] ~IsCurrent(b) /\ o.pc = "polledCurrent" -> [ToQuiesce(o) EXCEPT !.finish = "ok"]
             [] ~IsCurrent(b) /\ o.pc = "reservedCurrent" -> ToQuiesce(o)
             [] OTHER -> ToQuiesce(WithoutSurface(o))]
  /\ UNCHANGED <<broker, gates, authority, backend, source, aborts, frames>>

\* The same for the window authorization.
LiveThen ==
  [launchLive |-> "launchCurrent", startedLive |-> "startedCurrent", pollLive |-> "pollState",
   polledLive |-> "event", frameLive |-> "frame", discardedLive |-> "release",
   reservedLive |-> "detach", detachedLive |-> "publish", refusedLive |-> "refusedCurrent",
   boundLive |-> "deliver"]

CheckLive(b) ==
  /\ op[b].pc \in DOMAIN LiveThen /\ At(b, op[b].pc)
  /\ LET o == op[b]
     IN  op' = [op EXCEPT ![b] =
           CASE WgcLive(b) -> [o EXCEPT !.pc = LiveThen[o.pc],
                                        !.finish = IF o.pc = "polledLive" THEN "clean" ELSE @]
             [] ~WgcLive(b) /\ o.pc = "launchLive" -> [o EXCEPT !.pc = "verdict"]
             [] ~WgcLive(b) /\ o.pc = "startedLive" -> [ToStop(o, "Revoked") EXCEPT !.ok = FALSE]
             [] ~WgcLive(b) /\ o.pc = "reservedLive" -> ToStop(o, "Revoked")
             [] OTHER -> ToStop(WithoutSurface(o), "Revoked")]
  /\ UNCHANGED <<broker, gates, authority, backend, source, aborts, frames>>

\* The source's poll: its state, the system's call, its state again.
SourceSilent(b) ==
  \/ source[b].aborted
  \/ source[b].active = None
  \/ ~gates[source[b].active].open

PollState(b) ==
  /\ At(b, "pollState")
  /\ op' = [op EXCEPT ![b].epoch = source[b].epoch,
                      ![b].event = IF SourceSilent(b) \/ ~source[b].pending THEN "none" ELSE "error",
                      ![b].pc = IF SourceSilent(b) \/ source[b].pending
                                THEN "polledCurrent" ELSE "pollCapture"]
  /\ UNCHANGED <<broker, gates, authority, backend, source, aborts, frames>>

DesktopEvents == {"none", "frame", "protected", "accessLost", "sessionChanged", "revoked",
                  "error", "denied", "deviceLost"}
WgcEvents == (DesktopEvents \ {"sessionChanged"})
               \cup {"displayChanged", "itemClosed", "endOfStream", "late"}

PollCapture(b, e) ==
  /\ At(b, "pollCapture")
  /\ e \in {"none", "frame"} \cup Faults
  /\ e \in IF Wgc(b) THEN WgcEvents ELSE DesktopEvents
  /\ op' = [op EXCEPT ![b].event = IF source[b].running THEN e ELSE "error",
                      ![b].pc = IF source[b].running THEN "pollEvent" ELSE "polledCurrent"]
  /\ UNCHANGED <<broker, gates, authority, backend, source, aborts, frames>>

PollEvent(b) ==
  /\ At(b, "pollEvent")
  /\ LET e == IF SourceSilent(b) THEN "none" ELSE op[b].event
         masked == e = "protected" /\ ~Wgc(b)
         next == [source EXCEPT ![b].epoch = (@ + 1) % (MaxEpoch + 1)]
     IN  /\ \/ e = "frame" /\ source' = [source EXCEPT ![b].pending = TRUE]
            \/ (masked \/ e = "displayChanged") /\ source' = next
            \/ e # "frame" /\ ~masked /\ UNCHANGED source
         /\ op' = [op EXCEPT ![b].event = e, ![b].pc = "polledCurrent"]
  /\ UNCHANGED <<broker, gates, authority, backend, aborts, frames>>

\* fail_native_with_permit: what a failure makes of the selector, and how the source
\* is stopped for it.
Failing(b, e) ==
  CASE e = "accessLost" -> [Advanced(b, "Reconfiguring") EXCEPT !.deadline = @ \/ CanAdvance(b)]
    [] e = "deviceLost" -> Advanced(b, "Reconfiguring")
    [] OTHER -> backend[b]

FailTerminal(b, e) ==
  CASE e = "accessLost" /\ CanAdvance(b) -> "Reconfiguring"
    [] e \in {"revoked", "denied"} -> "Revoked"
    [] OTHER -> "Failed"

\* The failures of a copy.  That of the desktop source gives no time for an access
\* loss, which is then no better than any other failure.
CopyFailures(b) ==
  Faults \cap ({"deviceLost", "denied", "contract"} \cup (IF Wgc(b) THEN {"accessLost"} ELSE {}))

\* The events other than a frame.  A fault of the selector ends as Failed.
Event(b) ==
  /\ At(b, "event")
  /\ LET o == op[b]
         e == o.event
         x == backend[b]
         noted == (e = "protected" /\ ~Wgc(b)) \/ e = "displayChanged"
     IN  /\ backend' = [backend EXCEPT ![b] = IF noted THEN Advanced(b, "Running") ELSE Failing(b, e)]
         /\ gates' = IF e = "protected" /\ ~Wgc(b)
                     THEN [gates EXCEPT ![x.session] = GateInvalidated(@)] ELSE gates
         /\ aborts' = IF e = "late"
                      THEN [aborts EXCEPT ![b].todo = {x.session}, ![b].global = TRUE] ELSE aborts
         /\ op' = [op EXCEPT ![b] =
              CASE e = "none" -> [o EXCEPT !.pc = "release"]
                [] e = "frame" -> [o EXCEPT !.pc = "frameCurrent"]
                [] e = "late" -> [o EXCEPT !.pc = "settle", !.terminal = "Failed"]
                [] noted /\ CanAdvance(b) -> [o EXCEPT !.pc = "notedCurrent"]
                [] e = "sessionChanged" -> ToQuiesce(o)
                [] e \in {"endOfStream"} \/ (e = "itemClosed" /\ Wgc(b)) -> ToStop(o, "Stopped")
                [] OTHER -> ToStop(o, FailTerminal(b, e))]
  /\ UNCHANGED <<broker, authority, source, frames>>

FreeSlots(b) ==
  Slots \ ({f.slot : f \in {g \in frames : g.backend = b}} \cup {op[b].slot})

\* A frame of another display epoch, or one there is no destination for, is discarded.
Frame(b) ==
  /\ At(b, "frame")
  /\ \/ /\ op[b].epoch # backend[b].epoch \/ FreeSlots(b) = {}
        /\ Goto(b, "discard")
     \/ /\ op[b].epoch = backend[b].epoch
        /\ \E s \in FreeSlots(b) :
             op' = [op EXCEPT ![b].pc = "reservedCurrent", ![b].slot = s]
     \/ /\ op[b].epoch = backend[b].epoch /\ "contract" \in Faults   \* a bad descriptor
        /\ op' = [op EXCEPT ![b] = ToStop(@, "Failed")]
  /\ UNCHANGED <<broker, gates, authority, backend, source, aborts, frames>>

\* Only the frame the source still holds for this session and epoch.
HasPending(b) ==
  source[b].active = backend[b].session /\ source[b].pending /\ source[b].epoch = op[b].epoch

Discard(b) ==
  /\ At(b, "discard")
  /\ \/ /\ HasPending(b) /\ source[b].running
        /\ source' = [source EXCEPT ![b].pending = FALSE]
        /\ Goto(b, "discardedCurrent")
        /\ UNCHANGED backend
     \/ /\ ~HasPending(b) \/ ~source[b].running
        /\ op' = [op EXCEPT ![b] = ToStop(@, "Failed")]
        /\ UNCHANGED <<source, backend>>
     \/ /\ HasPending(b) /\ source[b].running
        /\ \E e \in CopyFailures(b) :
             /\ op' = [op EXCEPT ![b] = ToStop(@, FailTerminal(b, e))]
             /\ backend' = [backend EXCEPT ![b] = Failing(b, e)]
        /\ UNCHANGED source
  /\ UNCHANGED <<broker, gates, authority, aborts, frames>>

\* A failure keeps the reservation until the source has stopped.
Detach(b) ==
  /\ At(b, "detach")
  /\ \/ /\ HasPending(b) /\ source[b].running
        /\ source' = [source EXCEPT ![b].pending = FALSE]
        /\ Goto(b, "detachedCurrent")
        /\ UNCHANGED backend
     \/ /\ ~HasPending(b) \/ ~source[b].running
        /\ op' = [op EXCEPT ![b] = ToStop(@, "Failed")]
        /\ UNCHANGED <<source, backend>>
     \/ /\ HasPending(b) /\ source[b].running
        /\ \E e \in CopyFailures(b) :
             /\ op' = [op EXCEPT ![b] = ToStop(@, FailTerminal(b, e))]
             /\ backend' = [backend EXCEPT ![b] = Failing(b, e)]
        /\ source' = [source EXCEPT ![b].pending = FALSE]
  /\ UNCHANGED <<broker, gates, authority, aborts, frames>>

\* The gate decides; a refused frame is dropped, and so is one of another reservation.
Publish(b) ==
  /\ At(b, "publish")
  /\ \/ op' = [op EXCEPT ![b] = IF CanPublish(Gate(b))
                                THEN [@ EXCEPT !.pc = "boundCurrent", !.token = Gate(b).token]
                                ELSE [WithoutSurface(@) EXCEPT !.pc = "refusedLive"]]
     \/ /\ "contract" \in Faults
        /\ op' = [op EXCEPT ![b] = ToStop(WithoutSurface(@), "Failed")]
  /\ UNCHANGED <<broker, gates, authority, backend, source, aborts, frames>>

Refused(b) ==
  /\ At(b, "refused")
  /\ op' = [op EXCEPT ![b] = ToStop(@, "Failed")]
  /\ UNCHANGED <<broker, gates, authority, backend, source, aborts, frames>>

Deliver(b) ==
  /\ At(b, "deliver")
  /\ frames' = frames \cup {[backend |-> b, slot |-> op[b].slot, session |-> backend[b].session,
                             token |-> op[b].token, epoch |-> op[b].epoch]}
  /\ op' = [op EXCEPT ![b] = [WithoutSurface(@) EXCEPT !.pc = "release"]]
  /\ UNCHANGED <<broker, gates, authority, backend, source, aborts>>

DropFrame(f) ==
  /\ frames' = frames \ {f}
  /\ UNCHANGED <<broker, gates, authority, backend, source, op, aborts>>

-------------------------------------------------------------------------------
Owner(b) ==
  \/ \E target \in Targets : NewBackend(b, target)
  \/ Start(b) \/ StartAdmit(b) \/ StartAgain(b) \/ Recover(b) \/ Stop(b) \/ Drop(b)
  \/ LaunchAttach(b) \/ LaunchRegister(b) \/ LaunchGate(b) \/ LaunchVerdict(b) \/ NativeStart(b)
  \/ Poll(b) \/ PollState(b) \/ PollEvent(b) \/ Event(b)
  \/ \E e \in DesktopEvents \cup WgcEvents : PollCapture(b, e)
  \/ Frame(b) \/ Discard(b) \/ Detach(b) \/ Publish(b) \/ Refused(b) \/ Deliver(b)
  \/ CheckCurrent(b) \/ CheckLive(b)
  \/ Drain(b) \/ DrainBegin(b) \/ Quiesce(b) \/ StopSource(b) \/ StopState(b) \/ StopCapture(b)
  \/ Stopped(b) \/ Settle(b) \/ Release(b) \/ FinishDraining(b)

Next ==
  \/ BeginAgentLaunch
  \/ \E e \in Evidence : AuthenticateAgent(e)
  \/ SessionChanged
  \/ \E b \in Backends : Owner(b) \/ RevokeWgc(b)
  \/ \E t \in Threads : Abort(t)
  \/ \E f \in frames : DropFrame(f)

Spec == Init /\ [][Next]_vars

-------------------------------------------------------------------------------
(* What is checked.                                                           *)

\* The broker's counts are the operations and sessions there are: a drain ends with the
\* last of them, never earlier, and never waits for one that is gone.
CountsExact ==
  LET mine == {b \in Backends : Bound(b)}
  IN  /\ broker.state \in {"AgentAuthenticated", "Draining"} =>
           /\ broker.operations = Cardinality({b \in mine : op[b].permit})
           /\ broker.sessions = {backend[b].session : b \in {c \in mine : backend[c].registered}}
      /\ broker.state \in {"Idle", "AwaitingAgent"} =>
           \A b \in Backends : ~op[b].permit /\ ~backend[b].registered

\* A frame a caller still holds can be presented only in the generation it was captured
\* in and under a standing authorization, but for the moment until the session change,
\* or the revocation, has aborted its session.
OnlyLivePresented ==
  \A f \in frames : Presentable(f) =>
    \/ BeingAborted(f.session)
    \/ /\ broker.state = "AgentAuthenticated" /\ gates[f.session].generation = broker.generation
       /\ gates[f.session].open /\ WgcLive(f.backend)

\* Protected content takes every earlier desktop frame from the screen: what can still
\* be presented of a running capture is of its present display epoch.
ProtectedForgotten ==
  \A f \in frames :
    Presentable(f) /\ ~Wgc(f.backend) /\ backend[f.backend].state = "Running"
      => f.epoch = backend[f.backend].epoch

\* A destination belongs to one frame at a time.
SlotsUnique ==
  \A f, g \in frames : f.backend = g.backend /\ f.slot = g.slot => f = g

CaptureInv == CountsExact /\ OnlyLivePresented /\ ProtectedForgotten /\ SlotsUnique

\* A destination whose copy failed is given back only after the gate has recorded that
\* the source no longer runs.
ReservationKept ==
  \A b \in Backends :
    op[b].slot # None /\ op'[b].slot = None /\ op[b].pc = "release" /\ op[b].token = 0
      => \E s \in DOMAIN gates : gates[s].backend = b /\ IsQuiesced(gates[s])
===============================================================================
