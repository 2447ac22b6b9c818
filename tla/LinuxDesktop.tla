---------------------------- MODULE LinuxDesktop -----------------------------
(***************************************************************************)
(* The Linux providers (crates/platform-linux): the portal session and its *)
(* PipeWire capture backend, the libei input backend behind it, and the    *)
(* hardware decoder.                                                       *)
(*                                                                         *)
(* Every method takes &mut self and is one step, except the import of a    *)
(* buffer: the portal token is an atomic that its revoker stores from any  *)
(* thread, so the poll is cut at each of its liveness checks.              *)
(*                                                                         *)
(* A presentation authorization is an Arc<AtomicBool> shared with every    *)
(* frame bound to it; auths lists them all, backend.auth is the current    *)
(* one.  Controls are keys, and buttons where they are in Buttons.         *)
(*                                                                         *)
(* input.native is what is down on the desktop.  Of it, input.direct was   *)
(* pressed by an owner of the InputBackend trait (HostRuntime, with its    *)
(* own ledger), whose actions pass this backend's reconciler by.           *)
(***************************************************************************)
EXTENDS Integers, Sequences, FiniteSets

CONSTANTS Modes, Streams, Formats, Buffers, Controls, Buttons, MaxSlots,
          MaxEpoch, MaxQueue, MaxMessage, Units, CodecEpochs, Faults

VARIABLES portal, backend, auths, token, source, poll, frames, input, decoder

vars == <<portal, backend, auths, token, source, poll, frames, input, decoder>>

R == INSTANCE InputReconciler

NoStream == "no stream"
NoFormat == [size |-> 0, domain |-> "none", modifier |-> FALSE, planes |-> 0]
Ready == {"keyboard", "pointer", "libei"}
NoUnit == [epoch |-> 0, id |-> 0, dep |-> 0, key |-> FALSE]

\* One native event; a buffer's format holds its descriptor.
Event(kind) ==
  [kind |-> kind, stream |-> NoStream, format |-> NoFormat, caps |-> {}, memory |-> "none"]

PortalEvents ==
  {Event(k) : k \in {"SessionCreated", "SourcesSelected", "Disconnected",
                     "PermissionRevoked", "Closed"}}
    \cup {[Event("DevicesSelected") EXCEPT !.caps = c] : c \in {Ready, {"keyboard", "libei"}}}
    \cup {[Event("Started") EXCEPT !.stream = s] : s \in Streams}
    \cup {[Event(k) EXCEPT !.stream = s, !.format = f] :
            k \in {"Connected", "Reconfigured"}, s \in Streams, f \in Formats}

NativeEvents == PortalEvents \cup Buffers

-----------------------------------------------------------------------------
(* LinuxPortalSession *)

\* PipeWireFormat::validate
ValidFormat(f) == f.planes \in 1 .. 4 /\ (f.domain = "cpu" => ~f.modifier)

Bumped(p) == [p EXCEPT !.epoch = @ + 1]

\* The phases in which the session accepts the event.
Accepts(p, e) ==
  CASE e.kind \in {"PermissionRevoked", "Closed"} -> p.phase \notin {"Idle", "Revoked", "Closed"}
    [] e.kind = "SessionCreated" -> p.phase = "AwaitingSession"
    [] e.kind = "DevicesSelected" ->
         p.mode = "control" /\ p.phase = "AwaitingDeviceSelection" /\ e.caps = Ready
    [] e.kind = "SourcesSelected" -> p.phase = "AwaitingSourceSelection"
    [] e.kind = "Started" -> p.phase = "AwaitingStart"
    [] e.kind = "Connected" ->
         /\ p.phase = "AwaitingPipeWire" \/ (p.phase = "Reconfiguring" /\ p.format = NoFormat)
         /\ p.stream = e.stream
         /\ ValidFormat(e.format)
    [] e.kind = "Reconfigured" ->
         p.phase = "Streaming" /\ p.stream = e.stream /\ ValidFormat(e.format)
    [] e.kind = "Disconnected" -> p.phase \in {"Streaming", "Reconfiguring"}

Terminated(p, phase) ==
  [p EXCEPT !.phase = phase, !.stream = NoStream, !.format = NoFormat, !.caps = {}]

\* LinuxPortalSession::apply: the session after an event it accepts.
Applied(p, e) ==
  CASE e.kind = "PermissionRevoked" -> Terminated(p, "Revoked")
    [] e.kind = "Closed" -> Terminated(p, "Closed")
    [] e.kind = "SessionCreated" ->
         [p EXCEPT !.phase = IF p.mode = "control" THEN "AwaitingDeviceSelection"
                             ELSE "AwaitingSourceSelection"]
    [] e.kind = "DevicesSelected" ->
         [p EXCEPT !.caps = e.caps, !.phase = "AwaitingSourceSelection"]
    [] e.kind = "SourcesSelected" -> [p EXCEPT !.phase = "AwaitingStart"]
    [] e.kind = "Started" -> [p EXCEPT !.stream = e.stream, !.phase = "AwaitingPipeWire"]
    [] e.kind = "Connected" ->
         [IF p.phase = "AwaitingPipeWire" THEN Bumped(p) ELSE p
            EXCEPT !.format = e.format, !.phase = "Streaming"]
    [] e.kind = "Reconfigured" ->
         [Bumped(p) EXCEPT !.format = e.format, !.phase = "Reconfiguring"]
    [] e.kind = "Disconnected" ->
         [IF p.phase = "Streaming" \/ p.format # NoFormat THEN Bumped(p) ELSE p
            EXCEPT !.format = NoFormat, !.phase = "Reconfiguring"]

Apply(p, e) == IF Accepts(p, e) THEN Applied(p, e) ELSE p

-----------------------------------------------------------------------------
(* LinuxPortalInputBackend *)

\* validate_action
Supported(caps, a) ==
  /\ "libei" \in caps
  /\ (IF a = R!Motion \/ a.control \in Buttons THEN "pointer" ELSE "keyboard") \in caps

\* The releases of a plan are pushed without any check.
Released(i, plan) == [i EXCEPT !.r = plan.r, !.native = R!Performed(@, plan.acts)]

\* set_connected, on_portal_revocation
SetConnected(i, connected) ==
  IF i.connected /\ ~connected
  THEN [Released(i, R!Disconnected(i.r)) EXCEPT !.connected = FALSE]
  ELSE [i EXCEPT !.connected = connected]

\* set_capability
SetCapability(i, caps) ==
  IF caps # Ready /\ i.connected
  THEN [SetConnected(i, FALSE) EXCEPT !.caps = caps]
  ELSE [i EXCEPT !.caps = caps, !.connected = @ \/ caps = Ready]

\* set_focused
SetFocused(i, focused) ==
  IF i.focused /\ ~focused
  THEN [Released(i, R!Unfocused(i.r)) EXCEPT !.focused = FALSE]
  ELSE [i EXCEPT !.focused = focused]

\* handle_input_message: the first unsupported action ends the injection, with
\* the reconciler already past the whole message.
Handled(i, m) ==
  LET out    == R!Applied(i.r, m)
      failed == {n \in DOMAIN out.acts : ~Supported(i.caps, out.acts[n])}
      done   == CHOOSE n \in 0 .. Len(out.acts) :
                  /\ \A k \in 1 .. n : k \notin failed
                  /\ n < Len(out.acts) => n + 1 \in failed
  IN  [i EXCEPT !.r = out.r, !.native = R!Performed(@, SubSeq(out.acts, 1, done))]

-----------------------------------------------------------------------------
Init ==
  /\ \E mode \in Modes :
       /\ portal = [mode |-> mode, phase |-> "Idle", stream |-> NoStream, format |-> NoFormat,
                    caps |-> {}, epoch |-> 0]
       /\ input = [present |-> mode = "control", caps |-> {}, connected |-> FALSE,
                   focused |-> TRUE, r |-> R!Fresh, native |-> {}, direct |-> {}]
  /\ backend = [alive |-> TRUE, started |-> FALSE, auth |-> 1]
  /\ auths = <<TRUE>>
  /\ token = "none"
  /\ source = <<>>
  /\ poll = [pc |-> "idle", event |-> Event("none")]
  /\ frames = {}
  /\ decoder = [configured |-> FALSE, epoch |-> 0, contEpoch |-> 0, last |-> 0,
                out |-> NoUnit, prev |-> NoUnit]

Disconnect(i) == IF i.present THEN SetConnected(i, FALSE) ELSE i

Unauthorized(a) == [a EXCEPT ![backend.auth] = FALSE]

Live == token # "revoked" /\ (backend.started => auths[backend.auth])

\* check_token_liveness on a dead token: everything is withdrawn at once.  A
\* live token with a withdrawn authorization changes nothing.
Withdraw ==
  IF token = "revoked"
  THEN /\ auths' = Unauthorized(auths)
       /\ portal' = Apply(portal, Event("PermissionRevoked"))
       /\ input' = Disconnect(input)
  ELSE UNCHANGED <<auths, portal, input>>

Idle == backend.alive /\ poll.pc = "idle"

\* set_token: another token takes the place of the old one, a revoked one too.
SetToken ==
  /\ Idle /\ token # "valid"
  /\ token' = "valid"
  /\ UNCHANGED <<portal, backend, auths, source, poll, frames, input, decoder>>

\* PortalTokenRevoker::revoke, from another thread.
RevokeElsewhere ==
  /\ "revoke" \in Faults
  /\ token = "valid"
  /\ token' = "revoked"
  /\ UNCHANGED <<portal, backend, auths, source, poll, frames, input, decoder>>

\* LinuxPortalCaptureBackend::revoke_token: without a token, and before the session
\* has begun, it leaves nothing behind that a later start would see.
RevokeToken ==
  /\ "revoke" \in Faults
  /\ Idle
  /\ token' = IF token = "none" THEN token ELSE "revoked"
  /\ auths' = Unauthorized(auths)
  /\ portal' = Apply(portal, Event("PermissionRevoked"))
  /\ input' = Disconnect(input)
  /\ UNCHANGED <<backend, source, poll, frames, decoder>>

\* A session begins only from Idle, so a backend starts once; a source that
\* refuses leaves the session waiting.
Start ==
  /\ Idle /\ ~backend.started
  /\ IF ~Live THEN Withdraw /\ UNCHANGED backend
     ELSE IF portal.phase # "Idle" THEN UNCHANGED <<portal, auths, input, backend>>
     ELSE /\ portal' = [portal EXCEPT !.phase = "AwaitingSession"]
          /\ UNCHANGED input
          /\ \/ /\ auths' = Append(auths, TRUE)
                /\ backend' = [backend EXCEPT !.started = TRUE, !.auth = Len(auths) + 1]
             \/ "source" \in Faults /\ UNCHANGED <<auths, backend>>
  /\ UNCHANGED <<token, source, poll, frames, decoder>>

\* The native adapter delivers an event.
PushEvent(e) ==
  /\ backend.started
  /\ Len(source) < MaxQueue
  /\ e.kind \in {"Connected", "Reconfigured", "Disconnected"} =>
       portal.epoch < MaxEpoch /\ Len(auths) <= MaxEpoch
  /\ source' = Append(source, e)
  /\ UNCHANGED <<portal, backend, auths, token, poll, frames, input, decoder>>

-----------------------------------------------------------------------------
(* poll_with_publisher *)

\* Faulty: the frames of the old format keep their authorization.
RenewedShared(a) == Append(a, TRUE)

\* PipeWireReconfigured: the old authorization is withdrawn, a new one made.
Renewed(a) == Append(Unauthorized(a), TRUE)

\* One portal event.  What ends or interrupts the stream withdraws the current
\* authorization and releases the input, whether or not the session accepts it.
PollPortal(e) ==
  /\ CASE e.kind \in {"PermissionRevoked", "Closed", "Disconnected"} ->
            /\ auths' = Unauthorized(auths)
            /\ input' = Disconnect(input)
            /\ UNCHANGED backend
       [] e.kind = "Reconfigured" ->
            /\ auths' = Renewed(auths)
            /\ backend' = [backend EXCEPT !.auth = Len(auths) + 1]
            /\ UNCHANGED input
       [] e.kind = "DevicesSelected" ->
            /\ input' = IF Accepts(portal, e) /\ input.present THEN SetCapability(input, e.caps)
                        ELSE input
            /\ UNCHANGED <<auths, backend>>
       [] OTHER -> UNCHANGED <<auths, input, backend>>
  /\ portal' = Apply(portal, e)

PollFinished == poll' = [pc |-> "idle", event |-> Event("none")]

\* The first liveness check comes before the source is asked.
PollTake ==
  /\ Idle /\ backend.started
  /\ IF ~Live THEN Withdraw /\ UNCHANGED <<source, poll, backend>>
     ELSE /\ source # <<>>
          /\ source' = Tail(source)
          /\ IF Head(source).kind = "Buffer"
             THEN /\ poll' = [pc |-> "taken", event |-> Head(source)]
                  /\ UNCHANGED <<portal, auths, input, backend>>
             ELSE PollPortal(Head(source)) /\ UNCHANGED poll
  /\ UNCHANGED <<token, frames, decoder>>

\* import_frame: the ledger's source layout must be the negotiated one, which a
\* shared-memory buffer describes as one plane of CPU memory.
Importable(e) ==
  /\ portal.phase = "Streaming"
  /\ e.stream = portal.stream
  /\ portal.format # NoFormat
  /\ e.format.size = portal.format.size /\ e.format.domain = portal.format.domain
  /\ e.memory = "shared" => portal.format.domain = "cpu" /\ portal.format.planes = 1
  /\ Cardinality(frames) < MaxSlots

\* DMA-BUF memory is converted on the GPU only when both sides name a modifier.
ImportPath(e) ==
  IF e.memory = "dmabuf" /\ portal.format.modifier /\ e.format.modifier
  THEN "GpuConvert" ELSE "CpuCopy"

PollImport ==
  /\ poll.pc = "taken"
  /\ IF ~Live THEN Withdraw /\ PollFinished
     ELSE /\ IF Importable(poll.event) THEN poll' = [poll EXCEPT !.pc = "imported"]
             ELSE PollFinished
          /\ UNCHANGED <<auths, portal, input>>
  /\ UNCHANGED <<backend, token, source, frames, decoder>>

\* CaptureFramePublisher::bind; the last check before the frame is returned.
PollBind ==
  /\ poll.pc = "imported"
  /\ IF ~Live THEN Withdraw /\ PollFinished
     ELSE poll' = [poll EXCEPT !.pc = "bound"] /\ UNCHANGED <<auths, portal, input>>
  /\ UNCHANGED <<backend, token, source, frames, decoder>>

Bound ==
  [slot |-> CHOOSE n \in 1 .. MaxSlots : \A f \in frames : f.slot # n,
   auth |-> backend.auth, epoch |-> portal.epoch, stream |-> portal.stream,
   format |-> portal.format, path |-> ImportPath(poll.event)]

\* Faulty: the frame is returned without a last look at the token.
PublishUnchecked == TRUE

Publishable == Live

PollPublish ==
  /\ poll.pc = "bound"
  /\ IF ~Publishable THEN Withdraw /\ UNCHANGED frames
     ELSE frames' = frames \cup {Bound} /\ UNCHANGED <<auths, portal, input>>
  /\ PollFinished
  /\ UNCHANGED <<backend, token, source, decoder>>

\* The consumer is done with a frame.
DropFrame(f) ==
  /\ frames' = frames \ {f}
  /\ UNCHANGED <<portal, backend, auths, token, source, poll, input, decoder>>

Resumable == portal.phase = "Reconfiguring" /\ portal.format # NoFormat

\* resume_after_reconfigure, by the coordinator once the old pipeline drained.
Resume ==
  /\ Idle /\ Resumable
  /\ portal' = [portal EXCEPT !.phase = "Streaming"]
  /\ auths' = [auths EXCEPT ![backend.auth] = TRUE]
  /\ UNCHANGED <<backend, token, source, poll, frames, input, decoder>>

Stop ==
  /\ Idle /\ backend.started
  /\ auths' = Unauthorized(auths)
  /\ backend' = [backend EXCEPT !.started = FALSE]
  /\ input' = Disconnect(input)
  /\ portal' = Apply(portal, Event("Closed"))
  /\ source' = <<>>
  /\ UNCHANGED <<token, poll, frames, decoder>>

\* Drop: the session is not told.
DropBackend ==
  /\ "drop" \in Faults
  /\ Idle
  /\ backend' = [backend EXCEPT !.alive = FALSE, !.started = FALSE]
  /\ IF backend.started
     THEN auths' = Unauthorized(auths) /\ input' = Disconnect(input) /\ source' = <<>>
     ELSE UNCHANGED <<auths, input, source>>
  /\ UNCHANGED <<portal, token, poll, frames, decoder>>

-----------------------------------------------------------------------------
(* The coordinator's calls through input_backend_mut. *)

InputMessages ==
  [epoch: 1 .. 2, seq: 1 .. MaxMessage, event: R!Events]

InputCall(i) ==
  /\ Idle /\ input.present
  /\ input' = i
  /\ UNCHANGED <<portal, backend, auths, token, source, poll, frames, decoder>>

HandleInputMessage(m) ==
  input.connected /\ input.focused /\ InputCall(Handled(input, m))

\* InputBackend::inject, which the reconciler does not see.
Inject(a) ==
  /\ input.connected /\ input.focused /\ Supported(input.caps, a)
  /\ InputCall([input EXCEPT !.native = R!Performed(@, <<a>>),
                             !.direct = R!Performed(@, <<a>>)])

\* InputBackend::release_all with the ledger of its caller, in any state.
ReleaseAll ==
  /\ input.direct # {}
  /\ InputCall([input EXCEPT !.native = @ \ input.direct, !.direct = {}])

Focus(focused) == focused # input.focused /\ InputCall(SetFocused(input, focused))

Connect(connected) ==
  connected # input.connected /\ InputCall(SetConnected(input, connected))

Capability(caps) == caps # input.caps /\ InputCall(SetCapability(input, caps))

-----------------------------------------------------------------------------
(* LinuxHardwareDecoder.  decoder.out is the last access unit decoded and     *)
(* prev the one decoded before it.                                           *)

DecoderStep(d) ==
  /\ decoder' = d
  /\ UNCHANGED <<portal, backend, auths, token, source, poll, frames, input>>

\* configure: another codec epoch starts the dependency chain afresh.
Configure(epoch) ==
  DecoderStep(IF epoch = decoder.epoch THEN [decoder EXCEPT !.configured = TRUE]
              ELSE [decoder EXCEPT !.configured = TRUE, !.epoch = epoch,
                                   !.contEpoch = 0, !.last = 0])

\* DecoderContinuity::classify; note_loss is never called here.
Classify(u) == u.key \/ (decoder.contEpoch = u.epoch /\ u.dep = decoder.last)

\* commit_decoded also wants the frame numbers to grow.
Committed(u) == u.key \/ u.id > decoder.last

\* decode and decode_surface: a full pool or a refused commit changes nothing.
Decode(u) ==
  /\ decoder.configured
  /\ Classify(u) /\ Committed(u)
  /\ DecoderStep([decoder EXCEPT !.contEpoch = u.epoch, !.last = u.id, !.out = u,
                                 !.prev = decoder.out])

ResetDecoder ==
  /\ decoder.configured
  /\ DecoderStep([decoder EXCEPT !.contEpoch = 0, !.last = 0])

-----------------------------------------------------------------------------
Next ==
  \/ SetToken \/ RevokeElsewhere \/ RevokeToken \/ Start \/ Stop \/ DropBackend
  \/ \E e \in NativeEvents : PushEvent(e)
  \/ PollTake \/ PollImport \/ PollBind \/ PollPublish \/ Resume
  \/ \E f \in frames : DropFrame(f)
  \/ \E m \in InputMessages : HandleInputMessage(m)
  \/ \E a \in [control: Controls, pressed: BOOLEAN] : Inject(a)
  \/ ReleaseAll
  \/ \E b \in BOOLEAN : Focus(b) \/ Connect(b)
  \/ \E c \in {Ready, {"keyboard", "libei"}} : Capability(c)
  \/ \E e \in CodecEpochs : Configure(e)
  \/ \E u \in Units : Decode(u)
  \/ ResetDecoder

Spec == Init /\ [][Next]_vars

-----------------------------------------------------------------------------
TypeOK ==
  /\ portal.epoch \in 0 .. MaxEpoch + MaxQueue
  /\ auths \in Seq(BOOLEAN) /\ backend.auth \in DOMAIN auths
  /\ token \in {"none", "valid", "revoked"}
  /\ input.native \subseteq Controls /\ input.direct \subseteq Controls
  /\ \A f \in frames : f.auth \in DOMAIN auths

\* A frame the consumer still holds can be presented only while the portal
\* streams, and only if it was captured under the current display epoch, stream
\* and negotiated format: a reconfiguration, a disconnect, a revocation, a stop
\* and a drop all take the retained frames with them.
FramesCurrent ==
  \A f \in frames : auths[f.auth] =>
    /\ backend.started /\ portal.phase = "Streaming"
    /\ f.epoch = portal.epoch /\ f.stream = portal.stream /\ f.format = portal.format

\* A display epoch names one negotiated stream and format.
EpochNamesFormat ==
  \A f, g \in frames : f.epoch = g.epoch => f.format = g.format /\ f.stream = g.stream

\* Once the session has ended no frame can be presented.
EndedIsEnded ==
  portal.phase \in {"Revoked", "Closed"} => \A f \in frames : ~auths[f.auth]

\* Whatever the messages pressed is in the reconciler's record, and a backend that
\* is disconnected or unfocused has lifted all of it, also after a message that was
\* injected only in part.  What was pressed through inject is not lifted: it stays
\* down until its owner releases it.
InputReleased ==
  /\ ~input.connected \/ ~input.focused => input.native \subseteq input.direct
  /\ input.native \subseteq input.r.held \cup input.direct

\* Each decoded unit is a recovery point or depends on the frame decoded just
\* before it.
ChainDecoded ==
  \/ decoder.out.key \/ decoder.out = NoUnit
  \/ decoder.out.dep = decoder.prev.id /\ decoder.out.epoch = decoder.prev.epoch

LinuxInv ==
  TypeOK /\ FramesCurrent /\ EpochNamesFormat /\ EndedIsEnded /\ InputReleased /\ ChainDecoded

Ended == {"Revoked", "Closed"}

\* No frame reaches the consumer over a revoked token or from a session that has
\* ended, and no call brings a revoked or closed portal back.  The step that ends the
\* session also disconnects the input and lifts every control the messages hold; the
\* coordinator may connect the input again.
RevocationFinal ==
  /\ token = "revoked" \/ portal.phase \in Ended => frames' \subseteq frames
  /\ portal.phase \in Ended => portal'.phase = portal.phase
  /\ portal.phase \notin Ended /\ portal'.phase \in Ended =>
       ~input'.connected /\ input'.native \subseteq input'.direct
=============================================================================
