---------------------------- MODULE ClientRuntime ----------------------------
(***************************************************************************)
(* ClientRuntime (crates/runtime) with DecoderContinuity (crates/media) and *)
(* the presentation coordinator: one session on the client.  The network    *)
(* delivers reassembled frames in any order, repeatedly or never.           *)
(*                                                                         *)
(* An encoded frame is [id, dep, key, deadline]: dep is the frame it is     *)
(* predicted from (0 for none) and key says that it is a recovery point.    *)
(* Epochs are those of the session's stamp: a datagram of another stamp is  *)
(* dropped before it changes anything.                                      *)
(***************************************************************************)
EXTENDS InputReconciler, Presentation

CONSTANTS SessionDeadline, \* session_deadline_ns
          Encoded,         \* frames the host sent in this session
          MaxTime

VARIABLES
  progress,
  session,          \* SessionAuthority
  continuity,       \* DecoderContinuity: [begun, last]
  reference,        \* frame the native decoder predicts from
  presentation,     \* PresentationCoordinator
  decoding,         \* the decoder may be working
  shown,            \* frame handed to the renderer last
  failed,           \* teardown steps that reported an error
  now

pipeline == <<continuity, reference, presentation, decoding, shown>>
vars == <<progress, session, pipeline, failed, now>>

ClientProgress == {"PairingPending", "AwaitingLocalApproval", "Streaming", "Recovering",
                   "Closing", "Closed"}

Init ==
  /\ progress = "PairingPending"
  /\ session \in {NewAuthority(c, SessionDeadline) : c \in SUBSET Capabilities}
  /\ continuity = [begun |-> FALSE, last |-> None]
  /\ reference = None
  /\ presentation = NewCoordinator
  /\ decoding = FALSE
  /\ shown = NoFrame
  /\ failed = {}
  /\ now = 0

\* Faulty: any frame of the epoch is decoded once decoding has begun.
ClassifyLoose(c, f) ==
  IF f.key THEN "ResetAndDecode"
  ELSE IF c.begun THEN "Decode" ELSE "DropAndRequestRecovery"

\* DecoderContinuity::classify; nothing in the runtime notes a loss.
Classify(c, f) ==
  IF f.key THEN "ResetAndDecode"
  ELSE IF c.begun /\ f.dep = c.last THEN "Decode" ELSE "DropAndRequestRecovery"

\* commit_decoded
Committable(c, f) == f.key \/ (c.begun /\ f.dep = c.last /\ f.id > c.last)

\* Faulty: a recovery point does not become the reference.
CommittedKeepingLast(c, f) == [begun |-> TRUE, last |-> IF f.key /\ c.begun THEN c.last ELSE f.id]

Committed(c, f) == [begun |-> TRUE, last |-> f.id]

Presentable(f) == [epoch |-> 1, id |-> f.id, deadline |-> f.deadline]

\* Every teardown step is attempted.
StepsDone(results) == results

\* close_inner with the presentation as `pres` and the decoder at work if `busy`.
CloseInner(next, pres, busy) ==
  IF ~session.open
  THEN /\ progress' = "Closing"
       /\ presentation' = pres
       /\ decoding' = busy
       /\ UNCHANGED <<session, failed>>
  ELSE \E results \in [{"release", "quiesce", "shutdown"} -> BOOLEAN] :
         LET out == ShutDown(pres, StepsDone(results)["shutdown"])
         IN  /\ progress' = next
             /\ session' = ClosedAuthority(session)
             /\ presentation' = out.p
             /\ decoding' = (busy /\ ~StepsDone(results)["quiesce"])
             /\ failed' = {step \in DOMAIN results :
                             /\ ~results[step]
                             /\ step = "shutdown" => pres.flight # NoFlight}

Recover == CloseInner("Recovering", presentation, decoding)

-----------------------------------------------------------------------------
AwaitLocalApproval ==
  /\ progress = "PairingPending"
  /\ progress' = "AwaitingLocalApproval"
  /\ UNCHANGED <<session, pipeline, failed, now>>

Activate ==
  /\ progress \in {"PairingPending", "AwaitingLocalApproval"}
  /\ Dispatchable(session, now)
  /\ progress' = "Streaming"
  /\ UNCHANGED <<session, pipeline, failed, now>>

\* A decoded frame joins the queue; a presentation that needs quiescence, or
\* a surface that lost its authorization, ends in recovery.
QueueDecoded(f, valid) ==
  LET out == Submitted(presentation, Presentable(f), now, valid)
  IN  IF out.ok
      THEN /\ presentation' = out.p
           /\ decoding' = TRUE
           /\ UNCHANGED <<progress, session, failed>>
      ELSE CloseInner("Recovering", out.p, TRUE)

\* ingest_media of the datagram that completes frame f.  An expired datagram
\* is dropped first; then a missing permit, a broken chain, a failing or
\* mismatching decoder, each end in recovery.
IngestMedia(f) ==
  /\ progress = "Streaming"
  /\ f.deadline > now
  /\ \/ /\ ~Dispatchable(session, now) \/ Classify(continuity, f) = "DropAndRequestRecovery"
        /\ Recover
        /\ UNCHANGED <<continuity, reference>>
     \/ /\ Dispatchable(session, now)
        /\ Classify(continuity, f) # "DropAndRequestRecovery"
        /\ \/ /\ CloseInner("Recovering", presentation, TRUE)
              /\ UNCHANGED <<continuity, reference>>
           \/ /\ reference' = f.id
              /\ IF Committable(continuity, f)
                 THEN /\ continuity' = Committed(continuity, f)
                      /\ \E valid \in BOOLEAN : QueueDecoded(f, valid)
                 ELSE /\ CloseInner("Recovering", presentation, TRUE)
                      /\ UNCHANGED continuity
  /\ UNCHANGED <<shown, now>>

\* admit_control only asks the gate.
AdmitControl ==
  /\ progress = "Streaming"
  /\ ~Dispatchable(session, now)
  /\ Recover
  /\ UNCHANGED <<continuity, reference, shown, now>>

\* Faulty: a frame is handed over without asking the gate again.
PresentNextUngated ==
  /\ progress = "Streaming"
  /\ \E answer \in Presents :
       LET out == PresentedNext(presentation, now, TRUE, answer)
       IN  /\ out.ok
           /\ presentation' = out.p
           /\ shown' = IF out.shown = NoFrame THEN shown ELSE out.shown
           /\ UNCHANGED <<progress, session, decoding, failed>>
  /\ UNCHANGED <<continuity, reference, now>>

PresentNext ==
  /\ progress = "Streaming"
  /\ IF ~Dispatchable(session, now)
     THEN Recover /\ UNCHANGED shown
     ELSE \E answer \in Presents, valid \in BOOLEAN :
            LET out == PresentedNext(presentation, now, valid, answer)
            IN  /\ shown' = IF out.shown = NoFrame THEN shown ELSE out.shown
                /\ IF out.ok
                   THEN /\ presentation' = out.p
                        /\ UNCHANGED <<progress, session, decoding, failed>>
                   ELSE CloseInner("Recovering", out.p, decoding)
  /\ UNCHANGED <<continuity, reference, now>>

PollPresentCompletion ==
  /\ progress = "Streaming"
  /\ \/ /\ Dispatchable(session, now)
        /\ presentation.flight.state = "submitted"
        /\ presentation' = Completed(presentation).p
        /\ UNCHANGED <<progress, session, decoding, failed>>
     \/ /\ ~Dispatchable(session, now) \/ presentation.flight # NoFlight
        /\ Recover
  /\ UNCHANGED <<continuity, reference, shown, now>>

Close ==
  /\ progress # "Closed"
  /\ IF progress = "Recovering"
     THEN progress' = "Closed" /\ UNCHANGED <<session, presentation, decoding, failed>>
     ELSE CloseInner("Closed", presentation, decoding)
  /\ UNCHANGED <<continuity, reference, shown, now>>

Tick ==
  /\ now < MaxTime
  /\ now' = now + 1
  /\ UNCHANGED <<progress, session, pipeline, failed>>

Next ==
  \/ AwaitLocalApproval
  \/ Activate
  \/ \E f \in Encoded : IngestMedia(f)
  \/ AdmitControl
  \/ PresentNext
  \/ PollPresentCompletion
  \/ Close
  \/ Tick

Spec == Init /\ [][Next]_vars
-----------------------------------------------------------------------------
ClientTypeOK ==
  /\ progress \in ClientProgress
  /\ session.open \in BOOLEAN
  /\ session.capabilities \subseteq Capabilities
  /\ continuity \in [begun: BOOLEAN, last: {f.id : f \in Encoded} \cup {None}]
  /\ reference \in {f.id : f \in Encoded} \cup {None}
  /\ Queued(presentation) \cup {shown, presentation.flight.frame} \subseteq
       {Presentable(f) : f \in Encoded} \cup {NoFrame}
  /\ Len(presentation.items) <= Capacity
  /\ decoding \in BOOLEAN
  /\ failed \subseteq {"release", "quiesce", "shutdown"}
  /\ now \in 0 .. MaxTime

TornDown == progress \in {"Recovering", "Closed"}

\* The authority is closed exactly when the session was left: close_inner
\* never finds it closed, and no caller sees Closing.
AuthorityClosedOnce ==
  /\ progress # "Closing"
  /\ session.open <=> ~TornDown

\* After teardown nothing works for the session except what reported an error
\* when it was stopped: neither decoder, nor queue, nor renderer.
PipelineDrained ==
  TornDown =>
    /\ decoding => "quiesce" \in failed
    /\ presentation # NewCoordinator => "shutdown" \in failed

\* While streaming, the continuity tracker names the frame the native decoder
\* really predicts from.
TrackerMatchesDecoder == progress = "Streaming" => continuity.last = reference

\* A frame that is no recovery point is decoded only when the decoder holds
\* the very frame it was predicted from, whatever was lost, repeated or
\* overtaken before.
DecodedOnChain ==
  reference' # reference =>
    \E f \in Encoded : f.id = reference' /\ (f.key \/ (f.dep = reference /\ f.dep # None))

\* The picture never goes back, even when an old recovery point arrives again
\* and rewinds the decoder.
ShownAdvances == shown' # shown => shown'.id > shown.id

\* A frame reaches the renderer only before its deadline, in an active session
\* whose authority is live.
ShownUnderAuthority ==
  shown' # shown =>
    /\ progress = "Streaming"
    /\ now < session.deadline
    /\ now < shown'.deadline
=============================================================================
