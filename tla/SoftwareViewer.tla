---------------------------- MODULE SoftwareViewer ----------------------------
(***************************************************************************)
(* The portable software path, from end to end: the host's OpenH264        *)
(* encoder with its continuity planner (h264/src/software.rs and lib.rs)   *)
(* and media loop, and the client's window thread and network task         *)
(* (client/src/software_viewer.rs) with what they share: the latest-frame  *)
(* slot, the bounded input channel, the shutdown and the done signals.     *)
(*                                                                         *)
(* A step is what runs between two places where the other thread can see   *)
(* the shared state: one try_send, one take of the slot, one await.  A     *)
(* frame is its number, the frame it was predicted from and whether it is  *)
(* an IDR.  The wire keeps every frame sent; the session hands on only     *)
(* frames newer than the last, so a frame is lost by never being taken.    *)
(* Faults names what may go wrong: "loss" (of a frame on the wire), "busy" *)
(* (no room to send a frame), "decode", "close" (the peer closes cleanly), *)
(* "fail" (a reliable send fails or times out) and "stall" (the network    *)
(* task outlives the cleanup limit).                                       *)
(***************************************************************************)
EXTENDS Integers, Sequences, FiniteSets, FiniteSetsExt, SequencesExt

CONSTANTS Keys, Buttons,   \* the controls of the window
          Positions,       \* where the pointer can be, positive numbers
          MaxPending,      \* MAX_PENDING_RELIABLE_INPUT
          MaxQueue,        \* capacity of the input channel
          MaxFrames,       \* frames the encoder numbers
          MaxSamples,      \* rounds of the window loop that see new input
          Faults

VARIABLES encoder,   \* the planner and the pending IDR of the host
          wire,      \* frames the host has sent
          latest,    \* the slot: at most one frame waiting for the window
          ui,        \* the window thread
          queue,     \* the channel from the window thread to the network task
          net,       \* the network task
          shutdown,  \* the window thread has asked the network task to stop
          host       \* what the host has been told: the input held, the pointer

media == <<encoder, wire>>
vars == <<encoder, wire, latest, ui, queue, net, shutdown, host>>

Controls == Keys \cup Buttons
None == 0

-----------------------------------------------------------------------------
(* The host's encoder.                                                     *)

Frame(id, dep, idr) == [id |-> id, dep |-> dep, idr |-> idr]

\* ContinuityPlanner::new and SoftwareH264Encoder::new: the first frame is an IDR.
NewEncoder == [next |-> 1, last |-> None, recovery |-> TRUE, force |-> TRUE]

\* SoftwareH264Encoder::request_idr.
RequestIdr(e) == [e EXCEPT !.force = TRUE, !.recovery = TRUE]

\* ContinuityPlanner::accept of an access unit: the number is used up even when
\* the unit is refused; {} is RecoveryPointRequired.
Accepted(e, idr) ==
    IF idr THEN {Frame(e.next, None, TRUE)}
    ELSE IF e.recovery \/ e.last = None THEN {}
    ELSE {Frame(e.next, e.last, FALSE)}

\* The planner after accept.
Planned(e, idr) ==
    LET n == [e EXCEPT !.next = @ + 1] IN
    IF idr THEN [n EXCEPT !.last = e.next, !.recovery = FALSE]
    ELSE IF Accepted(e, idr) = {} THEN n
    ELSE [n EXCEPT !.last = e.next]

\* encode_nv12: what the codec produced goes through wrap_access_unit; a refusal
\* forces the next frame.
Encoded(e, idr) ==
    LET p == Planned(e, idr) IN
    [p EXCEPT !.force = Accepted(e, idr) = {}]

\* Faulty: a frame that could not be sent is only counted as dropped.
DroppedQuietly(e) == e

\* A transient send failure: the dropped frame is followed by an IDR.
Dropped(e) == RequestIdr(e)

\* One media tick of stream_desktop: a refused unit asks for an IDR, a unit that
\* meets a full path is dropped.  A forced frame is an IDR; the codec may make one
\* at any other time.
EncodeFrame(idr, sent) ==
    /\ encoder.next <= MaxFrames
    /\ encoder.force => idr
    /\ sent \/ "busy" \in Faults
    /\ LET e == Encoded(encoder, idr)
           f == Accepted(encoder, idr)
       IN  IF f = {} THEN encoder' = RequestIdr(e) /\ UNCHANGED wire
           ELSE IF sent THEN encoder' = e /\ wire' = wire \cup f
           ELSE encoder' = Dropped(e) /\ UNCHANGED wire
    /\ UNCHANGED <<latest, ui, queue, net, shutdown, host>>

-----------------------------------------------------------------------------
(* Input events.  An edge carries, as a ghost, where the pointer was when  *)
(* it was made; the message itself has no such field.                      *)

Edge(c, down, at) == [kind |-> "edge", control |-> c, down |-> down, at |-> at, held |-> {}]
Motion(p) == [kind |-> "motion", control |-> None, down |-> FALSE, at |-> p, held |-> {}]
Snapshot(h) == [kind |-> "snapshot", control |-> None, down |-> FALSE, at |-> None, held |-> h]
ReleaseAll == [kind |-> "release", control |-> None, down |-> FALSE, at |-> None, held |-> {}]

\* apply_held.
ApplyHeld(h, e) ==
    CASE e.kind = "edge" -> IF e.down THEN h \cup {e.control} ELSE h \ {e.control}
      [] e.kind = "motion" -> h
      [] OTHER -> e.held

\* What a thread that has h and goes through the events of s ends with.
Replay(h, s) == FoldLeft(ApplyHeld, h, s)

\* Faulty: a full queue makes room by dropping its oldest event.
PushDropsOldest(s, e, held) ==
    IF Len(s) < MaxPending THEN Append(s, e) ELSE Append(Tail(s), e)

\* PendingReliableInput::push: a full queue becomes one snapshot of what is held.
Push(s, e, held) ==
    IF Len(s) < MaxPending THEN Append(s, e) ELSE <<Snapshot(held)>>

-----------------------------------------------------------------------------
(* The network task.                                                       *)

NoNet == [pc |-> "idle", held |-> {}, event |-> ReleaseAll, frame |-> None,
          result |-> "none"]

Ended == net.pc \in {"ok", "error"}

\* The host hears one event, in order.
Heard(h, e) ==
    [h EXCEPT !.held = ApplyHeld(@, e), !.at = IF e.kind = "motion" THEN e.at ELSE @]

\* input_rx.recv: the event is applied to the task's own held state, then sent.
NetTake ==
    /\ net.pc = "select" /\ queue # <<>>
    /\ net' = [net EXCEPT !.pc = "send", !.event = Head(queue),
                          !.held = ApplyHeld(@, Head(queue))]
    /\ queue' = Tail(queue)
    /\ UNCHANGED <<media, latest, ui, shutdown, host>>

\* The snapshot tick.
NetSnapshot ==
    /\ net.pc = "select"
    /\ net' = [net EXCEPT !.pc = "send", !.event = Snapshot(net.held)]
    /\ UNCHANGED <<media, latest, ui, queue, shutdown, host>>

\* send_input_event ends: the peer heard it, the peer had closed, or it failed
\* with the record heard or not.
NetSent(outcome, heard) ==
    /\ net.pc \in {"send", "final"}
    /\ outcome \in {"ok"} \cup (Faults \cap {"close", "fail"})
    /\ CASE outcome = "ok" -> heard
         [] outcome = "close" -> ~heard
         [] OTHER -> TRUE
    /\ host' = IF heard THEN Heard(host, net.event) ELSE host
    /\ net' = CASE outcome = "fail" -> [net EXCEPT !.pc = "error", !.result = outcome]
                [] net.pc = "final" -> [net EXCEPT !.pc = "ok", !.result = outcome]
                [] outcome = "close" -> [net EXCEPT !.pc = "final", !.event = ReleaseAll]
                [] OTHER -> [net EXCEPT !.pc = "select", !.event = ReleaseAll]
    /\ UNCHANGED <<media, latest, ui, queue, shutdown>>

\* The frames the session may hand on next: any newer one, or without loss the next.
Arriving ==
    {f \in wire : /\ f.id > net.frame
                  /\ "loss" \in Faults \/ \A g \in wire : g.id > net.frame => f.id <= g.id}

\* receive_media_frame: the newest frame replaces what the window has not taken.
NetFrame(f) ==
    /\ net.pc = "select"
    /\ net' = [net EXCEPT !.frame = f.id]
    /\ latest' = {f}
    /\ UNCHANGED <<media, ui, queue, shutdown, host>>

\* receive_media_frame fails: a clean close ends the loop, another error the task.
NetFrameFails(why) ==
    /\ net.pc = "select" /\ why \in Faults \cap {"close", "fail"}
    /\ net' = IF why = "close" THEN [net EXCEPT !.pc = "final", !.event = ReleaseAll]
              ELSE [net EXCEPT !.pc = "error", !.result = why]
    /\ UNCHANGED <<media, latest, ui, queue, shutdown, host>>

\* The shutdown signal: the loop ends and ReleaseAll is the last message.
NetShutdown ==
    /\ net.pc = "select" /\ shutdown
    /\ net' = [net EXCEPT !.pc = "final", !.event = ReleaseAll]
    /\ UNCHANGED <<media, latest, ui, queue, shutdown, host>>

-----------------------------------------------------------------------------
(* The window thread.  One round of its loop goes through the program      *)
(* counters check, show, flush, motion, aim, motion, inputs.               *)

NoUi == [pc |-> "first", back |-> "motion", held |-> {}, pos |-> None, motion |-> None,
         aimed |-> FALSE, pending |-> <<>>, todo |-> {}, shown |-> None, decoded |-> None,
         intact |-> TRUE, samples |-> 0, error |-> FALSE]

Init ==
    /\ encoder = NewEncoder /\ wire = {}
    /\ latest = {} /\ ui = NoUi /\ queue = <<>> /\ net = NoNet /\ shutdown = FALSE
    /\ host = [held |-> {}, at |-> None]

\* The loop ends: the network task is asked to stop.
Leave(error) ==
    /\ ui' = [ui EXCEPT !.pc = "join", !.error = error, !.todo = {}]
    /\ shutdown' = TRUE

\* The head of the loop: the window was closed or Escape is down, the network task
\* has reported, or another round begins.
UiCheck(open) ==
    /\ ui.pc = "check"
    /\ IF ~open THEN Leave(FALSE)
       ELSE IF Ended THEN Leave(net.pc = "error")
       ELSE ui' = [ui EXCEPT !.pc = "show"] /\ UNCHANGED shutdown
    /\ UNCHANGED <<media, latest, queue, net, host>>

\* present_payload of one frame: H.264 decodes whatever it is given.
Presented(u, f) ==
    [u EXCEPT !.decoded = f.id, !.shown = f.id,
              !.intact = f.idr \/ (u.intact /\ f.dep = u.decoded)]

\* run: the first frame is awaited, decoded and shown before the network task is
\* started; a frame that does not decode, or none in time, ends the viewer.
UiFirst(f, ok) ==
    /\ ui.pc = "first"
    /\ IF ok THEN /\ ui' = [Presented(ui, f) EXCEPT !.pc = "check"]
                  /\ net' = [net EXCEPT !.pc = "select", !.frame = f.id]
       ELSE /\ "decode" \in Faults
            /\ ui' = [ui EXCEPT !.pc = "done", !.error = TRUE]
            /\ UNCHANGED net
    /\ UNCHANGED <<media, latest, queue, shutdown, host>>

\* The slot is taken and its frame decoded and shown.
UiShow(ok) ==
    /\ ui.pc = "show"
    /\ ok \/ (latest # {} /\ "decode" \in Faults)
    /\ latest' = {}
    /\ IF latest = {}
         THEN ui' = [ui EXCEPT !.pc = "flush", !.back = "motion"] /\ UNCHANGED shutdown
       ELSE IF ok
         THEN /\ ui' = [Presented(ui, CHOOSE f \in latest : TRUE)
                          EXCEPT !.pc = "flush", !.back = "motion"]
              /\ UNCHANGED shutdown
       ELSE Leave(TRUE)
    /\ UNCHANGED <<media, queue, net, host>>

\* PendingReliableInput::flush: one try_send.  A full channel leaves the rest for
\* the next flush, a closed one ends the loop.
UiFlush ==
    /\ ui.pc = "flush"
    /\ IF ui.pending = <<>> THEN ui' = [ui EXCEPT !.pc = ui.back] /\ UNCHANGED <<queue, shutdown>>
       ELSE IF Ended THEN Leave(TRUE) /\ UNCHANGED queue
       ELSE IF Len(queue) < MaxQueue
         THEN /\ queue' = Append(queue, Head(ui.pending))
              /\ ui' = [ui EXCEPT !.pending = Tail(@)]
              /\ UNCHANGED shutdown
       ELSE ui' = [ui EXCEPT !.pc = ui.back] /\ UNCHANGED <<queue, shutdown>>
    /\ UNCHANGED <<media, latest, net, host>>

\* flush_pending_motion, before and after the pointer is looked at.
UiMotion ==
    /\ ui.pc = "motion"
    /\ LET next == IF ui.aimed THEN "inputs" ELSE "aim" IN
       IF ui.motion = None THEN ui' = [ui EXCEPT !.pc = next] /\ UNCHANGED <<queue, shutdown>>
       ELSE IF Ended THEN Leave(TRUE) /\ UNCHANGED queue
       ELSE IF Len(queue) < MaxQueue
         THEN /\ queue' = Append(queue, Motion(ui.motion))
              /\ ui' = [ui EXCEPT !.pc = next, !.motion = None]
              /\ UNCHANGED shutdown
       ELSE ui' = [ui EXCEPT !.pc = next] /\ UNCHANGED <<queue, shutdown>>
    /\ UNCHANGED <<media, latest, net, host>>

\* get_mouse_pos, and the controls the rest of the round will report: a pointer
\* that moved replaces a motion still waiting.
UiAim(p, down) ==
    /\ ui.pc = "aim" /\ ui.samples < MaxSamples
    /\ ui' = [ui EXCEPT !.pc = IF p = ui.pos THEN "inputs" ELSE "motion",
                        !.aimed = TRUE, !.pos = p,
                        !.motion = IF p = ui.pos THEN @ ELSE p,
                        !.todo = {c \in Controls : (c \in down) # (c \in ui.held)},
                        !.samples = @ + 1]
    /\ UNCHANGED <<media, latest, queue, net, shutdown, host>>

\* A round in which nothing changed.
UiIdle ==
    /\ ui.pc = "aim"
    /\ ui' = [ui EXCEPT !.pc = "check"]
    /\ UNCHANGED <<media, latest, queue, net, shutdown, host>>

\* The order of the edges of a round: buttons, then keys pressed, then released.
Rank(c) == IF c \in Buttons THEN 1 ELSE IF c \in ui.held THEN 3 ELSE 2

\* One edge: the held state changes, the event is pushed and the queue flushed.
UiEdge(c) ==
    /\ ui.pc = "inputs" /\ c \in ui.todo
    /\ \A d \in ui.todo : Rank(c) <= Rank(d)
    /\ LET e == Edge(c, c \notin ui.held, ui.pos)
           h == ApplyHeld(ui.held, e)
       IN  ui' = [ui EXCEPT !.held = h, !.pending = Push(@, e, h), !.todo = @ \ {c},
                            !.pc = "flush", !.back = "inputs"]
    /\ UNCHANGED <<media, latest, queue, net, shutdown, host>>

\* The round is over.
UiRound ==
    /\ ui.pc = "inputs" /\ ui.todo = {}
    /\ ui' = [ui EXCEPT !.pc = "check", !.aimed = FALSE]
    /\ UNCHANGED <<media, latest, queue, net, shutdown, host>>

\* The window thread waits for the network task, or aborts it after five seconds.
UiJoin ==
    /\ ui.pc = "join"
    /\ \/ Ended /\ UNCHANGED net
       \/ /\ ~Ended /\ "stall" \in Faults
          /\ net' = [net EXCEPT !.pc = "error", !.result = "aborted"]
    /\ ui' = [ui EXCEPT !.pc = "done"]
    /\ UNCHANGED <<media, latest, queue, shutdown, host>>

Next ==
    \/ \E idr, sent \in BOOLEAN : EncodeFrame(idr, sent)
    \/ NetTake \/ NetSnapshot \/ NetShutdown
    \/ \E o \in {"ok", "close", "fail"}, heard \in BOOLEAN : NetSent(o, heard)
    \/ \E f \in Arriving : NetFrame(f) \/ \E ok \in BOOLEAN : UiFirst(f, ok)
    \/ \E why \in {"close", "fail"} : NetFrameFails(why)
    \/ \E b \in BOOLEAN : UiCheck(b) \/ UiShow(b)
    \/ UiFlush \/ UiMotion \/ UiIdle \/ UiRound \/ UiJoin
    \/ \E p \in Positions, down \in SUBSET Controls : UiAim(p, down)
    \/ \E c \in Controls : UiEdge(c)

Spec == Init /\ [][Next]_vars

-----------------------------------------------------------------------------
(* Properties.                                                             *)

\* Every frame on the wire is an IDR or was predicted from a frame that is itself
\* on the wire: the planner never numbers a unit after one that was dropped.
DependenciesSent ==
    \A f \in wire : f.idr \/ \E g \in wire : g.id = f.dep /\ g.id < f.id

\* Going through the channel and then the pending events takes the network task's
\* held state to the window's: a full queue folded into a snapshot loses no state.
HeldReplays ==
    net.pc \in {"select", "send"} => Replay(net.held, queue \o ui.pending) = ui.held

\* Between two sends the host has been told exactly what the network task holds.
HostFollows == net.pc = "select" => host.held = net.held

\* A network task that ends well towards an open peer leaves nothing held.
ReleasedAtEnd == net.pc = "ok" /\ net.result = "ok" => host.held = {}

\* What waits for the network task is bounded, and the picture never goes back.
ViewerBounded ==
    /\ Len(queue) <= MaxQueue /\ Len(ui.pending) <= MaxPending
    /\ ui.shown <= net.frame
    /\ \A f \in latest : f.id > ui.shown

ViewerInv == DependenciesSent /\ HeldReplays /\ HostFollows /\ ReleasedAtEnd /\ ViewerBounded

\* ADR 0004: "dependent frames are not fed to the decoder" when what they depend
\* on is missing.  (Without "loss" it can be missing only because the slot was
\* overwritten.)
DecodesInChain == ui.intact

===============================================================================
