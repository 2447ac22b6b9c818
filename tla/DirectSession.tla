--------------------------- MODULE DirectSession ---------------------------
(***************************************************************************)
(* The direct UDP session: AuthenticatedDatagramEndpoint, and the host and *)
(* client loops of the lab mode that run over it.                          *)
(*                                                                         *)
(* Hello, HelloAck, Authenticate and HandshakeCompleted, media fragments   *)
(* and input envelopes share one datagram socket per side; the network     *)
(* loses, duplicates and reorders them.  A nonce is the process that drew  *)
(* it, a session id the run of the host that assigned it, and a tag names  *)
(* what compute_auth_tag mixes.  A host process ends after one client; the *)
(* next run binds the same port and may meet what is still in flight.      *)
(***************************************************************************)
EXTENDS Integers, Sequences, FiniteSets, FiniteSetsExt

CONSTANTS Clients,      \* client processes
          Device,         \* Device[c]: fingerprint of its device
          SecretOf,       \* SecretOf[c]: the secret it was given
          HostSecret,     \* the host's
          Pinned,         \* fingerprints pinned on the host's command line
          Approve,        \* --approve
          Mode,           \* Mode[c]: "frames", "probe" or "viewer"
          Needed,         \* frames a headless client waits for; it counts no further
          HostMtu, ClientMtu, MinMtu, MaxMtu,
          FrameLen,       \* bytes of an access unit
          MaxFrames,      \* --frames of the host
          Cadence,        \* frames between keyframes, 2 * fps
          MaxRuns,        \* host processes
          Controls,       \* keys and buttons
          MaxInputs,      \* inputs a viewer produces
          MaxCommands,    \* capacity of the viewer's command channel
          MaxPump,        \* MAX_FRAMES_PER_PUMP
          Faults          \* of "timeout", "capture", "inject"

VARIABLES host,       \* the host process
          client,     \* client[c]: a client process
          toHost,     \* datagrams on their way to the host's port
          toClient    \* toClient[c]: and to a client

vars == <<host, client, toHost, toClient>>

R == INSTANCE InputReconciler

NoOne == "none"

-----------------------------------------------------------------------------
(* Datagrams. *)

Dgram == [kind |-> "", from |-> NoOne, fp |-> NoOne, nonce |-> NoOne, server |-> 0, session |-> 0,
          epoch |-> 0, mtu |-> 0, tag |-> <<>>, frame |-> 0, part |-> 0, parts |-> 0,
          key |-> FALSE, dep |-> 0, seq |-> 0, event |-> [kind |-> "motion"]]

Least(a, b) == IF a < b THEN a ELSE b
Clamp(m) == Least(Max({m, MinMtu}), MaxMtu)

\* compute_auth_tag mixes the secret with both nonces, the session and the epoch.
AuthTag(secret, session, epoch, cn, sn) == <<secret, session, epoch, cn, sn>>

Hello(c) == [Dgram EXCEPT !.kind = "Hello", !.from = c, !.fp = Device[c], !.nonce = c,
                          !.mtu = ClientMtu]

HelloAck(h) == [Dgram EXCEPT !.kind = "HelloAck", !.server = h.run, !.session = h.session,
                             !.epoch = h.epoch, !.mtu = h.mtu]

Authenticate(c, ack) ==
    [Dgram EXCEPT !.kind = "Authenticate", !.from = c, !.session = ack.session,
                  !.epoch = ack.epoch, !.nonce = c,
                  !.tag = AuthTag(SecretOf[c], ack.session, ack.epoch, c, ack.server)]

Completed(h) == [Dgram EXCEPT !.kind = "Completed", !.session = h.session, !.epoch = h.epoch,
                              !.server = h.run]

\* fragment_frame: the pieces of a frame under the negotiated MTU.
Fragments(h, id, key) ==
    LET n == (FrameLen + h.mtu - 1) \div h.mtu
    IN  {[Dgram EXCEPT !.kind = "Media", !.frame = id, !.part = p, !.parts = n, !.key = key,
                       !.dep = IF key THEN 0 ELSE id - 1] : p \in 1..n}

Input(c, seq, event) == [Dgram EXCEPT !.kind = "Input", !.from = c, !.seq = seq, !.event = event]

\* The network keeps what was sent: a datagram may be received again, later than
\* one sent after it, or never.
Sending(c, ds) == toClient' = [toClient EXCEPT ![c] = @ \cup ds]

-----------------------------------------------------------------------------
(* The host. *)

NoHost == [pc |-> "wait", run |-> 1, peer |-> NoOne, hs |-> "Initial", nonce |-> NoOne,
           proof |-> NoOne, session |-> 0, epoch |-> 1, mtu |-> HostMtu, pins |-> {}, frame |-> 0,
           rec |-> R!Fresh, native |-> {}, stuck |-> {}]

\* host_handle_hello: an unpinned device fails the session, any other (again)
\* gets the session's parameters.
HandleHello(h, d) ==
    IF d.fp \notin h.pins THEN [h EXCEPT !.hs = "Failed", !.pc = "failed"]
    ELSE [h EXCEPT !.hs = "HelloAckSent", !.pc = "shake", !.nonce = d.nonce,
                   !.mtu = Clamp(Least(d.mtu, @)), !.session = h.run, !.epoch = 1]

Answer(h) == IF h.hs = "HelloAckSent" THEN {HelloAck(h)} ELSE {}

\* wait_first_datagram and run_unsafe_udp_lab: the first datagram must be a
\* Hello; its sender becomes the peer, and approval pins its device.
HostFirst(d) ==
    /\ host.pc = "wait" /\ d \in toHost
    /\ LET h == [host EXCEPT !.peer = d.from,
                             !.pins = Pinned \cup (IF Approve THEN {d.fp} ELSE {})]
       IN  /\ host' = IF d.kind # "Hello" THEN [h EXCEPT !.pc = "failed"] ELSE HandleHello(h, d)
           /\ Sending(d.from, Answer(host'))
    /\ UNCHANGED <<client, toHost>>

\* Faulty: the tag is not verified.
AuthenticatesUntagged(h, d) ==
    IF d.session # h.session \/ d.epoch # h.epoch THEN [h EXCEPT !.pc = "failed"]
    ELSE [h EXCEPT !.hs = "Active", !.pc = "media", !.proof = d.from]

\* host_handle_authenticate in HelloAckSent.
HandleAuthenticate(h, d) ==
    IF d.session # h.session \/ d.epoch # h.epoch THEN [h EXCEPT !.pc = "failed"]
    ELSE IF d.tag # AuthTag(HostSecret, h.session, h.epoch, h.nonce, h.run)
      THEN [h EXCEPT !.hs = "Failed", !.pc = "failed"]
    ELSE [h EXCEPT !.hs = "Active", !.pc = "media", !.proof = d.from]

\* complete_host_handshake: one datagram of the connected peer.  A repeated
\* Hello is answered again, anything but Authenticate ends the process.
HostShake(d) ==
    /\ host.pc = "shake" /\ d \in toHost /\ d.from = host.peer
    /\ host' = CASE d.kind = "Hello" -> HandleHello(host, d)
                 [] d.kind = "Authenticate" -> HandleAuthenticate(host, d)
                 [] OTHER -> [host EXCEPT !.pc = "failed"]
    /\ Sending(host.peer, IF host'.hs = "Active" THEN {Completed(host')}
                          ELSE IF host'.pc = "shake" THEN {HelloAck(host')} ELSE {})
    /\ UNCHANGED <<client, toHost>>

HostTimeout ==
    /\ host.pc \in {"wait", "shake"} /\ "timeout" \in Faults
    /\ host' = [host EXCEPT !.pc = "failed"]
    /\ UNCHANGED <<client, toHost, toClient>>

\* release_session_input: the record is cleared and every control on it goes up,
\* except those whose release the desktop refuses: inject's error is dropped.
Released(h, refused) ==
    [h EXCEPT !.rec = R!Disconnected(h.rec).r, !.stuck = @ \cup refused,
              !.native = R!Performed(h.native, R!Disconnected(h.rec).acts)
                           \cup (h.native \cap refused)]

\* The media loop ended, well or with an error: the input is released either way.
Ended(h) ==
    \E refused \in SUBSET (IF "inject" \in Faults THEN h.rec.held ELSE {}) :
        host' = [Released(h, refused) EXCEPT !.pc = "done"]

\* apply_input_datagram: anything but an input envelope is ignored, a stale
\* sequence does nothing, and the first injection that fails ends the loop.
HostInput(d) ==
    /\ host.pc = "media" /\ d \in toHost /\ d.from = host.peer
    /\ LET a == R!Applied(host.rec, [epoch |-> 1, seq |-> d.seq, event |-> d.event])
           h == [host EXCEPT !.rec = a.r, !.native = R!Performed(@, a.acts)]
       IN  IF d.kind # "Input" THEN UNCHANGED host
           ELSE \/ host' = h
                \/ /\ "inject" \in Faults
                   /\ \E n \in DOMAIN a.acts :
                        Ended([h EXCEPT !.native = R!Performed(host.native, SubSeq(a.acts, 1, n - 1)),
                                        !.stuck = host.rec.held \ a.r.held])
    /\ UNCHANGED <<client, toHost, toClient>>

IsKeyframe(id) == id = 1 \/ id % Cadence = 0

\* A frame is due: capture, send its fragments, end after the last one.
HostFrame ==
    /\ host.pc = "media" /\ host.frame < MaxFrames
    /\ LET id == host.frame + 1
       IN  \/ /\ Sending(host.peer, Fragments(host, id, IsKeyframe(id)))
              /\ IF id >= MaxFrames THEN Ended([host EXCEPT !.frame = id])
                                    ELSE host' = [host EXCEPT !.frame = id]
           \/ /\ "capture" \in Faults
              /\ Ended([host EXCEPT !.frame = id])
              /\ UNCHANGED toClient
    /\ UNCHANGED <<client, toHost>>

\* The operator starts the host again.
HostAgain ==
    /\ host.pc \in {"failed", "done"} /\ host.run < MaxRuns
    /\ host' = [NoHost EXCEPT !.run = host.run + 1]
    /\ UNCHANGED <<client, toHost, toClient>>

-----------------------------------------------------------------------------
(* The client. *)

NoClient == [pc |-> "start", hs |-> "Initial", session |-> 0, epoch |-> 1, mtu |-> ClientMtu,
             partial |-> {}, got |-> {}, count |-> 0, seq |-> 0, held |-> {},
             cmds |-> <<>>, frames |-> <<>>, shown |-> 0, running |-> TRUE, net |-> "idle"]

Set(c, r) == client' = [client EXCEPT ![c] = r]
Me(c) == client[c]

\* client_initiate_handshake, at the start and again after every quiet interval.
ClientHello(c) ==
    /\ Me(c).pc \in {"start", "hello"}
    /\ toHost' = toHost \cup {Hello(c)}
    /\ Set(c, [Me(c) EXCEPT !.pc = "hello", !.hs = "HelloSent"])
    /\ UNCHANGED <<host, toClient>>

\* client_handle_hello_ack: adopt the parameters, prove the secret.
ClientAck(c, d) ==
    /\ Me(c).pc = "hello" /\ d \in toClient[c]
    /\ IF d.kind = "HelloAck"
         THEN /\ Set(c, [Me(c) EXCEPT !.pc = "complete", !.session = d.session,
                                      !.epoch = d.epoch, !.mtu = Clamp(d.mtu)])
              /\ toHost' = toHost \cup {Authenticate(c, d)}
         ELSE Set(c, [Me(c) EXCEPT !.pc = "failed"]) /\ UNCHANGED toHost
    /\ UNCHANGED <<host, toClient>>

\* run_inject_probe sends one pointer move and ReleaseAll, then waits for frames.
ProbeInputs(c) == {Input(c, 1, [kind |-> "motion"]), Input(c, 2, [kind |-> "release_all"])}

\* client_handle_handshake_completed, then the mode of the command line.
ClientCompleted(c, d) ==
    /\ Me(c).pc = "complete" /\ d \in toClient[c]
    /\ IF d.kind = "Completed" /\ d.session = Me(c).session /\ d.epoch = Me(c).epoch
         THEN /\ Set(c, [Me(c) EXCEPT !.pc = "stream", !.hs = "Active",
                                      !.seq = IF Mode[c] = "probe" THEN 2 ELSE 0])
              /\ toHost' = toHost \cup (IF Mode[c] = "probe" THEN ProbeInputs(c) ELSE {})
         ELSE Set(c, [Me(c) EXCEPT !.pc = "failed"]) /\ UNCHANGED toHost
    /\ UNCHANGED <<host, toClient>>

ClientTimeout(c) ==
    /\ Me(c).pc \in {"hello", "complete"} \/ (Me(c).pc = "stream" /\ Mode[c] # "viewer")
    /\ "timeout" \in Faults
    /\ Set(c, [Me(c) EXCEPT !.pc = "failed"])
    /\ UNCHANGED <<host, toHost, toClient>>

\* receive_media_datagram.  The replay filter's verdict on the frame id is not
\* used, and the reassembler keeps partial frames only.
Ingested(c, d) ==
    LET r     == Me(c)
        parts == {p \in r.partial : p.frame = d.frame} \cup {d}
    IN  IF Cardinality(parts) < d.parts THEN [r EXCEPT !.partial = @ \cup {d}]
        ELSE [r EXCEPT !.partial = @ \ parts, !.count = Least(@ + 1, Needed), !.got = @ \cup {d.frame},
                       !.frames = IF r.pc = "viewing" /\ Len(@) < MaxPump
                                    THEN Append(@, d.frame) ELSE @]

\* receive_completed_frames_for: a datagram that is not media ends the process.
HeadlessMedia(c, d) ==
    /\ Me(c).pc = "stream" /\ Mode[c] # "viewer" /\ d \in toClient[c]
    /\ IF d.kind # "Media" THEN Set(c, [Me(c) EXCEPT !.pc = "failed"])
       ELSE LET r == Ingested(c, d)
            IN  Set(c, [r EXCEPT !.pc = IF r.count >= Needed THEN "done" ELSE @])
    /\ UNCHANGED <<host, toHost, toClient>>

\* wait_first_completed_frame: the viewer opens its window on the first frame and
\* starts its network thread.
FirstFrame(c, d) ==
    /\ Me(c).pc = "stream" /\ Mode[c] = "viewer" /\ d \in toClient[c]
    /\ IF d.kind # "Media" THEN Set(c, [Me(c) EXCEPT !.pc = "failed"])
       ELSE LET r == Ingested(c, d)
            IN  Set(c, IF r.got = {} THEN r
                       ELSE [r EXCEPT !.pc = "viewing", !.shown = d.frame, !.net = "check"])
    /\ UNCHANGED <<host, toHost, toClient>>

\* The viewer's network thread: look whether to go on, send the queued commands,
\* take one datagram.
NetCheck(c) ==
    /\ Me(c).net = "check"
    /\ Set(c, [Me(c) EXCEPT !.net = IF Me(c).running THEN "drain" ELSE "exit"])
    /\ UNCHANGED <<host, toHost, toClient>>

NetDrain(c) ==
    /\ Me(c).net = "drain"
    /\ IF Me(c).cmds = <<>> THEN /\ Set(c, [Me(c) EXCEPT !.net = "recv"])
                                 /\ UNCHANGED toHost
       ELSE LET d == Head(Me(c).cmds)
            IN  /\ Set(c, [Me(c) EXCEPT !.cmds = Tail(@),
                                        !.net = IF d.kind = "Stop" THEN "exit" ELSE @])
                /\ toHost' = IF d.kind = "Stop" THEN toHost ELSE toHost \cup {d}
    /\ UNCHANGED <<host, toClient>>

NetReceive(c, d) ==
    /\ Me(c).net = "recv" /\ d \in toClient[c]
    /\ Set(c, IF d.kind = "Media" THEN [Ingested(c, d) EXCEPT !.net = "check"]
                                  ELSE [Me(c) EXCEPT !.net = "exit"])
    /\ UNCHANGED <<host, toHost, toClient>>

NetQuiet(c) ==
    /\ Me(c).net = "recv"
    /\ Set(c, [Me(c) EXCEPT !.net = "check"])
    /\ UNCHANGED <<host, toHost, toClient>>

\* try_send on the bounded command channel.
Queued(cmds, d) == IF Len(cmds) < MaxCommands THEN Append(cmds, d) ELSE cmds

\* One window event: a key or button goes down or up.
UiInput(c, k) ==
    /\ Me(c).pc = "viewing" /\ Me(c).seq < MaxInputs
    /\ LET down == k \notin Me(c).held
           e == [kind |-> IF down THEN "press" ELSE "release", control |-> k]
       IN  Set(c, [Me(c) EXCEPT !.held = IF down THEN @ \cup {k} ELSE @ \ {k}, !.seq = @ + 1,
                                !.cmds = Queued(@, Input(c, Me(c).seq + 1, e))])
    /\ UNCHANGED <<host, toHost, toClient>>

\* take_latest_frame: of the frames waiting, the last is presented.
UiShow(c) ==
    /\ Me(c).pc = "viewing" /\ Me(c).frames # <<>>
    /\ LET n == Least(Len(Me(c).frames), MaxPump)
       IN  Set(c, [Me(c) EXCEPT !.shown = Me(c).frames[n], !.frames = SubSeq(@, n + 1, Len(@))])
    /\ UNCHANGED <<host, toHost, toClient>>

\* The window closes or its input queue overflowed: ReleaseAll and Stop are
\* queued and the thread is told to end.
UiClose(c) ==
    /\ Me(c).pc = "viewing"
    /\ LET q == Queued(Me(c).cmds, Input(c, Me(c).seq + 1, [kind |-> "release_all"]))
       IN  Set(c, [Me(c) EXCEPT !.pc = "closing", !.seq = @ + 1, !.held = {}, !.running = FALSE,
                                !.cmds = Queued(q, [Dgram EXCEPT !.kind = "Stop"])])
    /\ UNCHANGED <<host, toHost, toClient>>

UiJoin(c) ==
    /\ Me(c).pc = "closing" /\ Me(c).net = "exit"
    /\ Set(c, [Me(c) EXCEPT !.pc = "done", !.cmds = <<>>, !.frames = <<>>])
    /\ UNCHANGED <<host, toHost, toClient>>

-----------------------------------------------------------------------------

Init ==
    /\ host = NoHost
    /\ client = [c \in Clients |-> NoClient]
    /\ toHost = {}
    /\ toClient = [c \in Clients |-> {}]

Next ==
    \/ \E d \in toHost : HostFirst(d) \/ HostShake(d) \/ HostInput(d)
    \/ HostTimeout \/ HostFrame \/ HostAgain
    \/ \E c \in Clients :
         \/ ClientHello(c) \/ ClientTimeout(c)
         \/ \E d \in toClient[c] : ClientAck(c, d) \/ ClientCompleted(c, d) \/ HeadlessMedia(c, d)
                                    \/ FirstFrame(c, d) \/ NetReceive(c, d)
         \/ NetCheck(c) \/ NetDrain(c) \/ NetQuiet(c)
         \/ \E k \in Controls : UiInput(c, k)
         \/ UiShow(c) \/ UiClose(c) \/ UiJoin(c)

Spec == Init /\ [][Next]_vars

-----------------------------------------------------------------------------
(* Properties. *)

\* A host that reached Active has a pinned peer that proved the secret over the
\* nonces and the session of this run, whatever older packets it met.
HostAuthenticated ==
    host.hs = "Active" => /\ Device[host.peer] \in host.pins
                          /\ host.proof = host.peer /\ host.nonce = host.peer
                          /\ SecretOf[host.peer] = HostSecret
                          /\ host.session = host.run

\* A client that reached Active agrees with the host on the session: while that
\* run of the host lives it is Active with this client, under the same epoch and
\* the same MTU, and no other client is Active in it.
SessionAgreed ==
    \A c \in Clients : client[c].hs = "Active" =>
        /\ client[c].session <= host.run
        /\ client[c].session = host.run =>
             /\ host.hs = "Active" /\ host.peer = c
             /\ client[c].epoch = host.epoch /\ client[c].mtu = host.mtu
        /\ \A o \in Clients : client[o].hs = "Active" /\ o # c =>
             client[o].session # client[c].session

\* However the media loop ended, and whatever the client's ReleaseAll met, a host
\* process that is done has an empty record and holds no key or button, except one
\* whose release the desktop refused, in the loop or at the end.
HostReleases == host.pc = "done" => host.native \subseteq host.stuck /\ host.rec.held = {}

\* While the loop runs the desktop holds what the reconciler records.
NativeIsRecorded == host.pc = "media" => host.native = host.rec.held

DirectInv == HostAuthenticated /\ SessionAgreed /\ HostReleases /\ NativeIsRecorded

=============================================================================
