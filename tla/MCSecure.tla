------------------------------- MODULE MCSecure -------------------------------
(***************************************************************************)
(* Sessions between a Host and its Clients: the secure sessions in sequence; *)
(* the product connection they use, once for its control lane and once for   *)
(* its media; the records on the wire; the direct sessions of the two lab    *)
(* programs, once with three headless clients and once with a viewer; and    *)
(* the supervisor that starts a Client per target.                           *)
(***************************************************************************)
EXTENDS SecureSessions, Sequences

CONSTANT Unstamped

VARIABLES part,
  conn, sender, receiver, locks, task, lane, reader, sent, applied, media,
  phase, record, bytes, decoded, damage, filter, epoch, accepted,
  server, viewers, toHost, toClient,
  line, extra, stage, signal, sup, kids

channelVars == <<conn, sender, receiver, locks, task, lane, reader, sent, applied, media>>
wireVars == <<phase, record, bytes, decoded, damage, filter, epoch, accepted>>
directVars == <<server, viewers, toHost, toClient>>
supervisorVars == <<line, extra, stage, signal, sup, kids>>

-------------------------------------------------------------------------------
(* A Host that fails in every way, with a Client that does not reconnect.      *)

H == INSTANCE SecureSessions WITH
       MaxReconnects <- 0, MaxRestarts <- 0,
       Faults <- {"loss", "provider", "input", "limit", "shutdown"}

(* The Client replaces a session of generation 1; of the two stamps the Host   *)
(* may activate with, one is no successor.                                     *)

Stamped(n, g) ==
  [session |-> n, generation |-> g, authorization |-> g, display |-> g, codec |-> g]

C == INSTANCE ProductChannel WITH
       host <- sender, client <- receiver, None <- Unstamped, Previous <- Stamped(1, 1),
       Stamps <- {Stamped(2, 2), Stamped(2, 1)}, Tasks <- {"t1", "t2"},
       MaxGeneration <- 2, MaxRecords <- 2, MaxFrame <- 0, MaxEpoch <- 1

M == INSTANCE ProductChannel WITH
       host <- sender, client <- receiver, None <- Unstamped, Previous <- Stamped(1, 1),
       Stamps <- {Stamped(2, 2), Stamped(2, 1)}, Tasks <- {},
       MaxGeneration <- 1, MaxRecords <- 1, MaxFrame <- 2, MaxEpoch <- 2

L == INSTANCE UpdateLane WITH
       delivered <- applied, sending <- conn.host, receiving <- conn.client

F == INSTANCE WireFormat WITH
       Noise <- {0, 1, 2, 128, 255}, WindowSize <- 3, MaxSequence <- 6, MaxEpoch <- 2

(* Two clients of the pinned device, and one that was given another secret;    *)
(* and a viewer whose device the host's user approves.                         *)

Headless == {"c1", "c2", "c3"}

D == INSTANCE DirectSession WITH
       host <- server, client <- viewers, Clients <- Headless,
       Device <- [c \in Headless |-> "d1"], Pinned <- {"d1"}, Approve <- FALSE,
       SecretOf <- [c \in Headless |-> IF c = "c2" THEN "other" ELSE "secret"],
       HostSecret <- "secret", Mode <- [c \in Headless |-> IF c = "c2" THEN "probe" ELSE "frames"],
       Needed <- 1, HostMtu <- 4, ClientMtu <- 3, MinMtu <- 2, MaxMtu <- 9, FrameLen <- 5,
       MaxFrames <- 1, Cadence <- 2, MaxRuns <- 3, Controls <- {1}, MaxInputs <- 0,
       MaxCommands <- 2, MaxPump <- 4, Faults <- {"timeout", "capture", "inject"}

V == INSTANCE DirectSession WITH
       host <- server, client <- viewers, Clients <- {"viewer"},
       Device <- [c \in {"viewer"} |-> "d2"], Pinned <- {}, Approve <- TRUE,
       SecretOf <- [c \in {"viewer"} |-> "secret"], HostSecret <- "secret",
       Mode <- [c \in {"viewer"} |-> "viewer"],
       Needed <- 1, HostMtu <- 4, ClientMtu <- 3, MinMtu <- 2, MaxMtu <- 9, FrameLen <- 3,
       MaxFrames <- 2, Cadence <- 2, MaxRuns <- 1, Controls <- {1}, MaxInputs <- 3,
       MaxCommands <- 2, MaxPump <- 4, Faults <- {"timeout", "capture", "inject"}

(* Command lines that lack nothing, one thing or nearly all, and up to two     *)
(* options more.                                                               *)

Opt(name, value) == [name |-> name, value |-> value]
Addr(family, cast, port) == [cast |-> cast, family |-> family, port |-> port]
V4 == Addr(4, "unicast", 1)
V6 == Addr(6, "unicast", 1)
Target(addr, cert) == [addr |-> addr, cert |-> cert]
Identity == <<Opt("cert", TRUE), Opt("key", TRUE)>>

CommandLines ==
  {<<>>, Identity \o <<Opt("peer", {"p1"})>>,
   Identity \o <<Opt("targets", Target(V4, "p1")), Opt("targets", Target(V6, "p2"))>>,
   Identity \o <<Opt("targets", Target(V4, "p1")), Opt("targets", Target(V4, "p2"))>>,
   <<Opt("lab", TRUE), Opt("approve", TRUE)>>}

MoreOptions ==
  {Opt(f, TRUE) : f \in {"alias", "profile", "candidate", "ice", "approve", "secret", "inject",
                         "cert", "lab", "version"}}
    \cup {Opt("targets", Target(V4, "p1")), Opt("peer", {"p2"}), Opt("role", "host"),
          Opt("connect", V6), Opt("connect", V4), Opt("fallbacks", V4), Opt("fallbacks", V6),
          Opt("bind", Addr(6, "unspecified", 0)), Opt("bind", V4),
          Opt("bind", Addr(4, "unicast", 0)), Opt("bind", Addr(4, "multicast", 0)),
          Opt("stun", {V4}), Opt("stun", {Addr(4, "broadcast", 1)}),
          Opt("timeout", 0), Opt("timeout", 30), Opt("frames", {0}), Opt("frames", {5}),
          Opt("sessions", 2), Opt("sessions", 17), Opt("reconnects", 1), Opt("reconnects", 9),
          Opt("probes", 0), Opt("probes", 4), Opt("width", 3), Opt("width", 640)}

T == INSTANCE TargetSupervisor WITH
       phase <- stage, Presets <- CommandLines, Options <- MoreOptions, MaxExtra <- 2,
       MaxTargets <- 16, MaxFallbacks <- 16, MaxCandidates <- 4, MaxSessions <- 16,
       MaxReconnects <- 8, MaxProbes <- 1024, MaxTimeout <- 3600,
       Faults <- {"spawn", "attach", "poll", "kill", "wait", "forward", "signal"}

-------------------------------------------------------------------------------
Parts == {"sessions", "failures", "control", "media", "wire", "direct", "viewer", "supervisor"}

SecureInit ==
  /\ part \in Parts
  /\ Init
  /\ IF part = "media" THEN M!Init ELSE C!Init
  /\ IF part = "viewer" THEN V!Init ELSE D!Init
  /\ part # "wire" => phase = "window"
  /\ F!Init
  /\ part # "supervisor" => line = <<>>
  /\ T!Init

SecureNext ==
  /\ UNCHANGED part
  /\ \/ /\ \/ part = "sessions" /\ Next
           \/ part = "failures" /\ H!Next
        /\ UNCHANGED <<channelVars, wireVars, directVars, supervisorVars>>
     \/ /\ \/ part = "control" /\ C!Next
           \/ part = "media" /\ M!Next
        /\ UNCHANGED <<vars, wireVars, directVars, supervisorVars>>
     \/ /\ part = "wire" /\ F!Next
        /\ UNCHANGED <<vars, channelVars, directVars, supervisorVars>>
     \/ /\ \/ part = "direct" /\ D!Next
           \/ part = "viewer" /\ V!Next
        /\ UNCHANGED <<vars, channelVars, wireVars, supervisorVars>>
     \/ /\ part = "supervisor" /\ T!Next
        /\ UNCHANGED <<vars, channelVars, wireVars, directVars>>

SecureSpec ==
  SecureInit /\ [][SecureNext]_<<part, vars, channelVars, wireVars, directVars, supervisorVars>>

-------------------------------------------------------------------------------
\* Updates reach the Client's callers in the order and number in which they were sent,
\* half a generation is never left on a connection that lives on, and the two ends agree
\* on the stamp (send_ice_generation, next_ice_generation, ClientHandshake).  A record
\* whose bytes were left alone is read as it was written; one whose bytes were changed
\* is refused or read as the record those bytes encode (there is no checksum here); its
\* fragment lies within its frame; and no sequence number is accepted twice (the encode
\* and decode functions of the protocol crate, AntiReplayFilter::check_and_update).
ChannelSound ==
  /\ part = "control" => C!ChannelInv
  /\ part = "media" => M!ChannelInv
  /\ part = "wire" => F!WireInv

\* The control lane implements UpdateLane: updates arrive whole, in order, once, and
\* not at an end that has closed, whichever of its calls are dropped half way
\* (ProductSession).
LaneKept == L!Spec

\* Stamps only go up along the Client's sessions, also when the Host was started again
\* in between and its allocator began anew, and only a lost path is retried
\* (run_session_sequence).  Frames reach the application in increasing order, each made
\* of fragments of the route epoch the session is in (receive_media_frame).
StampsIncrease ==
  [][/\ part \in {"sessions", "failures"} => StampsRise
     /\ part = "media" => M!FramesAdvance]_<<vars, channelVars>>

\* Of the lab programs: a host is Active only with a pinned peer that proved the secret
\* in this very run, both ends agree on session, epoch and MTU, and whatever ends the
\* host, it holds no key whose release the desktop did not refuse
\* (host_handle_authenticate, release_session_input).
\* Of the supervisor: what an accepted command line starts is what it asked for, and
\* success is reported only when every child ended well and was reaped
\* (parse_client_args_from, run_multi_target).
ProcessesSound ==
  /\ part = "direct" => D!DirectInv
  /\ part = "viewer" => V!DirectInv
  /\ part = "supervisor" => T!SupervisorInv
===============================================================================
