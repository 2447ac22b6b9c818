-------------------------------- MODULE MCHost --------------------------------
(***************************************************************************)
(* The host, part by part: its runtime, given every input record of two      *)
(* epochs; the input channel, from a sender that numbers its records through *)
(* a network that loses, repeats and reorders them; capture on Windows; the  *)
(* Linux providers, once for capture, once for input and once for the        *)
(* decoder; and the desktop sessions with their conversions.                 *)
(***************************************************************************)
EXTENDS HostRuntime, Sequences

VARIABLES part,
  sender, records, rec, platform, latest, gap,
  broker, gates, authority, capture, duplication, op, aborts, published,
  portal, pipewire, auths, token, feed, poll, imported, libei, decoder,
  kind, max, root, images, cap, worker, stream, frame, pointer, sample

SomeMessages == [epoch: 1 .. 2, seq: 1 .. 2, event: Events]

channelVars == <<sender, records, rec, platform, latest, gap>>
windowsVars == <<broker, gates, authority, capture, duplication, op, aborts, published>>
linuxVars == <<portal, pipewire, auths, token, feed, poll, imported, libei, decoder>>
desktopVars == <<kind, max, root, images, cap, worker, stream, frame, pointer, sample>>

-------------------------------------------------------------------------------
(* Two epochs of two records each, and one of four.                            *)

N == INSTANCE InputChannel WITH sent <- records, native <- platform, MaxEpoch <- 2, MaxSeq <- 2

O == INSTANCE InputChannel WITH
       sent <- records, native <- platform, MaxEpoch <- 1, MaxSeq <- 4

(* A desktop agent that is launched again, and a display that changes.         *)

NativeFaults == {"protected", "accessLost", "sessionChanged", "revoked", "error", "denied",
                 "deviceLost", "displayChanged", "itemClosed", "endOfStream", "late", "stop",
                 "receipt", "start", "contract"}

W == INSTANCE WindowsCapture WITH
       backend <- capture, source <- duplication, frames <- published,
       Backends <- {"backend"}, Targets <- {"DesktopOutput", "Wgc"}, Slots <- {1}, MaxEpoch <- 1,
       MaxGeneration <- 2, MaxSessions <- 1, Faults <- NativeFaults

Y == INSTANCE WindowsCapture WITH
       backend <- capture, source <- duplication, frames <- published,
       Backends <- {"backend"}, Targets <- {"DesktopOutput"}, Slots <- {1}, MaxEpoch <- 2,
       MaxGeneration <- 1, MaxSessions <- 2, Faults <- NativeFaults

(* Buffers in the format announced, in another one, of another stream, and     *)
(* without the modifier their domain needs; two epochs of frames to decode.    *)

Format(size, domain, modifier) ==
  [size |-> size, domain |-> domain, modifier |-> modifier, planes |-> 1]
FormatsOffered == {Format(1, "dmabuf", TRUE), Format(2, "cpu", FALSE), Format(1, "cpu", TRUE)}

Buffer(from, format, memory) ==
  [kind |-> "Buffer", stream |-> from, format |-> format, caps |-> {}, memory |-> memory]
SomeBuffers ==
  {Buffer("s1", Format(1, "dmabuf", TRUE), "dmabuf"), Buffer("s1", Format(1, "dmabuf", FALSE), "dmabuf"),
   Buffer("s1", Format(2, "cpu", FALSE), "shared"), Buffer("s2", Format(2, "cpu", FALSE), "shared")}

Unit(epoch, id, dep) == [epoch |-> epoch, id |-> id, dep |-> dep, key |-> dep = 0]
TwoEpochs == {Unit(1, 1, 0), Unit(1, 2, 1), Unit(1, 3, 2), Unit(1, 4, 2),
              Unit(2, 1, 0), Unit(2, 2, 1), Unit(2, 3, 2)}

L == INSTANCE LinuxDesktop WITH
       backend <- pipewire, source <- feed, frames <- imported, input <- libei,
       Modes <- {"capture"}, Streams <- {"s1", "s2"}, Formats <- FormatsOffered,
       Buffers <- SomeBuffers, Buttons <- {2}, MaxSlots <- 2, MaxEpoch <- 2, MaxQueue <- 1,
       MaxMessage <- 0, Units <- {}, CodecEpochs <- {}, Faults <- {"revoke", "source", "drop"}

I == INSTANCE LinuxDesktop WITH
       backend <- pipewire, source <- feed, frames <- imported, input <- libei,
       Modes <- {"control"}, Streams <- {"s1"}, Formats <- {Format(2, "cpu", FALSE)},
       Buffers <- {}, Buttons <- {2}, MaxSlots <- 0, MaxEpoch <- 1, MaxQueue <- 1, MaxMessage <- 1,
       Units <- {}, CodecEpochs <- {}, Faults <- {"revoke", "drop"}

D == INSTANCE LinuxDesktop WITH
       backend <- pipewire, source <- feed, frames <- imported, input <- libei,
       Modes <- {"capture"}, Streams <- {"s1", "s2"}, Formats <- FormatsOffered, Buffers <- {},
       Buttons <- {2}, MaxSlots <- 0, MaxEpoch <- 0, MaxQueue <- 0, MaxMessage <- 0,
       Units <- TwoEpochs, CodecEpochs <- {1, 2}, Faults <- {}

(* Desktops that must be scaled, padded or neither; and colours, channel       *)
(* widths, keys and sizes for the conversions.                                 *)

Sample(of, a, b) == [of |-> of, a |-> a, b |-> b]
NoConversion == Sample("none", <<>>, <<>>)
Conversions ==
  {Sample("colour", <<51 * r, 51 * g, 51 * b>>, <<>>) : r, g, b \in {0, 1, 4, 5}}
    \cup {Sample("channel", <<n>>, <<>>) : n \in 1 .. 10}
    \cup {Sample("key", <<n>>, <<>>) : n \in 0 .. 255}
    \cup {Sample("canvas", <<w, h>>, <<m, n>>) : w, h \in {1, 3, 4, 6}, m, n \in {2, 3, 5, 8}}

S == INSTANCE HostDesktop WITH
       input <- worker, Kinds <- {"x11", "direct", "gdi"}, Sizes <- {<<1, 4>>, <<4, 2>>, <<5, 6>>},
       Bounds <- {<<4, 4>>, <<6, 2>>}, MaxImages <- 2, MaxCoord <- 32767,
       NoSample <- NoConversion, Samples <- Conversions

-------------------------------------------------------------------------------
Parts == {"runtime", "channel", "records", "windows", "display", "linux", "libei", "decoder",
          "desktop"}

HostInit ==
  /\ part \in Parts
  /\ S!Init
  /\ part # "desktop" => sample = Sample("key", <<0>>, <<>>)
  /\ Init
  /\ part # "runtime" => session.capabilities = {}
  /\ IF part = "libei" THEN I!Init ELSE L!Init
  /\ N!Init /\ W!Init

HostNext ==
  /\ UNCHANGED part
  /\ \/ /\ part = "runtime" /\ Next
        /\ UNCHANGED <<channelVars, windowsVars, linuxVars, desktopVars>>
     \/ /\ \/ part = "channel" /\ N!Next
           \/ part = "records" /\ O!Next
        /\ UNCHANGED <<vars, windowsVars, linuxVars, desktopVars>>
     \/ /\ \/ part = "windows" /\ W!Next
           \/ part = "display" /\ Y!Next
        /\ UNCHANGED <<vars, channelVars, linuxVars, desktopVars>>
     \/ /\ \/ part = "linux" /\ L!Next
           \/ part = "libei" /\ I!Next
           \/ part = "decoder" /\ D!Next
        /\ UNCHANGED <<vars, channelVars, windowsVars, desktopVars>>
     \/ /\ part = "desktop" /\ S!Next
        /\ UNCHANGED <<vars, channelVars, windowsVars, linuxVars>>

HostSpec ==
  HostInit /\ [][HostNext]_<<part, vars, channelVars, windowsVars, linuxVars, desktopVars>>

-------------------------------------------------------------------------------
\* The actions emitted so far leave the platform holding what the reconciler
\* records; that is what the sender held at the record applied last as soon as
\* nothing is missing since a record with the full state; and no control is down
\* that the sender did not press in the current epoch (apply, release_all_plan,
\* disconnect_release_plan).
SnapshotHeals ==
  /\ part = "channel" =>
       N!ChannelTypeOK /\ N!PlatformFollows /\ N!SnapshotHeals /\ N!HeldWasPressed
  /\ part = "records" =>
       O!ChannelTypeOK /\ O!PlatformFollows /\ O!SnapshotHeals /\ O!HeldWasPressed

\* A late or repeated press is never replayed, not even after a loss of focus, and
\* a disconnected epoch stays retired (apply).
PressNeverReplayed == [][N!PressIsNew /\ N!RetiredStays]_channelVars

\* The ledger is handed over exactly once, knows of every control that is down, and
\* after teardown no provider works for the session and no control is down except
\* where the step for it reported an error (close_inner, ingest_input).
TeardownComplete == part = "runtime" => HostInv

\* On Windows the broker's counts are the operations and sessions there are; a frame can
\* be presented only in the generation it was captured in and while the window
\* authorization stands; and one of a running desktop duplication only in the display
\* epoch it was captured in, which a window capture does not ask for when the display
\* changes (finish_operation, NativePublicationGate, WindowsCaptureBackend).  On Linux a
\* frame that may be presented is of the present format epoch, and input that is
\* disconnected or out of focus holds nothing (LinuxPortalCaptureBackend,
\* LinuxPortalInputBackend).  A frame has one geometry throughout; a click on it lands on
\* a pixel it was made from in the host that captures and injects through one session,
\* and keeps its order in the host that uses two (capture_nv12, inject,
\* map_letterboxed_pointer and the conversions).
DesktopSound ==
  /\ part = "windows" => W!CaptureInv
  /\ part = "display" => Y!CaptureInv
  /\ part = "linux" => L!LinuxInv
  /\ part = "libei" => I!LinuxInv
  /\ part = "decoder" => D!LinuxInv
  /\ part = "desktop" => S!DesktopInv

\* A destination whose copy failed is given back only once the source is known not to
\* run (stop_source_with_permit).  A portal that was revoked or closed stays so and
\* yields no frame, nor does a revoked token; the step that ends a session disconnects
\* the input and lifts what its messages held (LinuxPortalSession, publish).
RevocationKept ==
  [][/\ part = "windows" => W!ReservationKept
     /\ part = "display" => Y!ReservationKept
     /\ part = "linux" => L!RevocationFinal
     /\ part = "libei" => I!RevocationFinal]_<<windowsVars, linuxVars>>
===============================================================================
