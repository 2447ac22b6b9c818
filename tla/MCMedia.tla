------------------------------- MODULE MCMedia -------------------------------
(***************************************************************************)
(* The media path, part by part: the sender's deadline scheduler and the     *)
(* receiver's reassembler; the inspection of access units; the surface pool, *)
(* the presentation coordinator with a renderer that may break its contract, *)
(* and the client runtime; the tiles that refine an idle picture; and the    *)
(* portable viewer, once for its input and once for its frames.              *)
(***************************************************************************)
EXTENDS SurfacePool, Sequences

VARIABLES part,
  now,
  items, queuedBytes, issued, last,
  frames, buffered_bytes, reserved_bytes, fragment_entries, active_codec_epoch, outcome,
  coordinator, offered, freed, leaked, in_use, shown, revoked,
  progress, session, continuity, reference, presentation, decoding, picture, failed,
  unit, bytes,
  screen, detector, policy, packets, cache, recency, sample,
  encoder, wire, latest, ui, queue, net, shutdown, host

schedulerVars == <<items, queuedBytes, issued, last>>
reassemblerVars == <<frames, buffered_bytes, reserved_bytes, fragment_entries,
                     active_codec_epoch, outcome>>
presentationVars == <<coordinator, offered, freed, leaked, in_use, shown, revoked>>
runtimeVars == <<progress, session, continuity, reference, presentation, decoding, picture, failed>>
unitVars == <<unit, bytes>>
tileVars == <<screen, detector, policy, packets, cache, recency, sample>>
viewerVars == <<encoder, wire, latest, ui, queue, net, shutdown, host>>

-------------------------------------------------------------------------------
(* The network brings the reassembler the fragments of four frames of one      *)
(* epoch (one sent again in other pieces, one whose length is disputed) and of *)
(* one of the next, any number of times and in any order.                      *)

Q == INSTANCE DeadlineScheduler WITH
       MaxItems <- 3, MaxBytes <- 4, Ranks <- {0, 1}, Sizes <- {1, 2, 5},
       LastId <- 4, LastTime <- 2

Frame(epoch, id, meta, len, cap) ==
  [epoch |-> epoch, id |-> id, meta |-> meta, len |-> len, cap |-> cap, tag |-> <<epoch, id, len>>]

FramesSent == {Frame(1, 1, "key", 3, 2), Frame(1, 1, "key", 3, 1),
               Frame(1, 2, "delta", 2, 1), Frame(1, 2, "delta", 3, 2), Frame(1, 3, "delta", 4, 2),
               Frame(1, 4, "delta", 7, 7),
               Frame(2, 1, "key", 2, 1)}

R == INSTANCE Reassembler WITH
       Sent <- FramesSent, MaxFrames <- 2, MaxBuffered <- 6, MaxPerFrame <- 3, MaxEntries <- 3,
       MaxAge <- 2, MaxTime <- 4

(* Access units of up to three NAL units.  A first macroblock of 2^22 - 1 puts *)
(* two zero bytes and an escape into the slice header.  With a type of 1 or     *)
(* more such a slice has exactly the bytes that MaxRbsp allows, the zeros       *)
(* behind it not counted, or one more.                                          *)

Nal(long, type, mb, slice, tail, zeros) ==
  [long |-> long, type |-> type, mb |-> mb, slice |-> slice, tail |-> tail, zeros |-> zeros]

TailBefore(zeros) == IF zeros = 0 THEN <<0, 0, 1, 7, 7, 7>> ELSE <<0, 0, 1, 7, 7>>

Slices == {Nal(long, type, mb, slice, TailBefore(zeros), zeros) :
             long \in BOOLEAN, type \in {1, 5}, mb \in {0, 4194303}, slice \in {0, 1, 7, 9},
             zeros \in {0, 2}}
ParameterSets == {Nal(TRUE, type, 0, 0, <<0, 0, 0, 9>>, 0) : type \in {0, 2, 7, 8, 9, 24}}

U == INSTANCE AnnexB WITH
       Units <- {<<s>> : s \in Slices}
                  \cup {<<p, s>> : p \in ParameterSets, s \in Slices}
                  \cup {<<s, t>> : s \in Slices, t \in {x \in Slices : x.mb = 0 /\ x.long /\ x.slice # 9}}
                  \cup {<<p, s, p>> : p \in ParameterSets, s \in {x \in Slices : x.slice = 7}},
       MaxAccessUnit <- 32, MaxNalUnits <- 2, MaxPrefix <- 8, MaxRbsp <- 10

(* Two epochs; identifiers that repeat across epochs, and a short deadline.    *)

SomeFrames ==
  {[epoch |-> 1, id |-> 1, deadline |-> 2], [epoch |-> 1, id |-> 2, deadline |-> 1],
   [epoch |-> 2, id |-> 1, deadline |-> 2], [epoch |-> 2, id |-> 2, deadline |-> 2]}

(* Two groups of pictures; the last frame of the first one is short-lived.     *)

TwoGroups ==
  {[id |-> 1, dep |-> 0, key |-> TRUE,  deadline |-> 3],
   [id |-> 2, dep |-> 1, key |-> FALSE, deadline |-> 3],
   [id |-> 3, dep |-> 2, key |-> FALSE, deadline |-> 1],
   [id |-> 4, dep |-> 0, key |-> TRUE,  deadline |-> 3],
   [id |-> 5, dep |-> 4, key |-> FALSE, deadline |-> 3],
   [id |-> 6, dep |-> 5, key |-> FALSE, deadline |-> 3]}

S == INSTANCE PresentationSystem WITH
       p <- coordinator, Capacity <- 1, Frames <- SomeFrames, MaxTime <- 2

C == INSTANCE ClientRuntime WITH
       shown <- picture, Controls <- {1}, SessionDeadline <- 2, Capacity <- 1,
       Encoded <- TwoGroups, MaxTime <- 2

(* Two displays of three and two tiles, of which one changes; pictures to cut  *)
(* into tiles and hash, and bytes to compress.                                 *)

Sample(grid, pad, data) == [grid |-> grid, pad |-> pad, data |-> data]
NoPicture == Sample(<<2, 2, 1>>, 0, <<>>)
Pictures ==
  {Sample(<<w, h, t>>, pad, <<0>>) : w \in {2, 4, 6, 8}, h \in {2, 4, 6}, t \in 1 .. 4, pad \in {0, 3}}
    \cup {Sample(<<2, 2, 1>>, 1, d) : d \in UNION {[1 .. n -> {0, 1}] : n \in 0 .. 8}}

T == INSTANCE FrameTiles WITH
       net <- packets, Grids <- <<<<5, 1, 2>>, <<3, 1, 2>>>>, Contents <- {1, 2},
       Animated <- {<<0, 0>>}, MaxBytes <- 20, Overhead <- 2, MaxCounter <- 3, Threshold <- 1,
       Burst <- 2, MaxGeneration <- 2, MaxRun <- 4, BlockLen <- 3, NoSample <- NoPicture,
       Samples <- Pictures

(* The viewer's controls with one frame; and more frames with no control.      *)

V == INSTANCE SoftwareViewer WITH
       Keys <- {"k"}, Buttons <- {"b"}, Positions <- {1, 2}, MaxPending <- 1, MaxQueue <- 1,
       MaxFrames <- 1, MaxSamples <- 2, Faults <- {"close", "fail", "stall"}

M == INSTANCE SoftwareViewer WITH
       Keys <- {}, Buttons <- {}, Positions <- {}, MaxPending <- 1, MaxQueue <- 1,
       MaxFrames <- 5, MaxSamples <- 0, Faults <- {"loss", "busy", "decode", "close", "fail", "stall"}

-------------------------------------------------------------------------------
Parts == {"scheduler", "reassembler", "units", "pool", "presentation", "runtime", "tiles",
          "viewer", "stream"}

MediaInit ==
  /\ part \in Parts
  /\ T!Init
  /\ part # "tiles" => sample = NoPicture
  /\ C!Init
  /\ part # "runtime" => session.capabilities = {}
  /\ IF part = "units" THEN U!Init ELSE unit = <<>> /\ bytes = <<>>
  /\ Init /\ Q!Init /\ R!Init /\ S!Init /\ V!Init

UnitStep == part = "units" /\ U!Next
TileStep == part = "tiles" /\ T!Next
ViewerStep == \/ part = "viewer" /\ V!Next
              \/ part = "stream" /\ M!Next

MediaNext ==
  /\ UNCHANGED part
  /\ \/ /\ part = "scheduler" /\ Q!Next
        /\ UNCHANGED <<vars, reassemblerVars, presentationVars, runtimeVars, unitVars, tileVars, viewerVars>>
     \/ /\ part = "reassembler" /\ R!Next
        /\ UNCHANGED <<vars, schedulerVars, presentationVars, runtimeVars, unitVars, tileVars, viewerVars>>
     \/ /\ part = "pool" /\ Next
        /\ UNCHANGED <<now, schedulerVars, reassemblerVars, presentationVars, runtimeVars, unitVars, tileVars, viewerVars>>
     \/ /\ part = "presentation" /\ S!Next
        /\ UNCHANGED <<vars, schedulerVars, reassemblerVars, runtimeVars, unitVars, tileVars, viewerVars>>
     \/ /\ part = "runtime" /\ C!Next
        /\ UNCHANGED <<vars, schedulerVars, reassemblerVars, presentationVars, unitVars, tileVars, viewerVars>>
     \/ /\ UnitStep
        /\ UNCHANGED <<now, vars, schedulerVars, reassemblerVars, presentationVars, runtimeVars, tileVars, viewerVars>>
     \/ /\ TileStep
        /\ UNCHANGED <<now, vars, schedulerVars, reassemblerVars, presentationVars, runtimeVars, unitVars, viewerVars>>
     \/ /\ ViewerStep
        /\ UNCHANGED <<now, vars, schedulerVars, reassemblerVars, presentationVars, runtimeVars, unitVars, tileVars>>

MediaSpec ==
  MediaInit /\ [][MediaNext]_<<part, now, vars, schedulerVars, reassemblerVars, presentationVars,
                               runtimeVars, unitVars, tileVars, viewerVars>>

-------------------------------------------------------------------------------
\* Every budget of the two queues holds and their incremental counters equal what
\* they count; the reassembler holds only frames of the newest epoch, assemble never
\* meets a gap, and what it delivers was sent, less than max_frame_age_ns after its
\* first fragment (ingest, remove_frame, make_room_for_new_frame, expire; push,
\* pop_next, drop_expired).
QueuesSound ==
  /\ part = "reassembler" =>
       /\ R!BudgetsHold /\ R!CountersExact /\ R!OneEpochHeld /\ R!AssemblyNeverFails
       /\ R!DeliveredFresh /\ R!DeliveredWasSent
  /\ part = "scheduler" => Q!SchedulerTypeOK /\ Q!WithinCaps

\* What push and pop_next do is forced by the queue: an item leaves it late, sent, or
\* for one more urgent that needs its room; what is sent is the first of all that is
\* in time, by class, then deadline, then identifier; and an item is refused
\* only when nothing less urgent is left to evict (push, pop_next).
AnswersForced ==
  [][part = "scheduler" => Q!LossesJustified /\ Q!PopFirst /\ Q!RefusalForced]_schedulerVars

\* An access unit within the limits is read as it was written, one beyond them is
\* refused, and cut short it never turns into a recovery point (inspect_annex_b,
\* unescape_rbsp_prefix).  The detector reports every tile that changed,
\* compression is undone, the cache stays within its budget and counts it exactly,
\* and a tile shows nothing the display did not show (TileChangeDetector,
\* IdleRefinementPolicy, TileRefinementCache).
PicturesExact ==
  /\ part = "units" => U!InspectionExact
  /\ part = "tiles" => T!TilesInv

\* No surface goes back to its pool while the renderer may read it, the renderer holds
\* at most one whose completion is awaited, and every decoded frame is in exactly one
\* place; between two resets frames are shown in increasing order of epoch and
\* identifier (present_next, cancel_in_flight, finalize_after_quiesce, shutdown;
\* PresentationQueue::push).
NoUseAfterRelease ==
  part = "presentation" =>
    /\ S!PresentationTypeOK /\ S!NoUseAfterRelease /\ S!OneInFlight /\ S!SurfacesAccounted
    /\ S!ShownInOrder

\* The authority is closed exactly when the session was left; after teardown nothing
\* works for it except what reported an error; and while streaming the continuity
\* tracker names the frame the decoder predicts from (close_inner, ingest_media).
ClientSound ==
  part = "runtime" =>
    /\ C!ClientTypeOK /\ C!AuthorityClosedOnce
    /\ C!PipelineDrained /\ C!TrackerMatchesDecoder

\* A frame reaches the renderer only before its deadline, under an authority that is
\* live and an epoch that is authorized, and the picture never goes back, even when an
\* old recovery point rewinds the decoder.  A frame that is no recovery point is
\* decoded only when the decoder holds the very frame it was predicted from
\* (present_next, in both crates; DecoderContinuity::classify, commit_decoded).
OnlyLiveShown ==
  [][S!LiveWhenShown /\ C!ShownUnderAuthority /\ C!ShownAdvances /\ C!DecodedOnChain]_<<in_use, runtimeVars>>

\* In the portable viewer: a frame is sent only after the frame it was predicted from;
\* going through what the window thread queued leads from what the network task holds
\* to what the window holds, also when a full queue was folded into a snapshot; the host
\* was told exactly what the task holds, and nothing is held once the task has ended
\* well (ContinuityPlanner, PendingReliableInput::push, release_all).
ViewerSound ==
  /\ part = "viewer" => V!ViewerInv
  /\ part = "stream" => M!ViewerInv
===============================================================================
