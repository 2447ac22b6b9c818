----------------------------- MODULE Reassembler ----------------------------
(***************************************************************************)
(* Media datagrams (crates/transport): a sender splits frames into         *)
(* fragments, the network loses, repeats and reorders them, and the        *)
(* bounded Reassembler puts frames together again.                         *)
(*                                                                         *)
(* A frame is named by its key (epoch and id; stream and kind are constant *)
(* here) and carries the metadata its fragments must agree on.  A byte is  *)
(* an offset; payloads of one frame with one tag are equal.  The three     *)
(* counters the code maintains incrementally are variables of their own.   *)
(***************************************************************************)
EXTENDS Integers, FiniteSets, FiniteSetsExt

CONSTANTS Sent,            \* frames offered to the fragmenter:
                           \* [epoch, id, meta, len, cap, tag]
          MaxFrames,       \* max_inflight_frames
          MaxBuffered,     \* max_buffered_bytes
          MaxPerFrame,     \* max_fragments_per_frame
          MaxEntries,      \* max_fragment_entries
          MaxAge,          \* max_frame_age_ns
          MaxTime          \* bound on the clock of the model

VARIABLES
  frames,             \* partial frames: [epoch, id, meta, len, fragments, first, last]
  buffered_bytes, reserved_bytes, fragment_entries,
  active_codec_epoch,
  outcome,            \* what the latest ingest returned
  now

counters == <<buffered_bytes, reserved_bytes, fragment_entries>>
vars == <<frames, counters, active_codec_epoch, outcome, now>>

-----------------------------------------------------------------------------
(* The fragmenter.                                                         *)

Least(a, b) == IF a < b THEN a ELSE b

\* frame_fragments_impl and the iterator: div_ceil(len, cap) pieces.
Fragments(f) ==
  {[offset |-> i * f.cap, size |-> Least(f.cap, f.len - i * f.cap)] :
     i \in 0 .. (f.len - 1) \div f.cap}

Packet(f, p) ==
  [epoch |-> f.epoch, id |-> f.id, meta |-> f.meta, len |-> f.len,
   offset |-> p.offset, size |-> p.size, tag |-> f.tag]

Datagrams == UNION {{Packet(f, p) : p \in Fragments(f)} : f \in Sent}

-----------------------------------------------------------------------------
(* The receiver's state as a record, so that the steps of ingest compose.  *)

Current == [frames |-> frames, buffered |-> buffered_bytes, reserved |-> reserved_bytes,
            entries |-> fragment_entries, epoch |-> active_codec_epoch]

Install(r) ==
  /\ frames' = r.frames
  /\ buffered_bytes' = r.buffered
  /\ reserved_bytes' = r.reserved
  /\ fragment_entries' = r.entries
  /\ active_codec_epoch' = r.epoch

Received(f) == MapThenSumSet(LAMBDA x : x.size, f.fragments)

\* Faulty: the reservation of a frame outlives it.
ReservationOfNone(fs) == 0

ReservationOf(fs) == MapThenSumSet(LAMBDA f : f.len, fs)

\* remove_frame, for each frame of a set
Removed(r, fs) ==
  [r EXCEPT !.frames = @ \ fs,
            !.buffered = @ - MapThenSumSet(Received, fs),
            !.reserved = @ - ReservationOf(fs),
            !.entries = @ - MapThenSumSet(LAMBDA f : Cardinality(f.fragments), fs)]

\* Faulty: a frame is as old as its latest fragment.
TooOldByUpdate(f) == now - f.last >= MaxAge

TooOld(f) == now - f.first >= MaxAge

Expired(r) == Removed(r, {f \in r.frames : TooOld(f)})

\* A newer epoch drops the frames of every older one.
Bumped(r, epoch) ==
  IF epoch > r.epoch
  THEN [Removed(r, {f \in r.frames : f.epoch < epoch}) EXCEPT !.epoch = epoch]
  ELSE r

Older(f, g) ==
  \/ f.last < g.last
  \/ f.last = g.last /\ f.first < g.first
  \/ f.last = g.last /\ f.first = g.first /\ f.epoch < g.epoch
  \/ f.last = g.last /\ f.first = g.first /\ f.epoch = g.epoch /\ f.id < g.id

Fits(r, len) == Cardinality(r.frames) < MaxFrames /\ r.reserved + len <= MaxBuffered

\* make_room_for_new_frame evicts the least recently updated frame until the new
\* one fits: the victims are the smallest set closed under Older that does.
MadeRoom(r, len) ==
  LET prefixes == {fs \in SUBSET r.frames :
                     \A f \in fs, g \in r.frames : Older(g, f) => g \in fs}
      enough == {fs \in prefixes : Fits(Removed(r, fs), len)}
  IN  Removed(r, CHOOSE fs \in enough : \A gs \in enough : Cardinality(fs) <= Cardinality(gs))

NewFrame(d) ==
  [epoch |-> d.epoch, id |-> d.id, meta |-> d.meta, len |-> d.len, fragments |-> {},
   first |-> now, last |-> now]

Opened(r, d) ==
  LET roomy == MadeRoom(r, d.len)
  IN  [roomy EXCEPT !.frames = @ \cup {NewFrame(d)}, !.reserved = @ + d.len]

\* A stored fragment at another offset covers some byte of the new one.  The code
\* looks at the two neighbours only; stored fragments are disjoint, so no other
\* can overlap when these do not.
Overlaps(x, d) ==
  x.offset # d.offset /\ x.offset < d.offset + d.size /\ d.offset < x.offset + x.size

Piece(d) == [offset |-> d.offset, size |-> d.size, tag |-> d.tag]

Duplicate(f, d) == Piece(d) \in f.fragments

\* insert_fragment accepts the fragment
Insertable(f, d) ==
  /\ \A x \in f.fragments : x.offset # d.offset
  /\ Cardinality(f.fragments) < MaxPerFrame
  /\ \A x \in f.fragments : ~ Overlaps(x, d)

Added(r, f, d) ==
  [r EXCEPT !.frames = (@ \ {f}) \cup {[f EXCEPT !.fragments = @ \cup {Piece(d)}, !.last = now]},
            !.buffered = @ + d.size,
            !.entries = @ + 1]

\* assemble: the fragments, in order of their offsets, leave no gap.
Contiguous(f) ==
  \A x \in f.fragments :
    x.offset = 0 \/ \E y \in f.fragments : y.offset + y.size = x.offset

Assembled(f) ==
  IF Contiguous(f) /\ \E x \in f.fragments : x.offset + x.size = f.len
  THEN [kind |-> "Complete", frame |-> f, age |-> now - f.first]
  ELSE [kind |-> "IncompleteAssembly"]

-----------------------------------------------------------------------------

Init ==
  /\ frames = {}
  /\ buffered_bytes = 0
  /\ reserved_bytes = 0
  /\ fragment_entries = 0
  /\ active_codec_epoch = 1
  /\ outcome = [kind |-> "none"]
  /\ now = 0

Tick ==
  /\ now < MaxTime
  /\ now' = now + 1
  /\ UNCHANGED <<frames, counters, active_codec_epoch, outcome>>

Expire ==
  /\ Install(Expired(Current))
  /\ outcome' = [kind |-> "none"]
  /\ UNCHANGED now

Returns(r, kind) == Install(r) /\ outcome' = [kind |-> kind]

FrameOf(r, d) == {f \in r.frames : f.epoch = d.epoch /\ f.id = d.id}

SameMetadata(f, d) == f.meta = d.meta /\ f.len = d.len

\* The fragment reaches a frame that is in the table.
Insert(r, f, d) ==
  IF Duplicate(f, d) THEN Returns(r, "Duplicate")
  ELSE IF r.entries >= MaxEntries THEN Returns(Removed(r, {f}), "FragmentEntryLimit")
  ELSE IF ~ Insertable(f, d) THEN Returns(Removed(r, {f}), "Conflict")
  ELSE LET g == [f EXCEPT !.fragments = @ \cup {Piece(d)}, !.last = now]
           added == Added(r, f, d)
       IN  IF Received(g) = g.len
           THEN Install(Removed(added, {g})) /\ outcome' = Assembled(g)
           ELSE Returns(added, "Pending")

Ingest(d) ==
  /\ UNCHANGED now
  /\ LET expired == Expired(Current)
         r == Bumped(expired, d.epoch)
         existing == FrameOf(r, d)
     IN  IF d.epoch < expired.epoch THEN Returns(expired, "StaleCodecEpoch")
         ELSE IF d.len > MaxBuffered THEN Returns(r, "ExceedsBudget")
         ELSE IF existing = {}
         THEN LET opened == Opened(r, d) IN Insert(opened, NewFrame(d), d)
         ELSE LET f == CHOOSE x \in existing : TRUE
              IN  IF SameMetadata(f, d) THEN Insert(r, f, d)
                  ELSE Returns(Removed(r, {f}), "MetadataConflict")

Next ==
  \/ Tick
  \/ Expire
  \/ \E d \in Datagrams : Ingest(d)

Spec == Init /\ [][Next]_vars

-----------------------------------------------------------------------------
(* Properties.                                                             *)

\* The table holds at most one partial frame per key, and every budget of the
\* configuration holds after every datagram.
BudgetsHold ==
  /\ \A f, g \in frames : f.epoch = g.epoch /\ f.id = g.id => f = g
  /\ Cardinality(frames) <= MaxFrames
  /\ reserved_bytes \in 0 .. MaxBuffered
  /\ fragment_entries \in 0 .. MaxEntries
  /\ \A f \in frames : Cardinality(f.fragments) \in 1 .. MaxPerFrame

\* The three incremental counters equal what they count, on every path that
\* opens, fills, completes, expires, evicts or invalidates a frame.
CountersExact ==
  /\ buffered_bytes = MapThenSumSet(Received, frames)
  /\ reserved_bytes = MapThenSumSet(LAMBDA f : f.len, frames)
  /\ fragment_entries = MapThenSumSet(LAMBDA f : Cardinality(f.fragments), frames)

\* Only frames of the newest codec epoch that was seen are held.
OneEpochHeld == \A f \in frames : f.epoch = active_codec_epoch

\* A frame whose received bytes add up to its length has no gap: assemble never
\* fails, whatever mixture of fragments arrived.
AssemblyNeverFails == outcome.kind # "IncompleteAssembly"

\* A frame is delivered less than max_frame_age_ns after its first fragment,
\* however often later fragments refresh it.
DeliveredFresh == outcome.kind = "Complete" => outcome.age < MaxAge

\* A delivered frame is a frame that was sent: fragments of other frames, epochs
\* or lengths never complete it.
DeliveredWasSent ==
  outcome.kind = "Complete" =>
    \E s \in Sent : /\ outcome.frame.epoch = s.epoch /\ outcome.frame.id = s.id
                    /\ outcome.frame.meta = s.meta /\ outcome.frame.len = s.len
                    /\ \A x \in outcome.frame.fragments : x.tag = s.tag

=============================================================================
