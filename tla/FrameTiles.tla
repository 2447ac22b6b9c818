----------------------------- MODULE FrameTiles ------------------------------
(***************************************************************************)
(* Lossless tile refinement (crates/frame): the host finds the tiles that  *)
(* changed, waits until the display is idle and sends bursts of exact      *)
(* tiles; the client keeps them in a bounded cache with LRU eviction.      *)
(* Packets travel as datagrams: net keeps what was sent, so any of them    *)
(* may arrive late, twice, out of order or never.                          *)
(*                                                                         *)
(* The algorithms underneath (the tile grid, the byte ranges of a tile,    *)
(* the streaming hash, both PackBits codecs) are pure; a behaviour that    *)
(* starts with a sample only carries it for the invariant to look at.      *)
(* The 64-bit hash of a tile is ideal and is what it covers.               *)
(***************************************************************************)
EXTENDS Integers, Sequences, SequencesExt, FiniteSets, FiniteSetsExt

CONSTANTS Grids,         \* the display of each epoch: a sequence of <<width, height, tile>>
          Contents,      \* what a tile may show; it starts with the least
          Animated,      \* the tiles whose content changes
          MaxBytes,      \* max_bytes of the cache
          Overhead,      \* size_of CachedTileEntry + 32
          MaxCounter,    \* u64::MAX of the access counter
          Threshold,     \* idle_threshold_ns
          Burst,         \* max_tiles_per_burst
          MaxGeneration, \* bound on the bursts of an epoch
          MaxRun,        \* 128, the longest PackBits literal
          BlockLen,      \* 32, the block of the hash
          NoSample, Samples

VARIABLES screen,     \* what every tile of the host's display shows
          detector,   \* TileChangeDetector
          policy,     \* IdleRefinementPolicy
          net,        \* packets sent
          cache,      \* TileRefinementCache
          recency,    \* the cached tiles, the least recently used first
          sample      \* input of the pure algorithms

vars == <<screen, detector, policy, net, cache, recency, sample>>

-----------------------------------------------------------------------------
(* TileGrid: a grid is <<width, height, tile_size>>. *)

TilesX(g) == (g[1] + g[3] - 1) \div g[3]
TilesY(g) == (g[2] + g[3] - 1) \div g[3]

Coords(g) == (0 .. TilesX(g) - 1) \X (0 .. TilesY(g) - 1)

Bounds(g, c) ==
  LET x == c[1] * g[3]
      y == c[2] * g[3]
  IN [x |-> x, y |-> y, w |-> Min({g[1] - x, g[3]}), h |-> Min({g[2] - y, g[3]})]

TileIndex(g, c) == c[2] * TilesX(g) + c[1]
TileCoord(g, i) == <<i % TilesX(g), i \div TilesX(g)>>

\* The tiles in the order the loops visit them.
RowMajor(g) == [i \in 1 .. Cardinality(Coords(g)) |-> TileCoord(g, i - 1)]

-----------------------------------------------------------------------------
(* Where the bytes of a tile are in a frame. *)

\* default_stride, with the padding of a native row.
Stride(g, format, pad) == (IF format = "bgra" THEN 4 * g[1] ELSE g[1]) + pad

\* expected_len
ExpectedLen(g, format, stride) ==
  IF format = "bgra" THEN stride * g[2] ELSE stride * g[2] + stride * (g[2] \div 2)

Rows(n, start, stride, len) == [r \in 1 .. n |-> [at |-> start + (r - 1) * stride, len |-> len]]

\* The rows of a tile: its pixels, or its luma and then its chroma samples.
TileRows(g, c, format, stride) ==
  LET b == Bounds(g, c)
      uvStart == stride * g[2] + (b.y \div 2) * stride + (b.x \div 2) * 2
  IN IF format = "bgra" THEN Rows(b.h, b.y * stride + b.x * 4, stride, b.w * 4)
     ELSE Rows(b.h, b.y * stride + b.x, stride, b.w)
            \o Rows((b.h + 1) \div 2, uvStart, stride, ((b.w + 1) \div 2) * 2)

RowBytes(frame, row) == [i \in 1 .. row.len |-> frame[row.at + i - 1]]

\* extract_tile_pixels: the rows, tightly packed.
ExtractTile(frame, rows) == FlattenSeq([r \in 1 .. Len(rows) |-> RowBytes(frame, rows[r])])

\* apply_tile_pixels: every row from its place in the packed pixels.
ApplyTile(frame, rows, pixels) ==
  LET before[r \in 1 .. Len(rows)] == IF r = 1 THEN 0 ELSE before[r - 1] + rows[r - 1].len
      painted(o) == {r \in 1 .. Len(rows) : o >= rows[r].at /\ o < rows[r].at + rows[r].len}
  IN [o \in DOMAIN frame |->
        IF painted(o) = {} THEN frame[o]
        ELSE LET r == Max(painted(o)) IN pixels[before[r] + (o - rows[r].at) + 1]]

-----------------------------------------------------------------------------
(* XxHash64: the lanes v1..v4 are the whole blocks they have absorbed. *)

HashNew == [lanes |-> <<>>, buffer |-> <<>>]

\* The rest of the input goes through whole blocks and stays in the buffer.
Absorb(h, input) ==
  LET whole == (Len(input) \div BlockLen) * BlockLen
  IN [lanes |-> h.lanes \o SubSeq(input, 1, whole),
      buffer |-> SubSeq(input, whole + 1, Len(input))]

HashUpdate(h, input) ==
  LET needed == BlockLen - Len(h.buffer)
  IN IF h.buffer = <<>> THEN Absorb(h, input)
     ELSE IF Len(input) < needed THEN [h EXCEPT !.buffer = @ \o input]
     ELSE Absorb([lanes |-> h.lanes \o h.buffer \o SubSeq(input, 1, needed), buffer |-> <<>>],
                 SubSeq(input, needed + 1, Len(input)))

\* The lanes count only when a whole block went in; the total length always.
HashFinish(h) ==
  [len |-> Len(h.lanes) + Len(h.buffer), lanes |-> h.lanes, tail |-> h.buffer]

\* compute_tile_hash: row by row, without packing the pixels.
TileHash(frame, rows) ==
  HashFinish(FoldLeft(LAMBDA h, row : HashUpdate(h, RowBytes(frame, row)), HashNew, rows))

\* xxhash64
HashOf(input) == HashFinish(HashUpdate(HashNew, input))

-----------------------------------------------------------------------------
(* PackBits: compress_packbits and decompress_packbits of a tile, and the   *)
(* pair of the exact test codec, whose runs go two further.                 *)

RepeatedRun(s, i, cap) ==
  Max({k \in 1 .. Min({cap, Len(s) - i + 1}) : \A j \in 0 .. k - 1 : s[i + j] = s[i]})

LiteralRun(s, i, runCap) ==
  LET stops == {j \in i + 1 .. Len(s) : RepeatedRun(s, j, runCap) >= 3} \cup {Len(s) + 1}
  IN Min({MaxRun, Min(stops) - i})

TileRunHeader(count) == 2 * MaxRun + 1 - count
ExactRunHeader(count) == MaxRun + (count - 3)

\* One control byte and what follows it, from position i on.
Chunk(s, i, exact) ==
  LET cap == IF exact THEN MaxRun + 2 ELSE MaxRun
      run == RepeatedRun(s, i, cap)
      lit == LiteralRun(s, i, cap)
  IN IF run >= 3
       THEN [next |-> i + run,
             out |-> <<IF exact THEN ExactRunHeader(run) ELSE TileRunHeader(run), s[i]>>]
       ELSE [next |-> i + lit, out |-> <<lit - 1>> \o SubSeq(s, i, i + lit - 1)]

Compress(s, exact) ==
  LET rest[i \in 1 .. Len(s) + 1] ==
        IF i > Len(s) THEN <<>>
        ELSE LET ch == Chunk(s, i, exact) IN ch.out \o rest[ch.next]
  IN rest[1]

\* What a run header repeats; 0 for the header decompress_packbits skips.
RunLength(header, exact) ==
  IF exact THEN (header - MaxRun) + 3
  ELSE IF header = MaxRun THEN 0 ELSE 2 * MaxRun + 1 - header

Refused == {}

\* {} when the payload is refused, otherwise {the bytes}.
Decompress(p, expected, exact) ==
  LET from[i \in 1 .. Len(p) + 1, n \in 0 .. expected] ==
        IF i > Len(p) THEN (IF n = expected THEN {<<>>} ELSE Refused)
        ELSE LET header == p[i]
                 lit == header + 1
                 run == RunLength(header, exact)
             IN IF header < MaxRun
                  THEN IF i + lit > Len(p) \/ n + lit > expected THEN Refused
                       ELSE {SubSeq(p, i + 1, i + lit) \o t : t \in from[i + 1 + lit, n + lit]}
                ELSE IF run = 0 THEN from[i + 1, n]
                ELSE IF i + 1 > Len(p) \/ n + run > expected THEN Refused
                ELSE {[j \in 1 .. run |-> p[i + 1]] \o t : t \in from[i + 2, n + run]}
  IN from[1, 0]

-----------------------------------------------------------------------------
(* The packets: a tile of LDTR, and a whole frame of the exact test codec.   *)

\* TileRefinementPacket::from_frame and encode: compressed when that is shorter.
TilePacket(s, compress) ==
  LET z == Compress(s, FALSE)
      shorter == compress /\ Len(z) < Len(s)
      payload == IF shorter THEN z ELSE s
  IN [compressed |-> shorter, raw_len |-> Len(s), hash |-> HashOf(s),
      payload_len |-> Len(payload), payload |-> payload]

\* decompress_data
TileData(w) ==
  IF w.compressed THEN Decompress(w.payload, w.raw_len, FALSE)
  ELSE IF Len(w.payload) # w.raw_len THEN Refused ELSE {w.payload}

\* decode, which validates the hash of the data.
TileDecoded(w) ==
  IF Len(w.payload) # w.payload_len THEN Refused
  ELSE {d \in TileData(w) : HashOf(d) = w.hash}

\* ExactTestCodec::encode of a one-row frame of luma pairs.
ExactPacket(s) ==
  LET z == Compress(s, TRUE)
  IN [compressed |-> TRUE, raw_len |-> Len(s), hash |-> HashOf(s),
      payload_len |-> Len(z), payload |-> z]

\* ExactTestCodec::decode of a frame whose dimensions take len bytes.
ExactDecoded(w, len) ==
  IF w.raw_len # len \/ Len(w.payload) # w.payload_len THEN Refused
  ELSE {d \in Decompress(w.payload, w.raw_len, TRUE) : HashOf(d) = w.hash}

\* What may happen to a packet: cut short, a payload byte or the length changed.
Damages(w) ==
  {[w EXCEPT !.payload = SubSeq(@, 1, n)] : n \in 0 .. Len(w.payload) - 1}
    \cup {[w EXCEPT !.payload[i] = b] : i \in 1 .. Len(w.payload), b \in {0, 2, MaxRun, 2 * MaxRun - 1}}
    \cup {[w EXCEPT !.raw_len = n] : n \in 0 .. w.raw_len + 1}

-----------------------------------------------------------------------------
(* The host: detect_changes, then on_frame with its result. *)

HostGrid == Grids[detector.epoch]

DetectorNew(e) == [epoch |-> e, initialized |-> FALSE,
                   previous |-> [c \in Coords(Grids[e]) |-> 0]]

\* last_motion_timestamp_ns is 0: the display has been idle for ever.
PolicyNew == [idle |-> Threshold, generation |-> 0, refined |-> {}, candidates |-> <<>>,
              status |-> "ActiveMotion"]

Dirty == {c \in Coords(HostGrid) :
            ~detector.initialized \/ screen[c] # detector.previous[c]}

InOrder(set) == SelectSeq(RowMajor(HostGrid), LAMBDA c : c \in set)

\* The policy after a frame with motion.
Moved(p, dirty) ==
  [p EXCEPT !.idle = 0, !.status = "ActiveMotion", !.refined = @ \ dirty,
            !.candidates = @ \o InOrder(dirty \ Range(@))]

\* The tiles still to refine: all that were not, once the candidates ran out.
Candidates(p) ==
  IF p.candidates = <<>> THEN InOrder(Coords(HostGrid) \ p.refined) ELSE p.candidates

Packet(c, generation) ==
  [epoch |-> detector.epoch, generation |-> generation, coord |-> c, content |-> screen[c]]

OnFrame(elapsed) ==
  LET idle == Min({Threshold, policy.idle + elapsed})
      all == Candidates(policy)
      batch == Min({Burst, Len(all)})
      sent == Range(SubSeq(all, 1, batch))
  IN IF Dirty # {} THEN policy' = Moved(policy, Dirty) /\ net' = net
     ELSE IF idle < Threshold
       THEN policy' = [policy EXCEPT !.idle = idle, !.status = "StaticPending"] /\ net' = net
     ELSE IF all = <<>>
       THEN policy' = [policy EXCEPT !.idle = idle, !.status = "FullyRefined"] /\ net' = net
     ELSE /\ policy.generation < MaxGeneration
          /\ policy' = [policy EXCEPT !.idle = idle, !.status = "Refining",
                                      !.generation = @ + 1,
                                      !.refined = @ \cup sent,
                                      !.candidates = SubSeq(all, batch + 1, Len(all))]
          /\ net' = net \cup {Packet(c, policy.generation) : c \in sent}

Frame(elapsed) ==
  /\ OnFrame(elapsed)
  /\ detector' = [detector EXCEPT !.initialized = TRUE, !.previous = screen]
  /\ UNCHANGED <<screen, cache, recency>>

Draw(c, v) ==
  /\ screen[c] # v
  /\ screen' = [screen EXCEPT ![c] = v]
  /\ UNCHANGED <<detector, policy, net, cache, recency>>

\* The display is reconfigured: TileChangeDetector::reset and reset_epoch.
Reconfigure ==
  /\ detector.epoch < Len(Grids)
  /\ detector' = DetectorNew(detector.epoch + 1)
  /\ policy' = PolicyNew
  /\ screen' = [c \in Coords(Grids[detector.epoch + 1]) |-> Min(Contents)]
  /\ UNCHANGED <<net, cache, recency>>

-----------------------------------------------------------------------------
(* The client: TileRefinementCache. *)

CacheNew(e) == [epoch |-> e, bytes |-> 0, counter |-> 0, entries |-> <<>>, lru |-> {}]

EntrySize(c) ==
  LET b == Bounds(Grids[cache.epoch], c) IN b.w * b.h * 4 + Overhead

LruKey(t, c) == <<t, c[1], c[2]>>

\* advance_access_counter: at the end of its range every entry is renumbered.
Advanced(k) ==
  LET rank == [c \in DOMAIN k.entries |->
                 Cardinality({d \in DOMAIN k.entries : k.entries[d].last < k.entries[c].last})]
      renumbered == [k EXCEPT
        !.entries = [c \in DOMAIN @ |-> [@[c] EXCEPT !.last = rank[c]]],
        !.lru = {LruKey(rank[c], c) : c \in DOMAIN k.entries},
        !.counter = Cardinality(DOMAIN k.entries)]
      base == IF k.counter = MaxCounter THEN renumbered ELSE k
  IN [base EXCEPT !.counter = @ + 1]

\* The entry becomes the most recently used one.
Touched(k, c) ==
  [k EXCEPT !.entries[c].last = k.counter,
            !.lru = (@ \ {LruKey(k.entries[c].last, c)}) \cup {LruKey(k.counter, c)}]

UsedLast(c) == Append(SelectSeq(recency, LAMBDA d : d # c), c)

\* Faulty: the bytes of a replaced tile stay on the books.
BaseBytesKept(k, c) == k.bytes

\* What the cache holds without the entry that is replaced.
BaseBytes(k, c) == k.bytes - (IF c \in DOMAIN k.entries THEN EntrySize(c) ELSE 0)

\* The entries to evict, in LRU order and never the tile itself, until it fits.
EvictionPlan(k, c) ==
  LET order == SelectSeq(SetToSortSeq(k.lru, LAMBDA a, b : a[1] < b[1]),
                         LAMBDA t : <<t[2], t[3]>> # c)
      tile(i) == <<order[i][2], order[i][3]>>
      freed[n \in 0 .. Len(order)] == IF n = 0 THEN 0 ELSE freed[n - 1] + EntrySize(tile(n))
      fits == {n \in 0 .. Len(order) : BaseBytes(k, c) - freed[n] + EntrySize(c) <= MaxBytes}
      n == IF fits = {} THEN Len(order) ELSE Min(fits)
  IN [tiles |-> {tile(i) : i \in 1 .. n}, freed |-> freed[n]]

\* The tile takes the place of its own entry and of the planned evictions.
Stored(k, p) ==
  LET plan == EvictionPlan(k, p.coord)
      gone == plan.tiles \cup {p.coord}
      kept == DOMAIN k.entries \ gone
      new == [generation |-> p.generation, content |-> p.content, last |-> k.counter]
  IN [k EXCEPT !.entries = [c \in kept \cup {p.coord} |->
                              IF c = p.coord THEN new ELSE k.entries[c]],
               !.lru = {t \in @ : <<t[2], t[3]>> \notin gone} \cup {LruKey(k.counter, p.coord)},
               !.bytes = BaseBytes(k, p.coord) - plan.freed + EntrySize(p.coord)]

\* A packet of another epoch, or of a tile that can never fit, changes nothing.
Put(p) ==
  /\ p.epoch = cache.epoch
  /\ EntrySize(p.coord) <= MaxBytes
  /\ Cardinality(DOMAIN cache.entries) = Cardinality(cache.lru)
  /\ LET k == Advanced(cache)
         same == /\ p.coord \in DOMAIN k.entries
                 /\ k.entries[p.coord].content = p.content
     IN cache' = IF same THEN Touched(k, p.coord) ELSE Stored(k, p)
  /\ recency' = SelectSeq(UsedLast(p.coord), LAMBDA c : c \in DOMAIN cache'.entries)
  /\ UNCHANGED <<screen, detector, policy, net>>

\* get and apply_tile_to_frame; a miss moves the counter only.
Get(c) ==
  /\ LET k == Advanced(cache)
     IN IF c \in DOMAIN k.entries
          THEN cache' = Touched(k, c) /\ recency' = UsedLast(c)
          ELSE cache' = k /\ UNCHANGED recency
  /\ UNCHANGED <<screen, detector, policy, net>>

\* invalidate_epoch, once the new display configuration reaches the client.
InvalidateEpoch ==
  /\ cache.epoch < detector.epoch
  /\ cache' = [CacheNew(cache.epoch + 1) EXCEPT !.counter = cache.counter]
  /\ recency' = <<>>
  /\ UNCHANGED <<screen, detector, policy, net>>

-----------------------------------------------------------------------------

Init ==
  /\ screen = [c \in Coords(Grids[1]) |-> Min(Contents)]
  /\ detector = DetectorNew(1)
  /\ policy = PolicyNew
  /\ net = {}
  /\ cache = CacheNew(1)
  /\ recency = <<>>
  /\ sample \in Samples \cup {NoSample}

Next ==
  /\ sample = NoSample
  /\ sample' = sample
  /\ \/ \E elapsed \in 0 .. Threshold : Frame(elapsed)
     \/ \E c \in Animated \cap DOMAIN screen, v \in Contents : Draw(c, v)
     \/ Reconfigure
     \/ \E p \in net : Put(p)
     \/ \E c \in Coords(Grids[cache.epoch]) : Get(c)
     \/ InvalidateEpoch

Spec == Init /\ [][Next]_vars

-----------------------------------------------------------------------------
(* Properties. *)

\* The cache keeps its books: every entry has one LRU key, the byte count is
\* the sum of the entries and within the limit, and the LRU order is the order
\* of use, also after the access counter reached its end (put, get,
\* advance_access_counter).
CacheExact ==
  LET held == DOMAIN cache.entries
  IN /\ cache.lru = {LruKey(cache.entries[c].last, c) : c \in held}
     /\ cache.bytes = MapThenSumSet(EntrySize, held)
     /\ cache.bytes <= MaxBytes
     /\ cache.counter <= MaxCounter
     /\ Range(recency) = held /\ Len(recency) = Cardinality(held)
     /\ \A i, j \in 1 .. Len(recency) :
          i < j => cache.entries[recency[i]].last < cache.entries[recency[j]].last

\* What the cache would paint is a tile the host sent in this display epoch.
CachedGenuine ==
  \A c \in DOMAIN cache.entries :
    \E p \in net : /\ p.epoch = cache.epoch /\ p.coord = c
                   /\ p.content = cache.entries[c].content

\* A tile the policy counts as refined was sent as the last frame showed it,
\* and no later packet of that tile says otherwise; a display reported fully
\* refined has no other tile (on_frame against motion and reconfiguration).
RefinedIsSent ==
  /\ \A c \in policy.refined :
       \E p \in net :
         /\ p.epoch = detector.epoch /\ p.coord = c
         /\ p.content = detector.previous[c]
         /\ \A q \in net : (q.epoch = p.epoch /\ q.coord = c) => q.generation <= p.generation
  /\ policy.status = "FullyRefined" => policy.refined = Coords(HostGrid)
  /\ Range(policy.candidates) \cap policy.refined = {}
  /\ Cardinality(Range(policy.candidates)) = Len(policy.candidates)

\* Tiles partition the display: painting every tile of a frame on a blank one
\* gives the whole picture and nothing outside it, no luma sample or pixel is
\* in two tiles, and a tile hashed in place (compute_tile_hash) has the hash
\* its packet will carry (tile_bounds, extract_tile_pixels, apply_tile_pixels;
\* tiles of an odd size share chroma samples).
GridSound(g, format, stride) ==
  LET all == 0 .. ExpectedLen(g, format, stride) - 1
      frame == [o \in all |-> o + 1]
      rows == [c \in Coords(g) |-> TileRows(g, c, format, stride)]
      paint(f, c) == ApplyTile(f, rows[c], ExtractTile(frame, rows[c]))
      width == Stride(g, format, 0)
      pixels(c) == {o \in ToSet(ExtractTile(frame, rows[c])) : o <= stride * g[2]}
  IN /\ FoldLeft(paint, [o \in all |-> 0], RowMajor(g))
          = [o \in all |-> IF o % stride < width THEN frame[o] ELSE 0]
     /\ \A c \in Coords(g) :
          /\ TileCoord(g, TileIndex(g, c)) = c
          /\ TileHash(frame, rows[c]) = HashOf(ExtractTile(frame, rows[c]))
          /\ \A d \in Coords(g) \ {c} : pixels(c) \cap pixels(d) = {}

\* The streaming hash does not depend on how its input was cut, and loses no
\* byte at a block boundary (XxHash64::update, finish).
HashStreams(s) ==
  /\ \A i \in 0 .. Len(s) : \A j \in i .. Len(s) :
       HashFinish(HashUpdate(HashUpdate(HashUpdate(HashNew, SubSeq(s, 1, i)),
                                        SubSeq(s, i + 1, j)),
                             SubSeq(s, j + 1, Len(s)))) = HashOf(s)
  /\ HashOf(s).lanes \o HashOf(s).tail = s

\* Both PackBits codecs give back the bytes they were given, never exceed the
\* worst case the test codec allocates for, and refuse any other length.
PackBitsExact(s) ==
  \A exact \in BOOLEAN :
    LET p == Compress(s, exact)
    IN /\ Decompress(p, Len(s), exact) = {s}
       /\ \A n \in 0 .. Len(s) + 2 : n # Len(s) => Decompress(p, n, exact) = Refused
       /\ Len(p) <= Len(s) + (Len(s) \div MaxRun) + 2
       /\ \A i \in 1 .. Len(p) : p[i] \in 0 .. 2 * MaxRun - 1

\* A packet gives back the tile or frame it was made from, and a damaged one
\* either that or nothing (TileRefinementPacket::decode, ExactTestCodec::decode).
PacketsExact(s) ==
  /\ \A compress \in BOOLEAN :
       LET w == TilePacket(s, compress)
       IN TileDecoded(w) = {s} /\ \A d \in Damages(w) : TileDecoded(d) \subseteq {s}
  /\ ExactDecoded(ExactPacket(s), Len(s)) = {s}
  /\ \A d \in Damages(ExactPacket(s)) : ExactDecoded(d, Len(s)) \subseteq {s}

SampleSound ==
  /\ \A format \in {"bgra", "nv12"} :
       GridSound(sample.grid, format, Stride(sample.grid, format, sample.pad))
  /\ HashStreams(sample.data)
  /\ PackBitsExact(sample.data)
  /\ PacketsExact(sample.data)

TilesInv ==
  /\ CacheExact /\ CachedGenuine /\ RefinedIsSent
  /\ sample # NoSample => SampleSound

=============================================================================
