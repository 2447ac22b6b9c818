----------------------------- MODULE HostDesktop ------------------------------
(***************************************************************************)
(* The desktop sessions of the host: X11DesktopSession (x11_desktop.rs,    *)
(* desktop_convert.rs) and the GDI WindowsDesktopSession (platform-windows *)
(* desktop.rs, letterboxing of crates/frame), capturing a desktop that can *)
(* change its size between any two requests, and the way back: where an    *)
(* absolute pointer position, and a key, of the client ends up.  Of the    *)
(* programs for X11, the secure host ("x11") agrees on a frame size and    *)
(* injects through a second session that never captures; the direct host   *)
(* ("direct") captures and injects in turn through one.                    *)
(*                                                                         *)
(* A size is a pair <<width, height>>.  A pixel of the desktop is          *)
(* <<image, x, y>>, where image numbers the moments at which the desktop   *)
(* was copied; a pixel of a frame is the set of desktop pixels it averages.*)
(* The conversions that are arithmetic only (colour, channel width, key    *)
(* codes, geometry) are checked on a sample chosen in Init: a behaviour    *)
(* has either a sample or a desktop.                                       *)
(***************************************************************************)
EXTENDS Integers, Sequences, FiniteSets, FiniteSetsExt

CONSTANTS Kinds,       \* of "x11", "direct", "gdi"
          Sizes,       \* sizes the desktop can have
          Bounds,      \* negotiated maxima a session can have
          MaxImages,   \* copies of the desktop that are numbered
          MaxCoord,    \* i16::MAX
          NoSample, Samples

VARIABLES kind,      \* the provider
          max,       \* the negotiated maximum of the session
          root,      \* the size of the desktop now
          images,    \* copies made
          cap,       \* the capturing session
          input,     \* the session of the X11 input worker
          stream,    \* the negotiated frame size
          frame,     \* the last frame
          pointer,   \* the pointer of the host
          sample

vars == <<kind, max, root, images, cap, input, stream, frame, pointer, sample>>

NoSize == <<0, 0>>
Smaller(a, b) == IF a < b THEN a ELSE b
Larger(a, b) == IF a < b THEN b ELSE a
Clamped(v, lo, hi) == Smaller(Larger(v, lo), hi)
Points(size) == (0..(size[1] - 1)) \X (0..(size[2] - 1))

-----------------------------------------------------------------------------
(* Geometry.                                                               *)

EvenDimension(n) == n - (n % 2)

Nv12Len(size) == (size[1] * size[2]) + ((size[1] * size[2]) \div 2)

\* letterbox_can_skip_scale.
CanSkipScale(src, m) ==
    /\ \A d \in 1..2 : src[d] >= 2 /\ src[d] % 2 = 0
    /\ src[1] <= m[1] /\ src[2] <= m[2]

Geom(out, content, offset) == [out |-> out, content |-> content, offset |-> offset]
IdentityGeom(size) == Geom(size, size, <<0, 0>>)

\* letterbox_geom of desktop_convert.rs: the frame has the shape of the desktop.
\* {} is InvalidDimensions.
LetterboxGeom(src, m) ==
    LET w == EvenDimension(m[1])
        h == EvenDimension(m[2])
        out == IF src[1] * h >= src[2] * w
                 THEN <<w, Smaller(Larger(EvenDimension((src[2] * w) \div src[1]), 2), h)>>
                 ELSE <<Smaller(Larger(EvenDimension((src[1] * h) \div src[2]), 2), w), h>>
    IN  IF src[1] = 0 \/ src[2] = 0 \/ w < 2 \/ h < 2 THEN {}
        ELSE IF CanSkipScale(src, m) THEN {IdentityGeom(src)}
        ELSE {IdentityGeom(out)}

\* letterbox_geom of crates/frame: the frame fills the bounds and the desktop is
\* centred in it.
CanvasGeom(src, m) ==
    LET out == <<EvenDimension(m[1]), EvenDimension(m[2])>>
        fit(d, e) == EvenDimension(Smaller((src[d] * out[e]) \div src[e], out[d]))
        side(n, d) == Smaller(IF n = 0 THEN 2 ELSE n, out[d])
        content == <<side(fit(1, 2), 1), side(fit(2, 1), 2)>>
        middle(d) == EvenDimension((out[d] - content[d]) \div 2)
    IN  IF src[1] = 0 \/ src[2] = 0 \/ out[1] < 2 \/ out[2] < 2 THEN {}
        ELSE IF CanSkipScale(src, m) THEN {IdentityGeom(src)}
        ELSE {Geom(out, content, <<middle(1), middle(2)>>)}

GeomOf(k, src, m) == IF k = "gdi" THEN CanvasGeom(src, m) ELSE LetterboxGeom(src, m)

\* The source columns (or rows) that column x of n output columns averages.
Span(x, n, src) ==
    LET a == (x * src) \div n
        b == ((x + 1) * src) \div n
        end == Smaller(IF b <= a THEN Smaller(a + 1, src) ELSE b, src)
    IN  Smaller(a, src - 1)..(end - 1)

\* letterbox_copy_pixel: the one source column of content column x.
Nearest(x, n, src) == {Smaller((x * src) \div n, src - 1)}

\* letterbox_scale_bgra_into: row y of the buffer begins at y * stride.  The X11
\* provider averages a box, the other copies one pixel and leaves bars black.
Scaled(k, buf, src, g) ==
    LET at(x, y) == buf[(y * src[1]) + x]
        inside(v, d) == v >= g.offset[d] /\ v < g.offset[d] + g.content[d]
        cols(v, d) == IF k = "gdi" THEN Nearest(v - g.offset[d], g.content[d], src[d])
                      ELSE Span(v, g.out[d], src[d])
    IN  [p \in Points(g.out) |->
            IF inside(p[1], 1) /\ inside(p[2], 2)
              THEN {at(x, y) : x \in cols(p[1], 1), y \in cols(p[2], 2)}
              ELSE {}]

\* bgra_to_nv12 and nv12_to_argb: every pixel keeps its luma, and takes its colour
\* from the top left pixel of its block of four.
ColourFrom(p) == <<EvenDimension(p[1]), EvenDimension(p[2])>>
Shown(pixels) == [p \in DOMAIN pixels |-> [luma |-> pixels[p], chroma |-> pixels[ColourFrom(p)]]]

\* pack_nv12_access_unit and parse_nv12_access_unit.
PackNv12(size) == [size |-> size, len |-> 8 + Nv12Len(size)]
ParseNv12(unit) ==
    IF /\ \A d \in 1..2 : unit.size[d] >= 2 /\ unit.size[d] % 2 = 0
       /\ unit.len = 8 + Nv12Len(unit.size)
      THEN {unit.size} ELSE {}

-----------------------------------------------------------------------------
(* Where the pointer goes.                                                 *)

ScaleTo(v, from, to) == IF from <= 1 THEN 0 ELSE (v * (to - 1)) \div (from - 1)

\* map_letterboxed_pointer.
MapPointer(p, size, g, screen) ==
    LET via(d) == ScaleTo(Smaller(p[d], size[d] - 1), size[d], g.out[d])
        content(d) == Smaller(Larger(via(d) - g.offset[d], 0), g.content[d] - 1)
        to(d) == Smaller(ScaleTo(content(d), g.content[d], screen[d]), screen[d] - 1)
    IN  <<to(1), to(2)>>

AbsoluteCoordinate(v, extent) == Smaller(v, Smaller(extent - 1, MaxCoord))

\* The geometries inject computes for a picture that no capture made.
Computed(session, size) ==
    IF LetterboxGeom(session.screen, size) # {} THEN LetterboxGeom(session.screen, size)
    ELSE {IdentityGeom(<<Larger(size[1], 2), Larger(size[2], 2)>>)}

Through(g, session, p, size) ==
    LET q == MapPointer(p, size, g, session.screen)
    IN  <<AbsoluteCoordinate(q[1], session.screen[1]), AbsoluteCoordinate(q[2], session.screen[2])>>

\* Faulty: the geometry is always computed from the size of the picture.
LandingComputed(session, p, size) ==
    Through(CHOOSE g \in Computed(session, size) : TRUE, session, p, size)

\* X11DesktopSession::inject of an absolute motion over a picture of the given size:
\* the geometry of the last capture if it made that picture, otherwise a computed one.
Landing(session, p, size) ==
    LET kept == {g \in session.geom : g.out = size}
    IN  Through(CHOOSE g \in IF kept # {} THEN kept ELSE Computed(session, size) : TRUE,
                session, p, size)

\* relative_pointer_coordinate.
RelativeCoordinate(v, delta, extent) == Clamped(v + delta, 0, Smaller(extent - 1, MaxCoord))

\* applied_input_to_win32 of an absolute motion: a fraction of 65535 of the desktop.
Normalized(v, extent) == (v * 65535) \div Larger(extent - 1, 1)

-----------------------------------------------------------------------------
(* Colour, channels and keys.                                              *)

\* The tables of desktop_convert.rs and rgb_to_yuv_bt601_limited.
RgbToYuv(c) ==
    LET mix(r, g, b) == ((r * c[1]) + (g * c[2]) + (b * c[3]) + 128) \div 256
    IN  <<Clamped(mix(66, 129, 25) + 16, 16, 235),
          Clamped(mix(-38, -74, 112) + 128, 16, 240),
          Clamped(mix(112, -94, -18) + 128, 16, 240)>>

YuvToRgb(c) ==
    LET y == 298 * (c[1] - 16)
        u == c[2] - 128
        v == c[3] - 128
        byte(n) == Clamped((n + 128) \div 256, 0, 255)
    IN  <<byte(y + (409 * v)), byte(y - (100 * u) - (208 * v)), byte(y + (516 * u))>>

\* rgb_to_yuv and yuv_to_rgb of platform-linux: the rows of each standard, and the
\* coefficients of the way back (red by v, green by u and v, blue by u).
ToYuv ==
    [bt601 |-> <<<<66, 129, 25>>, <<-38, -74, 112>>, <<112, -94, -18>>>>,
     bt709 |-> <<<<47, 157, 16>>, <<-26, -87, 113>>, <<113, -103, -10>>>>,
     bt2020 |-> <<<<58, 149, 13>>, <<-30, -79, 109>>, <<109, -97, -12>>>>,
     bt601full |-> <<<<77, 150, 29>>, <<-43, -85, 128>>, <<128, -107, -21>>>>,
     bt709full |-> <<<<54, 182, 18>>, <<-29, -99, 128>>, <<128, -116, -12>>>>,
     bt2020full |-> <<<<67, 173, 15>>, <<-35, -93, 128>>, <<128, -114, -14>>>>]
ToRgb ==
    [bt601 |-> <<409, 100, 208, 516>>, bt709 |-> <<459, 55, 136, 541>>,
     bt2020 |-> <<434, 43, 164, 548>>, bt601full |-> <<359, 88, 183, 454>>,
     bt709full |-> <<395, 47, 117, 466>>, bt2020full |-> <<373, 37, 141, 471>>]
Limited == {"bt601", "bt709", "bt2020"}

StandardYuv(c, s) ==
    LET mix(i) == ((ToYuv[s][i][1] * c[1]) + (ToYuv[s][i][2] * c[2])
                     + (ToYuv[s][i][3] * c[3]) + 128) \div 256
        byte(n) == Clamped(n, 0, 255)
    IN  <<byte(mix(1) + IF s \in Limited THEN 16 ELSE 0), byte(mix(2) + 128), byte(mix(3) + 128)>>

StandardRgb(c, s) ==
    LET k == ToRgb[s]
        u == c[2] - 128
        v == c[3] - 128
        near(n) == (n + 128) \div 256
        byte(n) == Clamped(n, 0, 255)
        y == 298 * (c[1] - 16)
    IN  IF s \in Limited
          THEN <<byte(near(y + (k[1] * v))), byte(near(y - (k[2] * u) - (k[3] * v))),
                 byte(near(y + (k[4] * u)))>>
          ELSE <<byte(c[1] + near(k[1] * v)), byte(c[1] - near((k[2] * u) + (k[3] * v))),
                 byte(c[1] + near(k[4] * u))>>

\* CoordinateTransform::map: a quarter turn, then each axis scaled; {} is
\* CoordinateBounds.
Turned(p, from, quarter) ==
    LET x == p[1]
        y == p[2]
        mx == from[1] - 1 - x
        my == from[2] - 1 - y
    IN  CASE quarter = 0 -> <<x, y>>
          [] quarter = 1 -> <<my, x>>
          [] quarter = 2 -> <<mx, my>>
          [] OTHER -> <<y, mx>>
Transposed(size, quarter) == IF quarter % 2 = 0 THEN size ELSE <<size[2], size[1]>>
ScaleCoordinate(v, from, to) == IF from <= 1 \/ to <= 1 THEN 0 ELSE (v * (to - 1)) \div (from - 1)
Transform(p, from, to, quarter) ==
    IF p \notin Points(from) \/ 0 \in {to[1], to[2]} THEN {}
    ELSE LET q == Turned(p, from, quarter)
             size == Transposed(from, quarter)
         IN  {<<ScaleCoordinate(q[1], size[1], to[1]), ScaleCoordinate(q[2], size[2], to[2])>>}

\* LinuxDisplayTransform::map_host_to_client: the inverse turn, from the host's size
\* with its sides swapped by a quarter turn.
TransformBack(p, client, host, quarter) ==
    Transform(p, Transposed(host, quarter), client, (4 - quarter) % 4)

\* extract_channel of a value under a mask of the given number of bits.
ExtractChannel(v, bits) ==
    IF bits = 0 THEN 0
    ELSE IF bits >= 8 THEN v \div (2 ^ (bits - 8))
    ELSE (v * 255) \div ((2 ^ bits) - 1)

\* evdev_codes and hid_to_evdev, for the usages 4 to 46, then the special ones.
EvdevKeys ==
    <<30, 48, 46, 32, 18, 33, 34, 35, 23, 36, 37, 38, 50, 49, 24, 25, 16, 19, 31, 20,
      22, 47, 17, 45, 21, 44, 2, 3, 4, 5, 6, 7, 8, 9, 10, 11, 28, 1, 14, 15, 57, 12, 13>>
EvdevFunctions == <<59, 60, 61, 62, 63, 64, 65, 66, 67, 68, 87, 88>>
EvdevArrows == <<106, 105, 108, 103>>
EvdevModifiers == <<29, 42, 56, 125, 97, 54, 100, 126>>
HidToEvdev(u) ==
    CASE u \in 4..46 -> EvdevKeys[u - 3]
      [] u \in 58..69 -> EvdevFunctions[u - 57]
      [] u \in 79..82 -> EvdevArrows[u - 78]
      [] u \in 224..231 -> EvdevModifiers[u - 223]
      [] OTHER -> u

\* hid_usage_to_win32_vk: the virtual key and whether it is an extended one.
VkPunctuation == <<13, 27, 8, 9, 32, 189, 187, 219, 221, 220>>
VkMarks == <<186, 222, 192, 188, 190, 191, 20>>
VkNavigation == <<44, 145, 19, 45, 36, 33, 46, 35, 34, 39, 37, 40, 38, 144, 111>>
VkModifiers == <<162, 160, 164, 91, 163, 161, 165, 92>>
HidToVk(u) ==
    CASE u \in 4..29 -> <<65 + (u - 4), FALSE>>
      [] u \in 30..38 -> <<49 + (u - 30), FALSE>>
      [] u = 39 -> <<48, FALSE>>
      [] u \in 40..49 -> <<VkPunctuation[u - 39], FALSE>>
      [] u \in 51..57 -> <<VkMarks[u - 50], FALSE>>
      [] u \in 58..69 -> <<112 + (u - 58), FALSE>>
      [] u \in 70..84 -> <<VkNavigation[u - 69], u >= 73>>
      [] u \in 85..87 -> <<(<<106, 109, 107>>)[u - 84], FALSE>>
      [] u = 88 -> <<13, TRUE>>
      [] u \in 89..97 -> <<97 + (u - 89), FALSE>>
      [] u \in 98..99 -> <<(<<96, 110>>)[u - 97], FALSE>>
      [] u \in 224..231 -> <<VkModifiers[u - 223], u >= 227>>
      [] OTHER -> <<u, FALSE>>

\* win32_vk_to_hid_usage: what the Windows window sends; {} is None.
VkToHid(vk) ==
    CASE vk \in 65..90 -> {4 + (vk - 65)}
      [] vk \in 49..57 -> {30 + (vk - 49)}
      [] vk = 48 -> {39}
      [] vk = 13 -> {40}
      [] vk = 27 -> {41}
      [] vk \in 8..9 -> {34 + vk}
      [] vk = 32 -> {44}
      [] vk \in {16, 160} -> {225}
      [] vk \in {17, 162} -> {224}
      [] vk \in {18, 164} -> {226}
      [] vk = 91 -> {227}
      [] vk = 161 -> {229}
      [] vk = 163 -> {228}
      [] vk = 165 -> {230}
      [] vk = 92 -> {231}
      [] vk \in 37..40 -> {(<<80, 82, 79, 81>>)[vk - 36]}
      [] vk \in 112..123 -> {58 + (vk - 112)}
      [] OTHER -> {}

\* The usages of the portable window (hid_usage) and of the Windows one.
WindowUsages == (4..44) \cup (79..82) \cup (224..226)
ClientUsages == WindowUsages \cup UNION {VkToHid(vk) : vk \in 0..255}

-----------------------------------------------------------------------------
(* The sessions.                                                           *)

AtLeastTwo(size) == <<Larger(size[1], 2), Larger(size[2], 2)>>

\* The session after open: no geometry, empty buffers.
Session(screen) == [pc |-> "idle", screen |-> screen, geom |-> {}, buf |-> [i \in {} |-> {}]]
NoFrame == [size |-> NoSize, screen |-> NoSize, image |-> 0, geom |-> {}, pixels |-> [p \in {} |-> {}]]

Init ==
    /\ images = 0 /\ stream = NoSize /\ frame = NoFrame /\ pointer = <<0, 0>>
    /\ \/ /\ sample = NoSample
          /\ kind \in Kinds /\ max \in Bounds /\ root \in Sizes
          /\ kind = "gdi" => root = AtLeastTwo(root)
          /\ cap = Session(AtLeastTwo(root)) /\ input = Session(NoSize)
       \/ /\ sample \in Samples
          /\ kind = "x11" /\ max = <<2, 2>> /\ root = <<2, 2>>
          /\ cap = Session(root) /\ input = Session(NoSize)

\* The desktop changes its size; the server keeps the pointer on it.
Resize(size) ==
    /\ sample = NoSample /\ size # root /\ images < MaxImages
    /\ root' = size
    /\ pointer' = <<Smaller(pointer[1], size[1] - 1), Smaller(pointer[2], size[2] - 1)>>
    /\ UNCHANGED <<kind, max, images, cap, input, stream, frame, sample>>

\* The host plans the stream from the size its capturing session knows, and ends
\* the session if there is no geometry.
Negotiate ==
    /\ sample = NoSample /\ kind = "x11" /\ stream = NoSize /\ cap.pc = "idle"
    /\ LET g == LetterboxGeom(cap.screen, max) IN
       IF g = {} THEN cap' = [cap EXCEPT !.pc = "ended"] /\ UNCHANGED stream
       ELSE stream' = (CHOOSE x \in g : TRUE).out /\ UNCHANGED cap
    /\ UNCHANGED <<kind, max, root, images, input, frame, pointer, sample>>

\* The input worker opens a session of its own.
OpenInput ==
    /\ stream # NoSize /\ input.screen = NoSize
    /\ input' = Session(AtLeastTwo(root))
    /\ UNCHANGED <<kind, max, root, images, cap, stream, frame, pointer, sample>>

\* Faulty: a new size leaves the geometry of the last capture in place.
RefreshedKeeps(c) == [c EXCEPT !.screen = AtLeastTwo(root)]

\* refresh_root_geometry: a new size forgets the geometry of the last capture.
Refreshed(c) ==
    IF AtLeastTwo(root) = c.screen THEN c
    ELSE [c EXCEPT !.screen = AtLeastTwo(root), !.geom = {}]

\* capture_root_bgra, up to the request for the image.
Refresh ==
    /\ sample = NoSample /\ kind # "gdi" /\ (kind = "x11" => stream # NoSize)
    /\ cap.pc \in {"idle", "again"} /\ images < MaxImages
    /\ cap' = [Refreshed(cap) EXCEPT !.pc = IF cap.pc = "idle" THEN "image" ELSE "last"]
    /\ UNCHANGED <<kind, max, root, images, input, stream, frame, pointer, sample>>

\* A buffer that only grows, and the image written at its front.
Grown(buf, size) ==
    [i \in (DOMAIN buf) \cup (0..((size[1] * size[2]) - 1)) |->
        IF i \in DOMAIN buf THEN buf[i] ELSE <<0, 0, 0>>]
Filled(buf, size, image) ==
    [i \in DOMAIN Grown(buf, size) |->
        IF i < size[1] * size[2] THEN <<image, i % size[1], i \div size[1]>> ELSE buf[i]]

\* capture_nv12 once the image is there: the whole of it without scaling, or scaled.
Captured(c, size, buf) ==
    LET geoms == GeomOf(kind, size, max)
        g == CHOOSE x \in geoms : TRUE
    IN  IF geoms = {}
          THEN /\ cap' = [c EXCEPT !.pc = "ended", !.buf = buf, !.screen = size]
               /\ UNCHANGED frame
        ELSE /\ cap' = [c EXCEPT !.pc = IF stream \in {NoSize, g.out} THEN "idle" ELSE "ended",
                                 !.buf = buf, !.screen = size,
                                 !.geom = IF kind = "gdi" THEN {} ELSE geoms]
             /\ frame' = [size |-> g.out, screen |-> size, image |-> images + 1, geom |-> geoms,
                          pixels |-> Shown(Scaled(kind, buf, size, g))]

\* get_image_unpacked: the server refuses an area that is not on the desktop; the
\* second refusal is the caller's error.
GetImage ==
    /\ cap.pc \in {"image", "last"}
    /\ IF cap.screen[1] <= root[1] /\ cap.screen[2] <= root[2]
         THEN /\ Captured(cap, cap.screen, Filled(cap.buf, cap.screen, images + 1))
              /\ images' = images + 1
       ELSE /\ cap' = [cap EXCEPT !.pc = IF cap.pc = "image" THEN "again" ELSE "ended"]
            /\ UNCHANGED <<images, frame>>
    /\ UNCHANGED <<kind, max, root, input, stream, pointer, sample>>

\* capture_desktop_bgra of the GDI session: the buffer is made for the size of the
\* desktop as it is.
Metrics ==
    /\ sample = NoSample /\ kind = "gdi" /\ cap.pc = "idle" /\ images < MaxImages
    /\ cap' = IF root[1] < 2 \/ root[2] < 2 THEN [cap EXCEPT !.pc = "ended"]
              ELSE [cap EXCEPT !.pc = "blit", !.buf = Grown(cap.buf, root)]
    /\ UNCHANGED <<kind, max, root, images, input, stream, frame, pointer, sample>>

\* gdi_capture_desktop_bgra: the size is read again; a buffer that is too small for
\* it is made larger once.
Blit ==
    /\ cap.pc \in {"blit", "reblit"}
    /\ IF Cardinality(DOMAIN cap.buf) < root[1] * root[2]
         THEN /\ cap' = IF cap.pc = "blit" /\ root[1] >= 2 /\ root[2] >= 2
                          THEN [cap EXCEPT !.pc = "reblit", !.buf = Grown(cap.buf, root)]
                        ELSE [cap EXCEPT !.pc = "ended"]
              /\ UNCHANGED <<images, frame>>
       ELSE IF root[1] < 2 \/ root[2] < 2
         THEN cap' = [cap EXCEPT !.pc = "ended"] /\ UNCHANGED <<images, frame>>
       ELSE /\ Captured(cap, root, Filled(cap.buf, root, images + 1))
            /\ images' = images + 1
    /\ UNCHANGED <<kind, max, root, input, stream, pointer, sample>>

\* Who injects, and the size of the picture the client points at: the one agreed on,
\* or that of the last frame.
Injector == IF kind = "direct" THEN cap ELSE input
Injecting == IF kind = "direct" THEN cap.pc = "idle" /\ frame # NoFrame ELSE input.screen # NoSize
Pictured == IF kind = "direct" THEN frame.size ELSE stream

\* inject of an absolute motion; the server keeps the pointer on the desktop.
Motion(p) ==
    /\ Injecting
    /\ LET q == Landing(Injector, p, Pictured) IN
       pointer' = <<Smaller(q[1], root[1] - 1), Smaller(q[2], root[2] - 1)>>
    /\ UNCHANGED <<kind, max, root, images, cap, input, stream, frame, sample>>

\* inject of a relative motion.
Relative(dx, dy) ==
    /\ Injecting
    /\ LET x == RelativeCoordinate(pointer[1], dx, Injector.screen[1])
           y == RelativeCoordinate(pointer[2], dy, Injector.screen[2])
       IN  pointer' = <<Smaller(x, root[1] - 1), Smaller(y, root[2] - 1)>>
    /\ UNCHANGED <<kind, max, root, images, cap, input, stream, frame, sample>>

Next ==
    \/ \E size \in Sizes : Resize(size)
    \/ Negotiate \/ OpenInput \/ Refresh \/ GetImage \/ Metrics \/ Blit
    \/ \E p \in Points(Pictured) : Motion(p)
    \/ \E dx, dy \in {-1, 1} : Relative(dx, dy)

Spec == Init /\ [][Next]_vars

-----------------------------------------------------------------------------
(* Properties.                                                             *)

\* A frame is even, within the bounds of the session and a valid access unit; it is
\* made of one copy of the desktop only, nothing older in the reused buffers shows
\* through; and a frame that is no larger than the desktop leaves no part of it out
\* when boxes are averaged, so no pixel is counted twice.
FrameWhole ==
    frame # NoFrame =>
      LET g == CHOOSE x \in frame.geom : TRUE
          whole == {frame.image} \X (0..(frame.screen[1] - 1)) \X (0..(frame.screen[2] - 1))
          seen == UNION {frame.pixels[p].luma : p \in DOMAIN frame.pixels}
      IN  /\ \A d \in 1..2 : frame.size[d] % 2 = 0 /\ frame.size[d] <= max[d]
          /\ ParseNv12(PackNv12(frame.size)) = {frame.size}
          /\ seen \subseteq whole
          /\ \A p \in DOMAIN frame.pixels :
               LET q == frame.pixels[p] IN q.luma = {} => kind = "gdi"
          /\ kind # "gdi" /\ frame.size[1] <= frame.screen[1] /\ frame.size[2] <= frame.screen[2]
               => /\ seen = whole
                  /\ MapThenSumSet(LAMBDA p : Cardinality(frame.pixels[p].luma), DOMAIN frame.pixels)
                       = Cardinality(whole)
          /\ \A d \in 1..2 : g.offset[d] + g.content[d] <= g.out[d]

\* The geometry a session keeps was computed for the size it believes in.
GeomFresh == \A g \in cap.geom : g \in LetterboxGeom(cap.screen, max)

\* In the direct host a click on a pixel of the last frame lands on a desktop pixel
\* that frame pixel was made from, whatever the size of the desktop has become since,
\* as far as the frame is no larger than the desktop it shows.
PointerExact ==
    kind = "direct" /\ Injecting
      => \A p \in Points(frame.size), d \in 1..2 :
           frame.size[d] <= frame.screen[d]
             => Landing(cap, p, frame.size)[d] \in Span(p[d], frame.size[d], frame.screen[d])

\* In the secure host too, whose input worker computes a geometry of its own from the
\* size the desktop had when it was opened, the corners reach the corners of the desktop
\* the injecting session knows, and nothing is turned round.
PointerOrdered ==
    Injecting =>
      LET land(p) == Landing(Injector, p, Pictured)
          last == <<Pictured[1] - 1, Pictured[2] - 1>>
      IN  /\ land(<<0, 0>>) = <<0, 0>>
          /\ land(last) = <<Injector.screen[1] - 1, Injector.screen[2] - 1>>
          /\ \A p \in Points(Pictured) : \A d \in 1..2 :
               p[d] < last[d] => land([p EXCEPT ![d] = @ + 1])[d] >= land(p)[d]

\* Grey stays grey, and a colour survives the conversion both ways within two steps.
ColourKept(c) ==
    LET yuv == RgbToYuv(c)
        back == YuvToRgb(yuv)
    IN  /\ c[1] = c[2] /\ c[2] = c[3] => yuv[2] = 128 /\ yuv[3] = 128
        /\ \A i \in 1..3 : back[i] - c[i] \in -2..2

\* Every standard: limited luma stays in its range, and a colour comes back within
\* the sixteen steps the conformance tests allow.
StandardsKept(c) ==
    \A s \in DOMAIN ToYuv :
        LET yuv == StandardYuv(c, s)
            back == StandardRgb(yuv, s)
        IN  /\ s \in Limited => yuv[1] \in 16..235
            /\ \A i \in 1..3 : back[i] - c[i] \in -16..16

\* A pointer position stays on the target, its corners reach the corners, and on a
\* square desktop of the same size the way back undoes the way there.
TransformKept(from, to) ==
    \A quarter \in 0..3 :
        /\ \A p \in Points(from) : \A q \in Transform(p, from, to, quarter) : q \in Points(to)
        /\ (\A d \in 1..2 : from[d] > 1) =>
             {<<0, 0>>, <<to[1] - 1, to[2] - 1>>} \subseteq
               UNION {Transform(p, from, to, quarter) : p \in Points(from)}
        /\ from[1] = from[2] /\ to = from => \A p \in Points(from) :
             \A q \in Transform(p, from, to, quarter) : TransformBack(q, from, to, quarter) = {p}

\* A channel of any width covers 0 to 255 in order.
ChannelKept(bits) ==
    /\ ExtractChannel(0, bits) = 0 /\ ExtractChannel((2 ^ bits) - 1, bits) = 255
    /\ \A v \in 1..((2 ^ bits) - 1) : ExtractChannel(v - 1, bits) <= ExtractChannel(v, bits)

\* Two keys a client sends are two keys on either host, an X11 key code exists for
\* each, and a Windows key comes back as itself, a generic modifier as the left one.
KeyKept(u) ==
    /\ u \in ClientUsages => HidToEvdev(u) + 8 \in 9..255
    /\ \A v \in ClientUsages \ {u} :
         u \in ClientUsages => HidToEvdev(u) # HidToEvdev(v) /\ HidToVk(u) # HidToVk(v)
    /\ u \in 0..255 => \A w \in VkToHid(u) :
         HidToVk(w)[1] = IF u \in 16..18 THEN 160 + (2 * (u - 16)) ELSE u

\* The canvas of the other provider is inside the bounds and the desktop inside it.
CanvasKept(src, m) ==
    \A g \in CanvasGeom(src, m) : \A d \in 1..2 :
        /\ g.out[d] % 2 = 0 /\ g.content[d] % 2 = 0 /\ g.content[d] >= 2
        /\ g.out[d] <= m[d] /\ g.offset[d] + g.content[d] <= g.out[d]

\* The last column of a picture is the last of the desktop on Windows.
NormalKept(extent) ==
    /\ Normalized(0, extent) = 0 /\ (extent > 1 => Normalized(extent - 1, extent) = 65535)

SampleSound ==
    sample # NoSample =>
      CASE sample.of = "colour" -> ColourKept(sample.a) /\ StandardsKept(sample.a)
        [] sample.of = "channel" -> ChannelKept(sample.a[1])
        [] sample.of = "key" -> KeyKept(sample.a[1])
        [] OTHER -> CanvasKept(sample.a, sample.b) /\ NormalKept(sample.a[1])
                     /\ TransformKept(sample.a, sample.b)

DesktopInv == FrameWhole /\ GeomFresh /\ PointerExact /\ PointerOrdered /\ SampleSound
===============================================================================
