-------------------------------- MODULE AnnexB --------------------------------
(* The inspection of H.264 access units, crates/h264/src/lib.rs: start codes,   *)
(* network abstraction layer (NAL) units, the slice type read through emulation *)
(* prevention and Exp-Golomb codes.  The continuity planner marks a frame as a  *)
(* recovery point on this summary alone.                                        *)
(*                                                                              *)
(* A unit is written by the standard's rules, which are the reference here, and *)
(* then loses its last bytes one at a time.  Errors are one refusal, {}.        *)
EXTENDS Integers, Sequences, FiniteSets, SequencesExt

CONSTANTS
    Units,          \* sequences of NAL units [long, type, mb, slice, tail, zeros]
    MaxAccessUnit,  \* MAX_ACCESS_UNIT_BYTES
    MaxNalUnits,    \* MAX_NAL_UNITS
    MaxPrefix,      \* bytes of a slice header that are unescaped, 64
    MaxRbsp         \* MAX_RBSP_BYTES

VARIABLES
    unit,           \* what the encoder wrote
    bytes           \* what is left of it

vars == <<unit, bytes>>

-------------------------------------------------------------------------------
(* Writing a unit.                                                              *)

RECURSIVE Binary(_)
Binary(n) == IF n = 0 THEN <<>> ELSE Append(Binary(n \div 2), n % 2)

\* ue(v): as many zeros as digits follow the leading one of n + 1.
Ue(n) ==
    LET digits == Binary(n + 1)
    IN  [i \in 1..(Len(digits) - 1) |-> 0] \o digits

\* Bits in bytes; the stop bit, then zeros, complete the last one.
Packed(bits) ==
    LET at(i) == IF i <= Len(bits) THEN bits[i] ELSE IF i = Len(bits) + 1 THEN 1 ELSE 0
        byte(k) == FoldLeft(LAMBDA n, i : (2 * n) + at((8 * (k - 1)) + i), 0,
                            <<1, 2, 3, 4, 5, 6, 7, 8>>)
    IN  [k \in 1..((Len(bits) \div 8) + 1) |-> byte(k)]

\* A 3 goes before a byte below 4 that follows two zeros.
Escaped(rbsp) ==
    FoldLeft(LAMBDA out, b :
                 LET n == Len(out)
                 IN  IF n >= 2 /\ b <= 3 /\ out[n] = 0 /\ out[n - 1] = 0
                       THEN out \o <<3, b>> ELSE Append(out, b),
             <<>>, rbsp)

Picture(nal) == nal.type \in {1, 5}

Written(nal) ==
    (IF nal.long THEN <<0, 0, 0, 1>> ELSE <<0, 0, 1>>)
      \o <<96 + nal.type>>
      \o Escaped((IF Picture(nal) THEN Packed(Ue(nal.mb) \o Ue(nal.slice)) ELSE <<>>) \o nal.tail)
      \o [i \in 1..nal.zeros |-> 0]

WrittenUnit(u) == FlattenSeq([i \in DOMAIN u |-> Written(u[i])])

-------------------------------------------------------------------------------
(* Reading it.                                                                  *)

\* BitReader::read_bit, bits counted from zero
Bit(rbsp, n) == (rbsp[(n \div 8) + 1] \div (2 ^ (7 - (n % 8)))) % 2

\* BitReader::read_ue: {} when the bits run out.
ReadUe(rbsp, from) ==
    LET end == 8 * Len(rbsp)
        ones == {n \in from..(end - 1) : Bit(rbsp, n) = 1}
        one == CHOOSE n \in ones : \A m \in ones : n <= m
        leading == one - from
        suffix == FoldLeft(LAMBDA v, i : (2 * v) + Bit(rbsp, one + i), 0, [i \in 1..leading |-> i])
    IN  IF ones = {} \/ leading > 31 \/ one + leading >= end THEN {}
        ELSE {[value |-> (2 ^ leading) - 1 + suffix, next |-> one + leading + 1]}

\* The limits of unescape_rbsp_prefix: the whole slice counts, not the prefix read.
RbspFits(ebsp) == MaxPrefix \in 1..MaxRbsp /\ Len(ebsp) <= MaxRbsp + (MaxRbsp \div 2)

\* Faulty: the escape byte is taken for data.
UnescapedWhole(ebsp) == IF RbspFits(ebsp) THEN {ebsp} ELSE {}

\* unescape_rbsp_prefix: after two zeros only a 3 followed by a byte below 4 may
\* come; it is dropped.  What follows the prefix is not looked at.
Unescaped(ebsp) ==
    LET step(s, i) ==
          IF ~s.ok \/ Len(s.out) >= MaxPrefix THEN s
          ELSE IF s.zeros >= 2 /\ ebsp[i] <= 3
            THEN [s EXCEPT !.zeros = 0,
                           !.ok = ebsp[i] = 3 /\ i < Len(ebsp) /\ ebsp[i + 1] <= 3]
            ELSE [s EXCEPT !.out = Append(@, ebsp[i]),
                           !.zeros = IF ebsp[i] = 0 THEN @ + 1 ELSE 0]
        end == FoldLeft(step, [out |-> <<>>, zeros |-> 0, ok |-> TRUE], [i \in 1..Len(ebsp) |-> i])
    IN  IF RbspFits(ebsp) /\ end.ok THEN {end.out} ELSE {}

\* parse_slice_class: trailing zeros are cut, the first macroblock is skipped.
SliceClass(ebsp) ==
    LET used == {i \in DOMAIN ebsp : ebsp[i] # 0}
        last == CHOOSE i \in used : \A j \in used : j <= i
    IN  IF used = {} THEN {}
        ELSE UNION {UNION {{t.value % 5 : t \in ReadUe(rbsp, mb.next)} : mb \in ReadUe(rbsp, 0)} :
                       rbsp \in Unescaped(SubSeq(ebsp, 1, last))}

\* find_start_codes: where each 0 0 1 is; a zero before it belongs to the code.
StartCodes(b) == {i \in 1..(Len(b) - 2) : b[i] = 0 /\ b[i + 1] = 0 /\ b[i + 2] = 1}
CodeBegin(b, i) == IF i > 1 /\ b[i - 1] = 0 THEN i - 1 ELSE i

\* The NAL units between the start codes of inspect_annex_b.
NalUnits(b) ==
    LET codes == SetToSortSeq(StartCodes(b), LAMBDA i, j : i < j)
        end(k) == IF k = Len(codes) THEN Len(b) ELSE CodeBegin(b, codes[k + 1]) - 1
    IN  [k \in DOMAIN codes |-> SubSeq(b, codes[k] + 3, end(k))]

NalType(nal) == nal[1] % 32

NalAccepted(nal) ==
    /\ nal # <<>>
    /\ nal[1] < 128
    /\ NalType(nal) \notin {0, 2, 3, 4} \union 24..31
    /\ NalType(nal) \in {1, 5} => SliceClass(Tail(nal)) # {}

\* AnnexBSummary of the types met; validate_low_delay and the picture checks
\* decide whether there is one.
Summary(nals) ==
    LET types == {NalType(nals[k]) : k \in DOMAIN nals}
    IN  [idr |-> 5 \in types, other |-> 1 \in types, sps |-> 7 \in types, pps |-> 8 \in types,
         aud |-> 9 \in types, nals |-> Len(nals),
         b |-> \E k \in DOMAIN nals :
                   NalType(nals[k]) \in {1, 5} /\ SliceClass(Tail(nals[k])) = {1}]

\* inspect_annex_b
Inspect(b) ==
    LET codes == StartCodes(b)
        nals == NalUnits(b)
        first == CHOOSE i \in codes : \A j \in codes : i <= j
    IN  IF \/ Len(b) \notin 1..MaxAccessUnit
           \/ codes = {}
           \/ Cardinality(codes) > MaxNalUnits
           \/ \E i \in 1..(CodeBegin(b, first) - 1) : b[i] # 0
           \/ \E k \in DOMAIN nals : ~NalAccepted(nals[k])
          THEN {}
          ELSE {s \in {Summary(nals)} : s.idr # s.other /\ ~s.b}

-------------------------------------------------------------------------------
Init ==
    /\ unit \in Units
    /\ bytes = WrittenUnit(unit)

\* The unit ends early.
LoseByte ==
    /\ bytes # <<>>
    /\ bytes' = Front(bytes)
    /\ UNCHANGED unit

Next == LoseByte

Spec == Init /\ [][Next]_vars

-------------------------------------------------------------------------------
Types(u) == {u[i].type : i \in DOMAIN u}

\* The unit is one low-delay picture.
LowDelayPicture(u) ==
    /\ Types(u) \intersect ({0, 2, 3, 4} \union 24..31) = {}
    /\ (1 \in Types(u)) # (5 \in Types(u))
    /\ \A i \in DOMAIN u : Picture(u[i]) => u[i].slice % 5 # 1

\* It stays within the limits of the inspection, up to the last byte of each: that
\* of a slice is on its escaped bytes, the zeros behind it not counted.
WithinLimits(u) ==
    /\ Len(WrittenUnit(u)) <= MaxAccessUnit
    /\ Len(u) <= MaxNalUnits
    /\ \A i \in DOMAIN u :
         Picture(u[i]) => 2 * (Len(Written([u[i] EXCEPT !.long = FALSE, !.zeros = 0])) - 4) <= 3 * MaxRbsp

\* What the summary of a whole unit has to be, from what was written.
Described(u) ==
    [idr |-> 5 \in Types(u), other |-> 1 \in Types(u), sps |-> 7 \in Types(u),
     pps |-> 8 \in Types(u), aud |-> 9 \in Types(u), nals |-> Len(u), b |-> FALSE]

\* inspect_annex_b reads back exactly what was written, through start codes of both
\* lengths, trailing zeros and emulation prevention, and refuses exactly what is no
\* low-delay picture or exceeds a limit.  Of a unit cut short anywhere, inside the
\* prefix that is unescaped (unescape_rbsp_prefix) or behind it, it may refuse, but
\* it never turns a dependent picture into a recovery point.
InspectionExact ==
    LET seen == Inspect(bytes)
    IN  /\ bytes = WrittenUnit(unit) =>
             seen = IF LowDelayPicture(unit) /\ WithinLimits(unit) THEN {Described(unit)} ELSE {}
        /\ LowDelayPicture(unit) =>
             \A s \in seen : s.idr = (5 \in Types(unit)) /\ s.nals <= Len(unit)
===============================================================================
