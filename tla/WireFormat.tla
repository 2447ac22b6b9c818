----------------------------- MODULE WireFormat -----------------------------
(***************************************************************************)
(* The records that cross the wire: crates/protocol (lib.rs and quic.rs)   *)
(* and the input records of crates/input.  A message is a function from    *)
(* field names to bytes, an integer being its big-endian bytes (as         *)
(* to_be_bytes and read_u16, read_u32, read_u64 have it), so widths, limits  *)
(* and the comparison of 64-bit values are those of the code.  A record is *)
(* described once, by a layout, and both its encoder and its decoder       *)
(* follow it; what the two check is stated record by record.               *)
(*                                                                         *)
(* A behaviour carries one message: the sender encodes it, the link may    *)
(* damage it, the receiver decodes what arrives.  The replay window and    *)
(* the epoch tracker, which keep state between records, are the second     *)
(* half of the module.                                                     *)
(***************************************************************************)
EXTENDS Integers, FiniteSets, Sequences, SequencesExt, TLC

CONSTANTS
    Noise,         \* the bytes that damage may write
    WindowSize,    \* AntiReplayFilter::WINDOW_SIZE (128)
    MaxSequence,   \* bound: the largest sequence number tried
    MaxEpoch       \* bound: the largest epoch tried

VARIABLES
    phase,         \* "message", "sent", "received"; or "window"
    record,        \* [kind, message, built]: what the sender encodes, and
                   \*   whether the endpoints build it as it is
    bytes,         \* what is on the link, <<>> when the encoder refused
    decoded,       \* the set of messages the decoder returned: none or one
    damage,        \* "none", "byte", "short", "long"
    filter,        \* AntiReplayFilter: [max, seen] (bitmap as the set of its bits)
    epoch,         \* EpochTracker: current_epoch
    accepted       \* history: how often each sequence number was accepted

vars == <<phase, record, bytes, decoded, damage, filter, epoch, accepted>>

codec == <<record, bytes, decoded, damage>>
window == <<filter, epoch, accepted>>

-----------------------------------------------------------------------------
(* Bytes.                                                                  *)

U(n, w) == [i \in 1 .. w |-> IF w - i > 3 THEN 0 ELSE (n \div 256 ^ (w - i)) % 256]
Num(b) == FoldLeft(LAMBDA n, x : n * 256 + x, 0, b)
Less(a, b) ==
    \E i \in DOMAIN a : a[i] < b[i] /\ \A j \in 1 .. i - 1 : a[j] = b[j]
Zero(b) == \A i \in DOMAIN b : b[i] = 0
AllOnes(b) == \A i \in DOMAIN b : b[i] = 255
AtMost(b, n) == ~Less(U(n, Len(b)), b)
Between(b, lo, hi) == ~Less(b, U(lo, Len(b))) /\ AtMost(b, hi)
Bit(b, i) == (b[Len(b)] \div 2 ^ i) % 2 = 1
Even(b) == b[Len(b)] % 2 = 0

(* checked_add(1) = Some(b): no carry out of the top byte. *)
IsSuccessor(a, b) ==
    \E k \in DOMAIN a :
        /\ b[k] = a[k] + 1
        /\ \A i \in 1 .. k - 1 : b[i] = a[i]
        /\ \A i \in k + 1 .. Len(a) : a[i] = 255 /\ b[i] = 0

-----------------------------------------------------------------------------
(* Layouts.  An entry is <<name, width>>; <<"is", bytes>> is written and   *)
(* compared; "zero" is reserved, written as zero and checked; "any" is     *)
(* written as zero and not looked at.                                      *)

Width(e) == IF e[1] = "is" THEN Len(e[2]) ELSE e[2]
Start(l, k) == FoldLeft(LAMBDA n, e : n + Width(e), 0, SubSeq(l, 1, k - 1))
Size(l) == Start(l, Len(l) + 1)
Slice(l, k, b) == SubSeq(b, Start(l, k) + 1, Start(l, k + 1))
Named(l) == {k \in DOMAIN l : l[k][1] \notin {"is", "zero", "any"}}
Field(l, f) == CHOOSE k \in Named(l) : l[k][1] = f

BytesOf(e, m) ==
    CASE e[1] = "is" -> e[2] [] e[1] \in {"zero", "any"} -> U(0, e[2]) [] OTHER -> m[e[1]]
Pack(l, m) == FoldLeft(LAMBDA b, e : b \o BytesOf(e, m), <<>>, l)

Unpack(l, b) == [f \in {l[k][1] : k \in Named(l)} |-> Slice(l, Field(l, f), b)]

(* The comparisons a decoder makes before it reads fields: exact length,   *)
(* magic, version and reserved bytes.                                      *)
Fits(l, b) ==
    /\ Len(b) = Size(l)
    /\ \A k \in DOMAIN l :
        /\ l[k][1] = "is" => Slice(l, k, b) = l[k][2]
        /\ l[k][1] = "zero" => Zero(Slice(l, k, b))

Magic(a, b, c, d) == <<"is", <<a, b, c, d>>>>
Version(v) == <<"is", <<v>>>>

-----------------------------------------------------------------------------
(* Media and control packets.                                              *)

MediaHeader ==
    <<Magic(76, 68, 83, 75), Version(2), <<"kind", 1>>, <<"flags", 2>>, <<"stream_id", 4>>,
      <<"codec_epoch", 4>>, <<"frame_id", 8>>, <<"dependency_frame_id", 8>>, <<"frame_len", 4>>,
      <<"fragment_offset", 4>>, <<"fragment_len", 2>>, <<"zero", 2>>>>

MediaKind(m) == Between(m.kind, 1, 4)

MediaHeaderValid(m) ==
    /\ AtMost(m.flags, 15)
    /\ ~Zero(m.frame_len) /\ AtMost(m.frame_len, 16777216)
    /\ ~Zero(m.fragment_len) /\ AtMost(m.fragment_len, 16384)
    /\ Less(m.fragment_offset, m.frame_len)
    /\ Num(m.fragment_offset) + Num(m.fragment_len) <= Num(m.frame_len)
    /\ Bit(m.flags, 0) => AllOnes(m.dependency_frame_id)
    /\ AllOnes(m.dependency_frame_id) \/ Less(m.dependency_frame_id, m.frame_id)

MediaPacket(n) == MediaHeader \o <<<<"payload", n>>>>
MediaPacketValid(m) ==
    MediaKind(m) /\ MediaHeaderValid(m) /\ m.fragment_len = U(Len(m.payload), 2)

ControlHeader ==
    <<Magic(76, 68, 67, 49), Version(2), <<"kind", 1>>, <<"flags", 2>>, <<"session_id", 8>>,
      <<"payload_len", 4>>>>
ControlKind(m) == Between(m.kind, 1, 27)
ControlHeaderValid(m) == Zero(m.flags) /\ AtMost(m.payload_len, 262144)
ControlPacket(n) == ControlHeader \o <<<<"payload", n>>>>
ControlPacketValid(m) ==
    ControlKind(m) /\ ControlHeaderValid(m) /\ m.payload_len = U(Len(m.payload), 4)

RouteTransition ==
    <<<<"version", 1>>, <<"stage", 1>>, <<"zero", 2>>, <<"sequence", 8>>, <<"base_route_epoch", 8>>,
      <<"next_route_epoch", 8>>, <<"expires_at_ns", 8>>, <<"route_digest", 32>>,
      <<"transcript_digest", 32>>>>
RouteTransitionStage(m) == Between(m.stage, 1, 5)
RouteTransitionValid(m) ==
    /\ RouteTransitionStage(m)
    /\ m.version = <<2>>
    /\ ~Zero(m.sequence) /\ ~Zero(m.base_route_epoch) /\ ~Zero(m.expires_at_ns)
    /\ IsSuccessor(m.base_route_epoch, m.next_route_epoch)
    /\ ~Zero(m.route_digest) /\ ~Zero(m.transcript_digest)

RecoveryRequest ==
    <<<<"stream_id", 4>>, <<"codec_epoch", 4>>, <<"last_good_frame_id", 8>>,
      <<"first_missing_frame_id", 8>>>>
RecoveryRequestValid(m) == Less(m.last_good_frame_id, m.first_missing_frame_id)

-----------------------------------------------------------------------------
(* Codec negotiation.                                                      *)

VideoCodecCapabilities ==
    <<<<"contract_version", 2>>, <<"flags", 2>>, <<"max_width", 4>>, <<"max_height", 4>>,
      <<"max_fps", 4>>>>
EvenSize(b) == ~Zero(b) /\ Even(b)
VideoCodecCapabilitiesValid(m) ==
    /\ m.contract_version = U(1, 2)
    /\ ~Zero(m.flags) /\ AtMost(m.flags, 63)
    /\ Bit(m.flags, 5) => Bit(m.flags, 4)
    /\ EvenSize(m.max_width) /\ EvenSize(m.max_height) /\ ~Zero(m.max_fps)

VideoStreamConfig ==
    <<<<"contract_version", 2>>, <<"codec", 1>>, <<"profile", 1>>, <<"pixel_format", 4>>,
      <<"stream_id", 4>>, <<"codec_epoch", 4>>, <<"width", 4>>, <<"height", 4>>, <<"fps", 4>>,
      <<"target_bitrate_bps", 4>>, <<"flags", 4>>>>
VideoCodec(m) == Between(m.codec, 1, 2) /\ m.profile = m.codec
VideoStreamConfigValid(m) ==
    /\ m.contract_version = U(1, 2)
    /\ VideoCodec(m)
    /\ m.pixel_format = <<50, 49, 86, 78>>
    /\ AtMost(m.flags, 15)
    /\ ~(Bit(m.flags, 1) /\ Bit(m.flags, 2))
    /\ Bit(m.flags, 3) => Bit(m.flags, 2)
    /\ ~Zero(m.stream_id) /\ ~Zero(m.codec_epoch)
    /\ EvenSize(m.width) /\ EvenSize(m.height)
    /\ ~Zero(m.fps) /\ ~Zero(m.target_bitrate_bps)

-----------------------------------------------------------------------------
(* Handshake, rate and liveness records of the direct transport.           *)

Hello ==
    <<<<"client_version", 1>>, <<"any", 3>>, <<"client_nonce", 16>>, <<"device_fingerprint", 32>>,
      <<"capabilities_mask", 4>>, <<"proposed_mtu", 2>>, <<"any", 2>>>>
HelloAck ==
    <<<<"server_version", 1>>, <<"any", 3>>, <<"server_nonce", 16>>, <<"session_id", 8>>,
      <<"authorization_epoch", 4>>, <<"negotiated_mtu", 2>>, <<"any", 2>>>>
Authenticate ==
    <<<<"session_id", 8>>, <<"authorization_epoch", 4>>, <<"auth_tag", 32>>, <<"client_nonce", 16>>>>
HandshakeCompleted ==
    <<<<"session_id", 8>>, <<"authorization_epoch", 4>>, <<"server_nonce", 16>>>>
RateUpdate ==
    <<<<"stream_id", 4>>, <<"codec_epoch", 4>>, <<"target_bitrate_bps", 4>>,
      <<"max_bitrate_bps", 4>>, <<"target_fps", 4>>, <<"flags", 2>>, <<"any", 2>>>>
CongestionFeedback ==
    <<<<"feedback_sequence", 8>>, <<"echo_timestamp_ns", 8>>, <<"rtt_ns", 4>>,
      <<"loss_per_million", 4>>, <<"jitter_ns", 4>>, <<"received_bitrate_bps", 4>>>>
PingPong == <<<<"nonce", 8>>, <<"timestamp_ns", 8>>>>

-----------------------------------------------------------------------------
(* Records bound to a session stamp.                                       *)

SessionStamp ==
    <<<<"session_id", 8>>, <<"generation", 8>>, <<"authorization_epoch", 4>>,
      <<"display_epoch", 4>>, <<"stamp_codec_epoch", 4>>, <<"route_epoch", 8>>>>
ValidatePending(m) == ~Zero(m.session_id) /\ ~Zero(m.generation) /\ ~Zero(m.route_epoch)
ValidateInput(m) ==
    ValidatePending(m) /\ ~Zero(m.authorization_epoch) /\ ~Zero(m.display_epoch)
ValidateMedia(m) == ValidateInput(m) /\ ~Zero(m.stamp_codec_epoch)

StreamRecordHeader ==
    <<Magic(76, 68, 81, 83), Version(2), <<"kind", 1>>, <<"zero", 2>>>> \o SessionStamp
        \o <<<<"payload_len", 4>>>>
PayloadLimit(m) == IF m.kind = <<1>> THEN 262144 ELSE 65536
StreamRecordHeaderValid(m) ==
    /\ Between(m.kind, 1, 2)
    /\ ValidatePending(m)
    /\ AtMost(m.payload_len, PayloadLimit(m))
    /\ m.kind = <<2>> => ValidateInput(m)
StreamRecord(n) == StreamRecordHeader \o <<<<"payload", n>>>>
StreamRecordValid(m) == StreamRecordHeaderValid(m) /\ m.payload_len = U(Len(m.payload), 4)

MediaDatagram(n) ==
    <<Magic(76, 68, 81, 77), Version(2), <<"zero", 3>>>> \o SessionStamp
        \o <<<<"expires_at_ns", 8>>>> \o MediaPacket(n)

MediaDatagramValid(m) ==
    /\ ValidateMedia(m)
    /\ MediaPacketValid(m)
    /\ ~Zero(m.stream_id)
    /\ m.codec_epoch = m.stamp_codec_epoch

InputAppliedAck ==
    <<Version(2), <<"status", 1>>, <<"zero", 2>>>> \o SessionStamp
        \o <<<<"input_epoch", 4>>, <<"input_sequence", 8>>, <<"ack_sequence", 8>>,
             <<"applied_action_count", 2>>, <<"zero", 2>>>>
InputAckStatus(m) == Between(m.status, 1, 4)
InputAppliedAckValid(m) ==
    /\ InputAckStatus(m)
    /\ ValidateMedia(m)
    /\ m.input_epoch = m.authorization_epoch
    /\ ~Zero(m.input_sequence) /\ ~Zero(m.ack_sequence)
    /\ m.status = <<1>> \/ Zero(m.applied_action_count)

IceProbe ==
    <<<<"version", 1>>, <<"stage", 1>>, <<"zero", 2>>, <<"ice_generation", 4>>>> \o SessionStamp
        \o <<<<"client_nonce", 16>>, <<"host_nonce", 16>>, <<"challenge", 32>>>>
IceProbeStage(m) == Between(m.stage, 1, 8)
IceProbeValid(m) ==
    /\ IceProbeStage(m)
    /\ m.version = <<2>>
    /\ ~Zero(m.ice_generation) /\ ValidateMedia(m) /\ ~Zero(m.client_nonce)
    /\ Zero(m.host_nonce) <=> m.stage = <<1>>
    /\ Zero(m.challenge) <=> m.stage \notin {<<6>>, <<7>>, <<8>>}

-----------------------------------------------------------------------------
(* Candidates, credentials and the rendezvous registration.  The shape of  *)
(* a candidate is the pair of its address tags.                            *)

AddressBytes(tag) == CASE tag = 4 -> 4 [] tag = 6 -> 16 [] OTHER -> 0
TagOf(address) == CASE Len(address) = 4 -> 4 [] Len(address) = 16 -> 6 [] OTHER -> 0

IceCandidate(shape) ==
    <<<<"foundation", 8>>, <<"component", 1>>, <<"transport", 1>>, <<"candidate_type", 1>>,
      <<"relay_provider", 1>>, <<"priority", 4>>, <<"port", 2>>, <<"is", <<shape[1]>>>>,
      <<"ip", AddressBytes(shape[1])>>, <<"is", <<shape[2]>>>>,
      <<"related", AddressBytes(shape[2])>>, <<"related_port", IF shape[2] = 0 THEN 0 ELSE 2>>>>

(* The shape the tag bytes declare; <<0, 0>>, which no candidate has, when *)
(* the bytes end before them or a tag is unknown.                          *)
CandidateShape(b) ==
    LET ip == IF Len(b) < 19 THEN 0 ELSE b[19]
        at == 20 + AddressBytes(ip)
        related == IF Len(b) < at THEN 1 ELSE b[at]
    IN  IF ip \in {4, 6} /\ related \in {0, 4, 6} THEN <<ip, related>> ELSE <<0, 0>>

IsUsableCandidateAddress(a) ==
    IF Len(a) = 4 THEN ~Zero(a) /\ ~AllOnes(a) /\ a[1] \div 16 # 14
    ELSE ~Zero(a) /\ a[1] # 255

IceCandidateValid(m) ==
    /\ Between(m.transport, 1, 2) /\ Between(m.candidate_type, 1, 4) /\ AtMost(m.relay_provider, 2)
    /\ m.ip # <<>>
    /\ ~Zero(m.component) /\ ~Zero(m.port) /\ IsUsableCandidateAddress(m.ip)
    /\ m.related = <<>> \/ (~Zero(m.related_port) /\ IsUsableCandidateAddress(m.related))
    /\ m.candidate_type = <<4>> <=> ~Zero(m.relay_provider)
    /\ m.candidate_type = <<4>> =>
        /\ m.transport = <<1>>
        /\ m.priority[1] = 0
        /\ m.priority[4] = (256 - m.component[1]) % 256

(* compute_candidate_priority, in the bytes of its u32. *)
CandidatePriority(type, local_preference, component) ==
    <<CASE type = 1 -> 126 [] type = 3 -> 110 [] type = 2 -> 100 [] type = 4 -> 0>>
        \o U(local_preference, 2) \o <<(256 - component) % 256>>

IceCredentials(shape) ==
    <<<<"version", 1>>, <<"exchange_id", 8>>, <<"generation", 4>>, <<"role", 1>>,
      <<"is", U(shape[1], 2)>>, <<"is", U(shape[2], 2)>>, <<"ufrag", shape[1]>>,
      <<"password", shape[2]>>>>
CredentialShape(b) ==
    IF Len(b) < 18 THEN <<0, 0>> ELSE <<Num(SubSeq(b, 15, 16)), Num(SubSeq(b, 17, 18))>>
IceCharset(b) ==
    \A i \in DOMAIN b : b[i] \in (48 .. 57) \cup (65 .. 90) \cup (97 .. 122) \cup {43, 47}
IceCredentialsValid(m) ==
    /\ m.version = <<1>> /\ ~Zero(m.exchange_id) /\ ~Zero(m.generation)
    /\ Between(m.role, 1, 2)
    /\ Len(m.ufrag) \in 4 .. 64 /\ IceCharset(m.ufrag)
    /\ Len(m.password) \in 22 .. 128 /\ IceCharset(m.password)

RelayHeader ==
    <<Magic(76, 68, 82, 76), <<"version", 1>>, <<"provider", 1>>, <<"flags", 2>>,
      <<"relay_session_id", 8>>, <<"source_peer_id", 16>>, <<"target_peer_id", 16>>,
      <<"payload_len", 4>>>>
RelayHeaderValid(m) ==
    /\ m.version = <<2>>
    /\ Between(m.provider, 1, 2)
    /\ AtMost(m.flags, 15)
    /\ ~Zero(m.relay_session_id) /\ ~Zero(m.source_peer_id) /\ ~Zero(m.target_peer_id)
    /\ m.source_peer_id # m.target_peer_id
    /\ AtMost(m.payload_len, 65536)
RelayPacket(n) == RelayHeader \o <<<<"payload", n>>>>
RelayPacketValid(m) == RelayHeaderValid(m) /\ m.payload_len = U(Len(m.payload), 4)

(* Text is abstracted to bytes below 128: every such string is UTF-8, and  *)
(* a byte of 128 or more stands for a string that is not.                  *)
Utf8(b) == \A i \in DOMAIN b : b[i] < 128
DisconnectReason(m) == Between(m.reason, 1, 10)
Disconnect(n) ==
    <<<<"reason", 1>>, <<"session_id", 8>>, <<"authorization_epoch", 4>>, <<"is", U(n, 2)>>,
      <<"payload", n>>>>

UnattendedToken ==
    <<<<"token_id", 16>>, <<"device_fingerprint", 32>>, <<"allowed_capabilities", 1>>,
      <<"issued_at_ns", 8>>, <<"expires_at_ns", 8>>, <<"signature", 32>>>>
UnattendedTokenValid(m) == Less(m.issued_at_ns, m.expires_at_ns)

-----------------------------------------------------------------------------
(* Input records: the shape is the event kind.                             *)

Event(k) ==
    CASE k = 1 -> <<<<"code", 2>>, <<"pressed", 1>>>>
      [] k = 2 -> <<<<"button", 1>>, <<"pressed", 1>>>>
      [] k = 3 -> <<<<"dx", 4>>, <<"dy", 4>>>>
      [] k = 4 -> <<<<"x", 4>>, <<"y", 4>>, <<"width", 4>>, <<"height", 4>>>>
      [] k = 5 -> <<<<"horizontal", 2>>, <<"vertical", 2>>>>
      [] k = 6 -> <<<<"key_words", 64>>, <<"buttons", 2>>>>
      [] OTHER -> <<>>
InputRecord(k) ==
    <<Magic(76, 68, 73, 78), Version(1), <<"kind", 1>>, <<"is", U(Size(Event(k)), 2)>>,
      <<"session_epoch", 4>>, <<"sequence", 8>>, <<"flags", 4>>>> \o Event(k)
EventValid(m) ==
    /\ Between(m.kind, 1, 7)
    /\ m.kind = <<1>> => AtMost(m.code, 511) /\ AtMost(m.pressed, 1)
    /\ m.kind = <<2>> => AtMost(m.button, 15) /\ AtMost(m.pressed, 1)
    /\ m.kind = <<4>> => Less(m.x, m.width) /\ Less(m.y, m.height)
InputValid(m) == AtMost(m.flags, 1) /\ EventValid(m)

-----------------------------------------------------------------------------
(* The two composite records.  A nested record is carried as its bytes and *)
(* is decoded by the record that holds it.                                 *)

CandidateExchange(n) ==
    <<<<"version", 1>>, <<"exchange_id", 8>>, <<"generation", 4>>, <<"count", 1>>,
      <<"payload", n>>>>

RendezvousRegistration(shape) ==
    <<<<"version", 1>>, <<"role", 1>>, <<"zero", 2>>, <<"generation", 4>>, <<"ttl_seconds", 2>>,
      <<"zero", 2>>, <<"match_id", 16>>, <<"expected_peer_fingerprint", 32>>,
      <<"is", U(shape[1], 4)>>, <<"is", U(shape[2], 4)>>, <<"credentials", shape[1]>>,
      <<"candidates", shape[2]>>>>

(* read_u32 of the two lengths; lengths that cannot fit are 0 here, and the *)
(* comparison with the record then fails as it does in the code.           *)
RegistrationShape(b) ==
    LET Part(k) == IF AtMost(SubSeq(b, k, k + 3), 4096) THEN Num(SubSeq(b, k, k + 3)) ELSE 0
    IN  IF Len(b) < 68 THEN <<0, 0>> ELSE <<Part(61), Part(65)>>

Payloads == {"media", "control", "stream", "datagram", "relay", "disconnect", "exchange"}

Layout(kind, shape) ==
    CASE kind = "media" -> MediaPacket(shape)
      [] kind = "control" -> ControlPacket(shape)
      [] kind = "stream" -> StreamRecord(shape)
      [] kind = "datagram" -> MediaDatagram(shape)
      [] kind = "relay" -> RelayPacket(shape)
      [] kind = "disconnect" -> Disconnect(shape)
      [] kind = "exchange" -> CandidateExchange(shape)
      [] kind = "candidate" -> IceCandidate(shape)
      [] kind = "credentials" -> IceCredentials(shape)
      [] kind = "registration" -> RendezvousRegistration(shape)
      [] kind = "input" -> InputRecord(shape)
      [] kind = "route" -> RouteTransition
      [] kind = "recovery" -> RecoveryRequest
      [] kind = "capabilities" -> VideoCodecCapabilities
      [] kind = "config" -> VideoStreamConfig
      [] kind = "hello" -> Hello
      [] kind = "hello_ack" -> HelloAck
      [] kind = "authenticate" -> Authenticate
      [] kind = "completed" -> HandshakeCompleted
      [] kind = "input_ack" -> InputAppliedAck
      [] kind = "rate" -> RateUpdate
      [] kind = "feedback" -> CongestionFeedback
      [] kind = "ping" -> PingPong
      [] kind = "probe" -> IceProbe
      [] kind = "token" -> UnattendedToken

(* What the bytes, and what the message, say of the shape of the record. *)
ShapeOfBytes(kind, b) ==
    CASE kind \in Payloads ->
            LET header == Size(Layout(kind, 0)) IN IF Len(b) < header THEN 0 ELSE Len(b) - header
      [] kind = "candidate" -> CandidateShape(b)
      [] kind = "credentials" -> CredentialShape(b)
      [] kind = "registration" -> RegistrationShape(b)
      [] kind = "input" -> IF Len(b) < 6 THEN 0 ELSE b[6]
      [] OTHER -> 0

ShapeOf(kind, m) ==
    CASE kind \in Payloads -> Len(m.payload)
      [] kind = "candidate" -> <<TagOf(m.ip), TagOf(m.related)>>
      [] kind = "credentials" -> <<Len(m.ufrag), Len(m.password)>>
      [] kind = "registration" -> <<Len(m.credentials), Len(m.candidates)>>
      [] kind = "input" -> m.kind[1]
      [] OTHER -> 0

Parse(kind, b) ==
    {Unpack(l, b) : l \in {x \in {Layout(kind, ShapeOfBytes(kind, b))} : Fits(x, b)}}

(* A candidate exchange is its header and count length-prefixed candidates *)
(* that fill it exactly: Cuts[k] is the cursor after k of them.            *)
Cuts(b, n) ==
    LET at[k \in 0 .. n] ==
            IF k = 0 THEN 0
            ELSE IF at[k - 1] + 2 > Len(b) THEN Len(b) + 1
            ELSE at[k - 1] + 2 + Num(SubSeq(b, at[k - 1] + 1, at[k - 1] + 2))
    IN  at

(* The candidates read, as a set: none when one of them is malformed.      *)
Candidates(b, n) ==
    {[k \in 1 .. n |-> CHOOSE c \in read[k] : TRUE] :
        read \in {r \in {[k \in 1 .. n |-> Parse("candidate", SubSeq(b, at[k - 1] + 3, at[k]))] :
                         at \in {x \in {Cuts(b, n)} : x[n] = Len(b)}} :
                    \A k \in 1 .. n : r[k] # {}}}

SameFamily(c, d) == Len(c.ip) = Len(d.ip) /\ (c.related = <<>> \/ Len(c.related) = Len(d.ip))
SameEndpoint(c, d) ==
    c.component = d.component /\ c.transport = d.transport /\ c.ip = d.ip /\ c.port = d.port

CandidateExchangeValid(m) ==
    /\ m.version = <<1>> /\ ~Zero(m.exchange_id) /\ ~Zero(m.generation)
    /\ Between(m.count, 1, 8)
    /\ \E c \in Candidates(m.payload, m.count[1]) :
        \A k \in DOMAIN c :
            /\ IceCandidateValid(c[k])
            /\ c[k].transport = <<1>>
            /\ c[k].candidate_type # <<3>>
            /\ c[k].candidate_type = <<4>> => c[k].relay_provider = <<1>>
            /\ SameFamily(c[k], c[1])
            /\ \A j \in 1 .. k - 1 : ~SameEndpoint(c[j], c[k])

RendezvousRegistrationValid(m) ==
    /\ 68 + Len(m.credentials) + Len(m.candidates) <= 4096
    /\ m.version = <<1>> /\ Between(m.role, 1, 2)
    /\ ~Zero(m.generation) /\ Between(m.ttl_seconds, 5, 120)
    /\ ~Zero(m.match_id) /\ ~Zero(m.expected_peer_fingerprint)
    /\ \E c \in Parse("credentials", m.credentials), e \in Parse("exchange", m.candidates) :
        /\ IceCredentialsValid(c) /\ CandidateExchangeValid(e)
        /\ c.generation = m.generation /\ e.generation = m.generation
        /\ c.exchange_id = e.exchange_id
        /\ c.role = m.role

(* What a decoder checks of the fields it has read. *)
Valid(kind, m) ==
    CASE kind = "media" -> MediaPacketValid(m)
      [] kind = "control" -> ControlPacketValid(m)
      [] kind = "stream" -> StreamRecordValid(m)
      [] kind = "datagram" -> MediaDatagramValid(m)
      [] kind = "relay" -> RelayPacketValid(m)
      [] kind = "disconnect" -> DisconnectReason(m) /\ Utf8(m.payload)
      [] kind = "exchange" -> CandidateExchangeValid(m)
      [] kind = "candidate" -> IceCandidateValid(m)
      [] kind = "credentials" -> IceCredentialsValid(m)
      [] kind = "registration" -> RendezvousRegistrationValid(m)
      [] kind = "input" -> InputValid(m)
      [] kind = "route" -> RouteTransitionValid(m)
      [] kind = "recovery" -> RecoveryRequestValid(m)
      [] kind = "capabilities" -> VideoCodecCapabilitiesValid(m)
      [] kind = "config" -> VideoStreamConfigValid(m)
      [] kind = "hello" -> m.client_version = <<2>>
      [] kind = "hello_ack" -> m.server_version = <<2>>
      [] kind = "input_ack" -> InputAppliedAckValid(m)
      [] kind = "probe" -> IceProbeValid(m)
      [] kind = "token" -> UnattendedTokenValid(m)
      [] OTHER -> TRUE

(* What an encoder checks: the same, except that these four check nothing  *)
(* and a disconnect message is limited to 256 bytes on this side only.     *)
Unchecked == {"hello", "hello_ack", "recovery", "token"}
Encodable(kind, m) ==
    IF kind \in Unchecked THEN TRUE
    ELSE Valid(kind, m) /\ (kind = "disconnect" => Len(m.payload) <= 256)

Encoded(kind, m) == Pack(Layout(kind, ShapeOf(kind, m)), m)

\* Faulty: bytes after the declared end of a record are ignored.
DecodeLoose(kind, b) ==
    LET l == Layout(kind, ShapeOfBytes(kind, b))
        c == IF Len(b) > Size(l) THEN SubSeq(b, 1, Size(l)) ELSE b
    IN  {m \in Parse(kind, c) : Valid(kind, m)}

Decode(kind, b) == {m \in Parse(kind, b) : Valid(kind, m)}

-----------------------------------------------------------------------------
(* The messages tried: for every kind of record one that the endpoints     *)
(* build, and each of those with one field filled with an edge value.      *)

Ones(l) == [f \in {l[k][1] : k \in Named(l)} |-> U(1, l[Field(l, f)][2])]

SomeMessage(kind) ==
    LET with(shape, fields) == fields @@ Ones(Layout(kind, shape))
    IN  CASE kind = "media" ->
               with(1, [dependency_frame_id |-> [i \in 1 .. 8 |-> 255], fragment_offset |-> U(0, 4)])
          [] kind = "datagram" ->
               with(2, [flags |-> U(0, 2), frame_id |-> U(2, 8), fragment_offset |-> U(256, 4),
                        fragment_len |-> U(2, 2), frame_len |-> U(258, 4)])
          [] kind = "control" -> with(1, [flags |-> U(0, 2)])
          [] kind = "stream" -> Ones(Layout(kind, 1))
          [] kind = "relay" -> with(1, [version |-> <<2>>, target_peer_id |-> U(2, 16)])
          [] kind = "disconnect" -> Ones(Layout(kind, 2))
          [] kind = "candidate" -> with(<<4, 4>>, [relay_provider |-> <<0>>])
          [] kind = "credentials" ->
               with(<<4, 22>>, [ufrag |-> [i \in 1 .. 4 |-> 65], password |-> [i \in 1 .. 22 |-> 97]])
          [] kind = "route" ->
               with(0, [version |-> <<2>>, base_route_epoch |-> U(255, 8), next_route_epoch |-> U(256, 8)])
          [] kind = "recovery" -> with(0, [first_missing_frame_id |-> U(2, 8)])
          [] kind = "capabilities" -> with(0, [max_width |-> U(2, 4), max_height |-> U(2, 4)])
          [] kind = "config" ->
               with(0, [pixel_format |-> <<50, 49, 86, 78>>, width |-> U(2, 4), height |-> U(2, 4)])
          [] kind = "hello" -> with(0, [client_version |-> <<2>>])
          [] kind = "hello_ack" -> with(0, [server_version |-> <<2>>])
          [] kind = "probe" -> with(0, [version |-> <<2>>, host_nonce |-> U(0, 16), challenge |-> U(0, 32)])
          [] kind = "token" -> with(0, [expires_at_ns |-> U(2, 8)])
          [] OTHER -> Ones(Layout(kind, 0))

Prefixed(b) == U(Len(b), 2) \o b

CandidatePair(c) ==
    LET carried(port) == Prefixed(Pack(IceCandidate(<<4, 4>>), [c EXCEPT !.port = U(port, 2)]))
    IN  carried(1) \o carried(2)

SomeExchange(b) == [count |-> <<2>>, payload |-> b] @@ Ones(CandidateExchange(Len(b)))

SomeRegistration(c, e) ==
    [ttl_seconds |-> U(5, 2), credentials |-> c, candidates |-> e]
      @@ Ones(RendezvousRegistration(<<Len(c), Len(e)>>))

SomeInput(k) ==
    (IF k = 4 THEN [width |-> U(2, 4), height |-> U(2, 4)] ELSE <<>>)
      @@ [flags |-> U(0, 4), kind |-> <<k>>] @@ Ones(Layout("input", k))

Relayed ==
    [candidate_type |-> <<4>>, relay_provider |-> <<1>>, priority |-> CandidatePriority(4, 65535, 1)]
      @@ Ones(Layout("candidate", <<6, 0>>))

PlainKinds ==
    {"media", "datagram", "control", "stream", "relay", "disconnect", "candidate", "credentials",
     "route", "recovery", "capabilities", "config", "hello", "hello_ack", "authenticate",
     "completed", "input_ack", "rate", "feedback", "ping", "probe", "token"}

Exchanges == {SomeExchange(b) : b \in {CandidatePair(c) : c \in {SomeMessage("candidate")}}}

Registrations ==
    {SomeRegistration(c, e) : c \in {Encoded("credentials", m) : m \in {SomeMessage("credentials")}},
                              e \in {Encoded("exchange", m) : m \in Exchanges}}

BuiltMessages ==
    {<<"input", SomeInput(k)>> : k \in 1 .. 7}
      \union {<<kind, SomeMessage(kind)>> : kind \in PlainKinds}
      \union {<<"candidate", Relayed>>}
      \union {<<"exchange", m>> : m \in Exchanges}
      \union {<<"registration", m>> : m \in Registrations}

(* A message, the same with one field filled with an edge value, and a     *)
(* disconnect message longer than its encoder allows.                      *)
Variants(kind, m) ==
    {m} \union {[m EXCEPT ![f] = [i \in DOMAIN @ |-> x]] : f \in DOMAIN m, x \in {0, 1, 255}}
      \union (IF kind = "disconnect" THEN {[m EXCEPT !.payload = [i \in 1 .. 257 |-> 65]]} ELSE {})

WellShaped(kind, m) ==
    \E l \in {Layout(kind, ShapeOf(kind, m))} : DOMAIN m = {l[k][1] : k \in Named(l)}

Records ==
    UNION {{[kind |-> b[1], message |-> m, built |-> m = b[2]] :
              m \in {v \in Variants(b[1], b[2]) : WellShaped(b[1], v)}} : b \in BuiltMessages}

-----------------------------------------------------------------------------
Init ==
    /\ phase \in {"message", "window"}
    /\ IF phase = "message"
       THEN record \in Records
       ELSE record = [kind |-> "none"]
    /\ bytes = <<>> /\ decoded = {} /\ damage = "none"
    /\ filter = [max |-> 0, seen |-> {}]
    /\ epoch = 1
    /\ accepted = [s \in 0 .. MaxSequence |-> 0]

(* The sender encodes, or its encoder refuses. *)
Encode ==
    /\ phase = "message"
    /\ IF Encodable(record.kind, record.message)
       THEN phase' = "sent" /\ bytes' = Encoded(record.kind, record.message)
       ELSE phase' = "refused" /\ bytes' = <<>>
    /\ UNCHANGED <<record, decoded, damage, window>>

(* The bytes that arrive differ from those sent in one byte or in length. *)
Damage ==
    /\ phase = "sent" /\ damage = "none" /\ record.built
    /\ \/ /\ \E i \in DOMAIN bytes, x \in Noise :
                x # bytes[i] /\ bytes' = [bytes EXCEPT ![i] = x]
          /\ damage' = "byte"
       \/ /\ bytes' = SubSeq(bytes, 1, Len(bytes) - 1)
          /\ damage' = "short"
       \/ /\ \E x \in Noise : bytes' = Append(bytes, x)
          /\ damage' = "long"
    /\ UNCHANGED <<phase, record, decoded, window>>

Receive ==
    /\ phase = "sent"
    /\ decoded' = Decode(record.kind, bytes)
    /\ phase' = "received"
    /\ UNCHANGED <<record, bytes, damage, window>>

-----------------------------------------------------------------------------
(* AntiReplayFilter: bit d of the bitmap stands for max_sequence - d.      *)

Check(f, s) == s > f.max \/ (s > 0 /\ f.max - s < WindowSize /\ f.max - s \notin f.seen)

Update(f, s) ==
    IF s > f.max
    THEN LET shift == s - f.max
         IN  [max |-> s,
              seen |-> IF shift >= WindowSize THEN {0}
                       ELSE {d + shift : d \in {d \in f.seen : d + shift < WindowSize}} \cup {0}]
    ELSE [f EXCEPT !.seen = IF f.max - s < WindowSize THEN @ \cup {f.max - s} ELSE @]

CheckAndUpdate(s) ==
    /\ phase = "window"
    /\ Check(filter, s) /\ accepted[s] < 2
    /\ filter' = Update(filter, s)
    /\ accepted' = [accepted EXCEPT ![s] = @ + 1]
    /\ UNCHANGED <<phase, codec, epoch>>

EpochAction(e) == IF e = epoch THEN "current" ELSE IF e > epoch THEN "advanced" ELSE "stale"

AdvanceEpoch(e) ==
    /\ phase = "window" /\ e > epoch
    /\ epoch' = e
    /\ UNCHANGED <<phase, codec, filter, accepted>>

Next ==
    \/ Encode
    \/ Damage
    \/ Receive
    \/ \E s \in 0 .. MaxSequence : CheckAndUpdate(s)
    \/ \E e \in 1 .. MaxEpoch : AdvanceEpoch(e)

Spec == Init /\ [][Next]_vars

-----------------------------------------------------------------------------
(* What the formats promise.                                               *)

(* A message that the encoder accepts and the link leaves alone is what    *)
(* the receiver reads.  Four encoders check nothing: there the receiver    *)
(* reads the message, or refuses one that its own check rejects.  No       *)
(* encoder refuses a record the endpoints build.                           *)
RoundTrips ==
    /\ phase = "received" /\ damage = "none" =>
        decoded = IF record.kind \in Unchecked /\ ~Valid(record.kind, record.message)
                  THEN {} ELSE {record.message}
    /\ phase = "refused" => ~record.built

(* Three records have bytes their decoder does not look at, and a long     *)
(* disconnect message is read that could not have been written.            *)
Lenient == {"hello", "hello_ack", "rate"}

(* Whatever was done to the bytes, a message that is read is one whose     *)
(* encoding is exactly those bytes: nothing is ignored, nothing is read    *)
(* that the encoder would have refused, no two records mean the same.      *)
Canonical ==
    \A m \in decoded :
        record.kind \notin Lenient =>
            /\ Encoded(record.kind, m) = bytes
            /\ Encodable(record.kind, m) \/ (record.kind = "disconnect" /\ Len(m.payload) > 256)

(* "rejects trailing bytes so datagram boundaries remain unambiguous": a   *)
(* record cut short or followed by another byte is never read.             *)
BoundariesKept == damage \in {"short", "long"} => decoded = {}

(* The three together.  A payload byte that was changed gives another      *)
(* record, which is read as such: detecting that is left to the            *)
(* authenticated transport below.                                          *)
WireSound == RoundTrips /\ Canonical /\ BoundariesKept

(* The fragments a decoder hands on lie within their frame, and belong to  *)
(* the codec epoch of the session stamp they arrived under.                *)
FragmentsBound ==
    \A m \in decoded :
        record.kind \in {"media", "datagram"} =>
            /\ Num(m.fragment_offset) + Len(m.payload) <= Num(m.frame_len)
            /\ record.kind = "datagram" => m.codec_epoch = m.stamp_codec_epoch

(* AntiReplayFilter accepts no sequence number twice, however the window   *)
(* moved in between, and its bitmap never outgrows the window.             *)
NeverTwice ==
    /\ \A s \in DOMAIN accepted : accepted[s] <= 1
    /\ \A d \in filter.seen : d < WindowSize /\ d < filter.max
    /\ \A s \in DOMAIN accepted :
        filter.max - WindowSize < s /\ s <= filter.max =>
            (accepted[s] = 1 <=> filter.max - s \in filter.seen)

WireInv == WireSound /\ FragmentsBound /\ NeverTwice
=============================================================================
