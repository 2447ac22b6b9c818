------------------------------ MODULE StunWire ------------------------------
(***************************************************************************)
(* The STUN and TURN messages, and the discovery of a reflexive address    *)
(* that uses them on the socket the session will own.                      *)
(*                                                                         *)
(* A datagram is its header (the type as the number on the wire, whether   *)
(* the magic cookie is right, the declared length, the transaction) and    *)
(* its attributes, each with a kind, a length in bytes and a value.  The   *)
(* CRC of a fingerprint and the HMAC of an integrity attribute are ideal:  *)
(* the value names what it covers.  The codec side encodes a message, lets *)
(* the network damage the datagram and decodes it; the discovery side runs *)
(* one transaction against whatever the socket receives.                   *)
(***************************************************************************)
EXTENDS Integers, Sequences, SequencesExt, FiniteSets

CONSTANTS Keys,           \* long-term keys
          MaxDamage,      \* damages to one datagram
          MaxDatagram,    \* MAX_DATAGRAM_BYTES
          MaxRequests,    \* the request bound of the discovery policy
          MaxIgnored,     \* MAX_IGNORED_DATAGRAMS
          MaxDrained      \* MAX_DRAINED_DATAGRAMS

VARIABLES phase,      \* "build", "sent", "decoded", or the discovery's progress
          message,    \* the message that was encoded
          key,        \* the key it was signed with, "none" when unsigned
          datagram,   \* what travels
          damage,     \* how often it was damaged
          decoded,    \* {} or the decoded message
          verified,   \* {} or the message verify_integrity returned
          disc        \* the discovery transaction and its socket

vars == <<phase, message, key, datagram, damage, decoded, verified, disc>>

-----------------------------------------------------------------------------
(* Message types. *)

Methods == [Allocate |-> 3, Refresh |-> 4, Send |-> 6, Data |-> 7,
            CreatePermission |-> 8, ChannelBind |-> 9, Binding |-> 1]
Classes == [Request |-> 0, Indication |-> 1, Success |-> 2, Error |-> 3]

\* encode_type: the class bits are interleaved with those of the method.
EncodeType(class, method) ==
    ((method \div 128) % 32) * 512 + ((method \div 16) % 8) * 32 + (method % 16)
      + (class % 2) * 16 + (class \div 2) * 256

DecodeMethod(v) == ((v \div 512) % 32) * 128 + ((v \div 32) % 8) * 16 + (v % 16)
DecodeClass(v) == ((v \div 16) % 2) + 2 * ((v \div 256) % 2)

\* validate_header: requests and their responses, or indications.
HeaderValid(class, method, id) ==
    /\ id # 0
    /\ method \in IF class = Classes.Indication
                    THEN {Methods.Send, Methods.Data}
                    ELSE {Methods.Allocate, Methods.Refresh, Methods.CreatePermission,
                          Methods.ChannelBind}

-----------------------------------------------------------------------------
(* Attributes. *)

NoAddress == [family |-> 0, host |-> 0, port |-> 0, usable |-> FALSE, mask |-> 0]

\* An attribute with a number (a text is a number too), and one with a checksum;
\* an address goes into addr.
Plain(kind, size, n) == [kind |-> kind, size |-> size, n |-> n, addr |-> NoAddress, mac |-> <<>>]
Checksum(kind, size, mac) == [Plain(kind, size, 0) EXCEPT !.mac = mac]

Padded(n) == 4 * ((n + 3) \div 4)
AttributeBytes(a) == 4 + Padded(a.size)
BodyBytes(attrs) == FoldLeft(LAMBDA n, a : n + AttributeBytes(a), 0, attrs)

Addresses == {"PEER", "RELAYED", "MAPPED"}
Texts == [USERNAME |-> 512, REALM |-> 127, NONCE |-> 763]
Known == DOMAIN Texts \union Addresses
           \union {"INTEGRITY", "TRANSPORT", "LIFETIME", "CHANNEL", "DATA", "ERROR"}

\* encode_xor_address: a version 6 address is masked with the transaction.
XorMask(addr, id) == [addr EXCEPT !.mask = IF addr.family = 6 THEN id ELSE 0]

\* Under another transaction a masked address reads as a different one.
Unmasked(addr, id) ==
    IF addr.mask \in {0, id} THEN [addr EXCEPT !.mask = 0] ELSE [addr EXCEPT !.mask = -1]

\* CHANNEL_MIN ..= CHANNEL_MAX
ChannelNumbers == 16384..20479

\* encode_attribute: the bounds of each kind.
AttributeFits(a) ==
    CASE a.kind \in DOMAIN Texts -> a.size \in 1..Texts[a.kind]
      [] a.kind = "CHANNEL"      -> a.n \in ChannelNumbers
      [] a.kind = "ERROR"        -> a.n \in 300..699
      [] a.kind = "DATA"         -> a.size <= MaxDatagram - 24
      [] OTHER                   -> TRUE

EncodeAttribute(a, id) ==
    IF a.kind \in Addresses THEN [a EXCEPT !.addr = XorMask(@, id)] ELSE a

\* decode_attribute: {} refuses, an optional attribute that is not known is skipped.
AttributeAccepted(a) ==
    CASE a.kind \in DOMAIN Texts                 -> a.size \in 1..Texts[a.kind]
      [] a.kind = "INTEGRITY"                    -> a.size = 32
      [] a.kind \in {"TRANSPORT", "LIFETIME"}    -> a.size = 4
      [] a.kind \in Addresses                    -> /\ a.addr.port # 0
                                                    /\ a.size = IF a.addr.family = 6 THEN 20 ELSE 8
      [] a.kind = "CHANNEL"                      -> a.size = 4 /\ a.n \in ChannelNumbers
      [] a.kind = "DATA"                         -> TRUE
      [] a.kind = "ERROR"                        -> a.size >= 4 /\ a.n \in 300..699
      [] OTHER                                   -> a.kind \in {"OPTIONAL", "FINGERPRINT"}

DecodeAttribute(a, id) ==
    IF a.kind \in Addresses THEN [a EXCEPT !.addr = Unmasked(@, id)] ELSE a

Kinds(attrs) == [i \in DOMAIN attrs |-> attrs[i].kind]

\* One attribute of a kind, except the peers of a CreatePermission request.
RepeatsAllowed(class, method, kind) ==
    kind = "PEER" /\ method = Methods.CreatePermission /\ class = Classes.Request

NoDuplicates(class, method, attrs) ==
    \A i, j \in DOMAIN attrs :
        i < j /\ attrs[i].kind = attrs[j].kind => RepeatsAllowed(class, method, attrs[i].kind)

IntegrityLast(attrs) ==
    \A i \in DOMAIN attrs : attrs[i].kind = "INTEGRITY" => i = Len(attrs)

-----------------------------------------------------------------------------
(* TURN messages: encode, encode_with_integrity, decode, verify_integrity. *)

Hmac(k, d, attrs) == <<"hmac", k, d.type, d.declared, d.id, attrs>>

\* encode: {} when the message is refused.
Encode(m) ==
    LET attrs == [i \in DOMAIN m.attrs |-> EncodeAttribute(m.attrs[i], m.id)]
        body == BodyBytes(attrs)
    IN IF /\ HeaderValid(m.class, m.method, m.id)
          /\ \A i \in DOMAIN m.attrs : AttributeFits(m.attrs[i])
          /\ NoDuplicates(m.class, m.method, m.attrs)
          /\ IntegrityLast(m.attrs)
          /\ 20 + body <= MaxDatagram
         THEN {[type |-> EncodeType(m.class, m.method), cookie |-> TRUE, declared |-> body,
                id |-> m.id, attrs |-> attrs]}
         ELSE {}

\* encode_with_integrity: the header length already covers the attribute.
EncodeWithIntegrity(m, k) ==
    {[d EXCEPT !.declared = @ + 36,
               !.attrs = Append(@, Checksum("INTEGRITY", 32, Hmac(k, [d EXCEPT !.declared = @ + 36], d.attrs)))] :
       d \in {e \in Encode(m) : "INTEGRITY" \notin Range(Kinds(m.attrs))
                                 /\ 20 + e.declared + 36 <= MaxDatagram}}

\* decode_header, with the framing read_raw_attribute relies on.
HeaderAccepted(d) ==
    /\ d.type < 16384 /\ d.cookie /\ d.declared % 4 = 0 /\ d.declared = BodyBytes(d.attrs)
    /\ 20 + d.declared <= MaxDatagram
    /\ HeaderValid(DecodeClass(d.type), DecodeMethod(d.type), d.id)

\* decode: an integrity attribute ends the message, optional ones are dropped.
Decode(d) ==
    LET class == DecodeClass(d.type)
        method == DecodeMethod(d.type)
    IN IF /\ HeaderAccepted(d)
          /\ IntegrityLast(d.attrs)
          /\ NoDuplicates(class, method, d.attrs)
          /\ \A i \in DOMAIN d.attrs : AttributeAccepted(d.attrs[i])
         THEN {[class |-> class, method |-> method, id |-> d.id,
                attrs |-> [i \in DOMAIN SelectSeq(d.attrs, LAMBDA a : a.kind \in Known) |->
                             DecodeAttribute(SelectSeq(d.attrs, LAMBDA a : a.kind \in Known)[i], d.id)]]}
         ELSE {}

\* Faulty: the integrity may cover a prefix that is followed by more attributes.
CoversPrefix(d, k) ==
    \E i \in DOMAIN d.attrs :
        /\ d.attrs[i].kind = "INTEGRITY" /\ d.attrs[i].size = 32
        /\ d.attrs[i].mac[2] = k
        /\ SubSeq(d.attrs, 1, i - 1) = d.attrs[i].mac[6]

\* The integrity attribute is the only one, the last one, and covers the rest.
CoversAll(d, k) ==
    LET n == Len(d.attrs) IN
    /\ n > 0
    /\ \A i \in 1..n : (d.attrs[i].kind = "INTEGRITY") <=> (i = n)
    /\ d.attrs[n].size = 32
    /\ d.attrs[n].mac = Hmac(k, d, SubSeq(d.attrs, 1, n - 1))

VerifyIntegrity(d, k) == IF HeaderAccepted(d) /\ CoversAll(d, k) THEN Decode(d) ELSE {}

-----------------------------------------------------------------------------
(* STUN Binding: protocol/stun.rs. *)

Crc(d, attrs) == <<"crc", d.type, d.declared, d.id, attrs>>

\* append_fingerprint, with the length that covers it.
WithFingerprint(d) ==
    LET e == [d EXCEPT !.declared = @ + 8] IN
    [e EXCEPT !.attrs = Append(@, Checksum("FINGERPRINT", 4, Crc(e, d.attrs)))]

EncodeBindingRequest(id) ==
    WithFingerprint([type |-> EncodeType(Classes.Request, Methods.Binding), cookie |-> TRUE,
                     declared |-> 0, id |-> id, attrs |-> <<>>])

EncodeBindingSuccess(id, addr) ==
    LET mapped == [Plain("MAPPED", IF addr.family = 6 THEN 20 ELSE 8, 0) EXCEPT !.addr = XorMask(addr, id)]
    IN WithFingerprint([type |-> EncodeType(Classes.Success, Methods.Binding), cookie |-> TRUE,
                        declared |-> AttributeBytes(mapped), id |-> id, attrs |-> <<mapped>>])

\* decode_header and the bounds of parse_attributes.
BindingHeader(d, class) ==
    /\ d.type = EncodeType(class, Methods.Binding)
    /\ d.cookie /\ d.declared % 4 = 0 /\ d.declared = BodyBytes(d.attrs)

\* validate_one_fingerprint: one at most, the last, over everything before it.
FingerprintValid(d) ==
    \A i \in DOMAIN d.attrs : d.attrs[i].kind = "FINGERPRINT" =>
        /\ i = Len(d.attrs) /\ d.attrs[i].size = 4
        /\ d.attrs[i].mac = Crc(d, SubSeq(d.attrs, 1, i - 1))

HasFingerprint(d) == "FINGERPRINT" \in Range(Kinds(d.attrs))

\* validate_message_fingerprint: the framing and the fingerprint of any message.
MessageFingerprintValid(d) ==
    /\ d.cookie /\ d.declared % 4 = 0 /\ d.declared = BodyBytes(d.attrs)
    /\ FingerprintValid(d) /\ HasFingerprint(d)

DecodeBindingRequest(d, strict) ==
    IF /\ BindingHeader(d, Classes.Request)
       /\ Range(Kinds(d.attrs)) \subseteq {"FINGERPRINT", "OPTIONAL"}
       /\ FingerprintValid(d)
       /\ strict => HasFingerprint(d)
      THEN {d.id} ELSE {}

\* decode_binding_success: the mapped address, {} when refused.
DecodeBindingSuccess(d, id, strict) ==
    LET mapped == {i \in DOMAIN d.attrs : d.attrs[i].kind = "MAPPED"} IN
    IF /\ BindingHeader(d, Classes.Success) /\ d.id = id
       /\ Range(Kinds(d.attrs)) \subseteq {"FINGERPRINT", "OPTIONAL", "MAPPED"}
       /\ FingerprintValid(d)
       /\ strict => HasFingerprint(d)
       /\ Cardinality(mapped) = 1
       /\ \A i \in mapped : d.attrs[i].size = IF d.attrs[i].addr.family = 6 THEN 20 ELSE 8
      THEN {Unmasked(d.attrs[i].addr, d.id) : i \in mapped}
      ELSE {}

-----------------------------------------------------------------------------
(* The messages and responses that are built: each method in the classes it is  *)
(* used in, and responses of another transaction, family, port and source.      *)

Mapped(family, port, usable) ==
    [family |-> family, port |-> port, usable |-> usable, mask |-> 0, host |-> 7]
AddressIn(kind, a) == [Plain(kind, IF a.family = 6 THEN 20 ELSE 8, 0) EXCEPT !.addr = a]
PeerAt(family) == AddressIn("PEER", Mapped(family, 1, TRUE))
Credentials == <<Plain("USERNAME", 5, 1), Plain("REALM", 3, 2), Plain("NONCE", 8, 3)>>
Lifetime(n) == Plain("LIFETIME", 4, n)

Built(class, method, attrs) ==
    [class |-> Classes[class], method |-> Methods[method], id |-> 1, attrs |-> attrs]

Messages ==
    {Built("Request", "Allocate", <<Plain("TRANSPORT", 4, 17), Lifetime(600)>>),
     Built("Error", "Allocate", <<Plain("ERROR", 8, 401), Plain("REALM", 3, 2), Plain("NONCE", 8, 3)>>),
     Built("Success", "Allocate", <<AddressIn("RELAYED", Mapped(6, 9, TRUE)), Lifetime(600),
                                    AddressIn("MAPPED", Mapped(4, 3, TRUE))>>),
     Built("Request", "CreatePermission", Credentials \o <<PeerAt(4), PeerAt(6)>>),
     Built("Request", "ChannelBind", Credentials \o <<Plain("CHANNEL", 4, 16384), PeerAt(4)>>),
     Built("Request", "ChannelBind", <<Plain("CHANNEL", 4, 20479), PeerAt(4)>>),
     Built("Request", "ChannelBind", <<Plain("CHANNEL", 4, 20480), PeerAt(4)>>),
     Built("Request", "Refresh", Credentials \o <<Lifetime(0)>>),
     Built("Success", "Refresh", <<Lifetime(0)>>),
     Built("Indication", "Send", <<PeerAt(6), Plain("DATA", 7, 4)>>),
     Built("Indication", "Data", <<PeerAt(4), Plain("DATA", 0, 4)>>),
     Built("Request", "Binding", <<>>),
     Built("Success", "Binding", <<AddressIn("MAPPED", Mapped(6, 9, TRUE))>>),
     Built("Success", "Binding", <<AddressIn("MAPPED", Mapped(4, 9, TRUE))>>),
     Built("Request", "Send", <<>>),
     Built("Request", "Allocate", <<Plain("USERNAME", 0, 1)>>),
     Built("Request", "Refresh", <<Lifetime(0), Lifetime(0)>>)}

\* One change on the way; the declared length follows it or not.
Damaged(d) ==
    LET n == Len(d.attrs)
        fixed(as) == [d EXCEPT !.attrs = as, !.declared = BodyBytes(as)]
        torn(as) == [d EXCEPT !.attrs = as]
        cut == {SubSeq(d.attrs, 1, n - 1) : i \in {x \in {1} : n > 0}}
        longer == {Append(d.attrs, Plain(k, 4, 0)) : k \in {"OPTIONAL", "REQUIRED", "LIFETIME", "DATA"}}
        repeated == {Append(d.attrs, d.attrs[i]) : i \in 1..n}
        swapped == {[d.attrs EXCEPT ![i] = d.attrs[i + 1], ![i + 1] = d.attrs[i]] : i \in 1..(n - 1)}
        renamed == {[d.attrs EXCEPT ![i].kind = k] : i \in 1..n, k \in {"OPTIONAL", "REQUIRED"}}
        renumbered == {[d.attrs EXCEPT ![i].n = @ + 1] :
                         i \in {x \in 1..n : d.attrs[x].kind \in {"CHANNEL", "ERROR", "LIFETIME"}}}
    IN {fixed(as) : as \in cut \union longer \union repeated \union swapped \union renamed
                             \union renumbered}
       \union {torn(as) : as \in cut \union longer}
       \union {[d EXCEPT !.type = t] : t \in {EncodeType(c, DecodeMethod(d.type)) : c \in 0..3}}
       \union {[d EXCEPT !.cookie = FALSE], [d EXCEPT !.id = IF @ = 1 THEN 2 ELSE 1]}
       \union {[d EXCEPT !.declared = @ + 1]}

Answer == EncodeBindingSuccess(1, Mapped(4, 5, TRUE))

Responses ==
    {[source |-> "server", datagram |-> d] : d \in
       {Answer, EncodeBindingRequest(1), EncodeBindingSuccess(2, Mapped(4, 5, TRUE)),
        EncodeBindingSuccess(1, Mapped(6, 5, TRUE)), EncodeBindingSuccess(1, Mapped(4, 0, TRUE)),
        EncodeBindingSuccess(1, Mapped(4, 5, FALSE))} \union Damaged(Answer)}
      \union {[source |-> "other", datagram |-> Answer]}

-----------------------------------------------------------------------------
(* The codec side. *)

Nothing == [class |-> 0, method |-> 0, id |-> 0, attrs |-> <<>>]
NoDatagram == [type |-> 0, cookie |-> FALSE, declared |-> 0, id |-> 0, attrs |-> <<>>]
Idle == [pc |-> "none", sent |-> 0, ignored |-> 0, drained |-> 0, mapped |-> {}, source |-> {}]

Init ==
    /\ phase \in {"build", "discovery"}
    /\ message = Nothing /\ key = "none" /\ datagram = NoDatagram /\ damage = 0
    /\ decoded = {} /\ verified = {}
    /\ disc = [Idle EXCEPT !.pc = "send"]

Build ==
    /\ phase = "build"
    /\ \E m \in Messages, k \in Keys \union {"none"} :
         /\ datagram' \in IF k = "none" THEN Encode(m) ELSE EncodeWithIntegrity(m, k)
         /\ message' = m /\ key' = k
    /\ phase' = "sent"
    /\ UNCHANGED <<damage, decoded, verified, disc>>

\* A Binding message, whose fingerprint takes the place of a key.
BuildBinding ==
    /\ phase = "build"
    /\ \E m \in Messages :
         /\ m.method = Methods.Binding
         /\ datagram' = IF m.class = Classes.Request THEN EncodeBindingRequest(m.id)
                        ELSE EncodeBindingSuccess(m.id, m.attrs[1].addr)
         /\ message' = m /\ key' = "crc"
    /\ phase' = "sent"
    /\ UNCHANGED <<damage, decoded, verified, disc>>

Damage ==
    /\ phase = "sent" /\ damage < MaxDamage
    /\ datagram' \in Damaged(datagram) \ {datagram}
    /\ damage' = damage + 1
    /\ UNCHANGED <<phase, message, key, decoded, verified, disc>>

Receive ==
    /\ phase = "sent" /\ key # "crc"
    /\ phase' = "decoded"
    /\ decoded' = Decode(datagram)
    /\ verified' = UNION {VerifyIntegrity(datagram, k) : k \in Keys}
    /\ UNCHANGED <<message, key, datagram, damage, disc>>

ReceiveBinding ==
    LET binding(class, id, as) == [class |-> class, method |-> Methods.Binding, id |-> id, attrs |-> as]
    IN
    /\ phase = "sent" /\ key = "crc"
    /\ phase' = "decoded"
    /\ decoded' = {binding(Classes.Request, i, <<>>) : i \in DecodeBindingRequest(datagram, TRUE)}
          \union {binding(Classes.Success, datagram.id,
                          <<[message.attrs[1] EXCEPT !.addr = a]>>) :
                    a \in DecodeBindingSuccess(datagram, message.id, TRUE)}
    /\ verified' = IF MessageFingerprintValid(datagram) THEN decoded' ELSE {}
    /\ UNCHANGED <<message, key, datagram, damage, disc>>

-----------------------------------------------------------------------------
(* Discovery: run_transaction with transaction 1. *)

\* validate_server_address and socket_from_mapped.
UsableAddress(addr) == addr.port # 0 /\ addr.usable

SendBindingRequest ==
    /\ phase = "discovery" /\ disc.pc = "send"
    /\ disc' = IF disc.sent < MaxRequests
                 THEN [disc EXCEPT !.pc = "receive", !.sent = @ + 1]
                 ELSE [disc EXCEPT !.pc = "timeout"]
    /\ UNCHANGED <<phase, message, key, datagram, damage, decoded, verified>>

\* count_ignored.
Ignored == IF disc.ignored + 1 > MaxIgnored
             THEN [disc EXCEPT !.pc = "failed"]
             ELSE [disc EXCEPT !.ignored = @ + 1]

\* A datagram: only the answer of the server to this transaction, with a
\* fingerprint and an address of the socket's family, ends it.
ReceiveResponse ==
    /\ phase = "discovery" /\ disc.pc = "receive"
    /\ \E r \in Responses :
         LET mapped == {a \in DecodeBindingSuccess(r.datagram, 1, TRUE) :
                          UsableAddress(a) /\ a.family = 4}
         IN disc' = IF r.source # "server" \/ mapped = {} THEN Ignored
                    ELSE [disc EXCEPT !.pc = "drain", !.mapped = mapped, !.source = {r}]
    /\ UNCHANGED <<phase, message, key, datagram, damage, decoded, verified>>

\* The receive timeout of this request passes.
ResponseTimeout ==
    /\ phase = "discovery" /\ disc.pc = "receive"
    /\ disc' = [disc EXCEPT !.pc = "send"]
    /\ UNCHANGED <<phase, message, key, datagram, damage, decoded, verified>>

\* drain_socket: what else is queued is thrown away before the handover.
DrainSocket ==
    /\ phase = "discovery" /\ disc.pc = "drain"
    /\ \/ disc' = IF disc.drained + 1 > MaxDrained
                     THEN [disc EXCEPT !.pc = "failed", !.mapped = {}]
                     ELSE [disc EXCEPT !.drained = @ + 1]
       \/ disc' = [disc EXCEPT !.pc = "found"]
    /\ UNCHANGED <<phase, message, key, datagram, damage, decoded, verified>>

Next == Build \/ BuildBinding \/ Damage \/ Receive \/ ReceiveBinding
          \/ SendBindingRequest \/ ReceiveResponse \/ ResponseTimeout \/ DrainSocket

Spec == Init /\ [][Next]_vars

-----------------------------------------------------------------------------
\* What an end builds the other end reads: an undamaged datagram decodes to the
\* message, with the integrity attribute under the key that signed it and under
\* no other.
TurnRoundTrips ==
    phase = "decoded" /\ damage = 0 /\ key # "crc" =>
        /\ \A d \in decoded : /\ d.class = message.class /\ d.method = message.method /\ d.id = message.id
                              /\ SubSeq(d.attrs, 1, Len(message.attrs)) = message.attrs
        /\ decoded # {}
        /\ verified = IF key = "none" THEN {} ELSE decoded

\* Whatever happened on the way, a message that passes verify_integrity is the
\* one that was signed.
IntegrityBinds ==
    key # "crc" => \A v \in verified :
        /\ key # "none"
        /\ v.class = message.class /\ v.method = message.method /\ v.id = message.id
        /\ SubSeq(v.attrs, 1, Len(v.attrs) - 1) = message.attrs

\* The same of the fingerprint: a Binding message that is accepted with one is
\* the message that was sent, and one that arrives as it was sent is accepted.
FingerprintBinds ==
    phase = "decoded" /\ key = "crc" =>
        /\ decoded \subseteq {message} /\ verified = decoded
        /\ damage = 0 => decoded = {message}

\* The address of a finished discovery is the one the server put into a
\* fingerprinted response to this transaction, and the socket it came on was
\* read within the bounds.
DiscoveryGenuine ==
    phase = "discovery" =>
        /\ disc.sent <= MaxRequests /\ disc.ignored <= MaxIgnored /\ disc.drained <= MaxDrained
        /\ disc.pc = "found" =>
             \E r \in disc.source : \E a \in disc.mapped :
                 r.source = "server" /\ a.family = 4 /\ r.datagram = EncodeBindingSuccess(1, a)

\* The two directions agree on what is a message: what decode returns, also for a
\* datagram that was damaged, encode would have written, with every channel, code,
\* length and duplicate within the same bounds.
DecodedIsEncodable ==
    key # "crc" => \A m \in decoded : Encode(m) # {}

StunWireInv == TurnRoundTrips /\ IntegrityBinds /\ DecodedIsEncodable /\ FingerprintBinds /\ DiscoveryGenuine

=============================================================================
