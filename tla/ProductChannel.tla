--------------------------- MODULE ProductChannel ---------------------------
(***************************************************************************)
(* One product connection between a Host and a Client, as the Host's       *)
(* session sends on it and the Client's session receives from it: the      *)
(* product handshake, the reliable control lane with its two ways of       *)
(* signalling candidates, and media frames cut into datagrams.             *)
(*                                                                         *)
(* Every send and every read is a future that can be dropped at an await.  *)
(* A step is what runs between two awaits; Cancel is the drop.  The lane   *)
(* is the QUIC stream: it keeps the order of whole records, and a write    *)
(* that is dropped half way leaves a record that is not whole.             *)
(***************************************************************************)
EXTENDS Integers, Sequences, SequencesExt, FiniteSets

CONSTANTS Tasks,          \* tasks of the Host that send on the control lane
          Stamps,         \* lifecycle stamps the Host may activate with
          Previous,       \* stamp of the session the Client replaces, or None
          None,
          MaxGeneration,  \* bound: ICE generations and advertisements sent
          MaxRecords,     \* bound: records on the lane, and plain sends begun
          MaxFrame,       \* bound: media frames
          MaxEpoch        \* bound: route epochs

VARIABLES conn,     \* which end still has the connection open
          host,     \* the Host's ProductSession
          client,   \* the Client's ProductSession and its ControlReceiver
          locks,    \* the Host's ice_generation and control_send mutexes
          task,     \* what each sending task is doing
          lane,     \* records written by the Host and not yet read
          reader,   \* the Client's reading operation
          sent,     \* history: updates the Host's callers saw sent, in order
          applied,  \* history: updates the Client's callers were handed
          media     \* datagrams in flight and both ends of media delivery

vars == <<conn, host, client, locks, task, lane, reader, sent, applied, media>>

Fragments == {1, 2}

NoTracker == [mode |-> None, generation |-> 0, pending |-> 0,
              poisoned |-> FALSE, candidates |-> 0]

Idle == [pc |-> "idle"]

Init ==
  /\ conn = [host |-> TRUE, client |-> TRUE]
  /\ host = [state |-> "new", stamp |-> None, epoch |-> 1, roles |-> FALSE,
             tracker |-> NoTracker]
  /\ client = [state |-> "new", stamp |-> None, epoch |-> 1, roles |-> FALSE,
               tracker |-> NoTracker]
  /\ locks = [ice |-> None, send |-> None]
  /\ task = [t \in Tasks |-> Idle]
  /\ lane = <<>>
  /\ reader = Idle
  /\ sent = <<>>
  /\ applied = <<>>
  /\ media = [flight |-> {}, sending |-> [frame |-> 0, next |-> 1],
              held |-> {}, heldEpoch |-> 1, read |-> None, last |-> 0,
              shown |-> {}]

-----------------------------------------------------------------------------
(* Lifecycle stamps                                                        *)

Epochs == {"generation", "authorization", "display", "codec"}

\* A replacement session has a new identity and newer epochs, all of them.
IsSuccessor(stamp) ==
  Previous = None \/ ( /\ stamp.session # Previous.session
                       /\ \A e \in Epochs : stamp[e] > Previous[e] )

Stamp(end) == [stamp |-> end.stamp, epoch |-> end.epoch]

-----------------------------------------------------------------------------
(* The trackers of the two signalling modes                                *)

Admits(tracker, mode) == ~tracker.poisoned /\ tracker.mode \in {None, mode}

BeginAllowed(tracker, record) ==
  /\ Admits(tracker, "generations")
  /\ record.generation = tracker.generation + 1
  /\ tracker.pending = 0

Begun(tracker, record) ==
  [tracker EXCEPT !.mode = "generations", !.pending = record.generation]

Finished(tracker) ==
  [tracker EXCEPT !.generation = tracker.pending, !.pending = 0]

Poisoned(tracker) == [tracker EXCEPT !.poisoned = TRUE, !.pending = 0]

AdvertisementAllowed(tracker, record) ==
  record.generation = tracker.candidates + 1

Advertised(tracker, record) ==
  [tracker EXCEPT !.mode = "advertisements", !.candidates = record.generation]

-----------------------------------------------------------------------------
(* Closing                                                                 *)

\* close_for_protocol_violation, or a close with a code of its own.
CloseHost == conn' = [conn EXCEPT !.host = FALSE]
CloseClient == conn' = [conn EXCEPT !.client = FALSE]

\* The other end learns of the close: its reads and writes fail from then on.
PeerClosed(end, other) ==
  /\ conn[end] /\ ~conn[other]
  /\ conn' = [conn EXCEPT ![end] = FALSE]
  /\ UNCHANGED <<host, client, locks, task, lane, reader, sent, applied, media>>

-----------------------------------------------------------------------------
(* Writing a record                                                        *)

Record(kind, generation) ==
  [kind |-> kind, stamp |-> Stamp(host), generation |-> generation,
   whole |-> TRUE]

Written(record) == /\ conn.host /\ Len(lane) < MaxRecords
                   /\ lane' = Append(lane, record)

\* A write dropped half way: nothing of the record, or a part of it, is out.
Torn(record) ==
  \/ UNCHANGED lane
  \/ /\ Len(lane) < MaxRecords
     /\ lane' = Append(lane, [record EXCEPT !.whole = FALSE])

-----------------------------------------------------------------------------
(* The product handshake                                                   *)

HelloRecord(session) ==
  [kind |-> "hello", stamp |-> Stamp(session), generation |-> 0, whole |-> TRUE]

\* Every field of the stamp and of the message inside agrees, and the stamp
\* is that of an active session.
ValidHello(record) ==
  /\ record.whole /\ record.kind = "hello"
  /\ \A e \in Epochs : record.stamp.stamp[e] # 0

\* ProductSession::host_with_stamp: publish the stamp as the first record.
HostActivates ==
  /\ host.state = "new" /\ conn.host
  /\ \E stamp \in Stamps :
       LET session == [host EXCEPT !.stamp = stamp] IN
       \/ /\ lane' = <<HelloRecord(session)>>
          /\ host' = [session EXCEPT !.state = "active"]
          /\ UNCHANGED conn
       \/ /\ host' = [session EXCEPT !.state = "failed"]
          /\ CloseHost
          /\ UNCHANGED lane
  /\ UNCHANGED <<client, locks, task, reader, sent, applied, media>>

\* The lane's kind is that of its first record, which is read to admit it.
AcceptInboundStream == Head(lane)

\* The first record of the Client's control lane, checked before the session
\* exists; anything else about it closes the connection.
ClientActivates ==
  /\ client.state = "new" /\ conn.client /\ lane # <<>>
  /\ LET hello == AcceptInboundStream
     IN IF ValidHello(hello) /\ IsSuccessor(hello.stamp.stamp)
          THEN /\ client' = [client EXCEPT !.state = "active",
                               !.stamp = hello.stamp.stamp,
                               !.epoch = hello.stamp.epoch]
               /\ UNCHANGED conn
          ELSE /\ client' = [client EXCEPT !.state = "failed"]
               /\ CloseClient
  /\ lane' = Tail(lane)
  /\ UNCHANGED <<host, locks, task, reader, sent, applied, media>>

ClientTimesOut ==
  /\ client.state = "new"
  /\ client' = [client EXCEPT !.state = "failed"]
  /\ CloseClient
  /\ UNCHANGED <<host, locks, task, lane, reader, sent, applied, media>>

\* enable_authenticated_ice_signaling, after both ends have negotiated it.
HostEnablesSignaling ==
  /\ host.state = "active" /\ ~host.roles
  /\ host' = [host EXCEPT !.roles = TRUE]
  /\ UNCHANGED <<conn, client, locks, task, lane, reader, sent, applied, media>>

ClientEnablesSignaling ==
  /\ client.state = "active" /\ ~client.roles
  /\ client' = [client EXCEPT !.roles = TRUE]
  /\ UNCHANGED <<conn, host, locks, task, lane, reader, sent, applied, media>>

-----------------------------------------------------------------------------
(* Sending on the control lane                                             *)

Update(what, generation) == [what |-> what, generation |-> generation]

Sent(what, generation) == sent' = Append(sent, Update(what, generation))

Goto(t, pc) == task' = [task EXCEPT ![t].pc = pc]
Done(t) == task' = [task EXCEPT ![t] = Idle]
Unlocked(t) == [l \in DOMAIN locks |-> IF locks[l] = t THEN None ELSE locks[l]]

\* send_control: refuses the kinds that have an API of their own, then waits
\* for the lane.
SendControl(t) ==
  /\ host.state = "active" /\ task[t].pc = "idle"
  /\ Len(sent) < MaxRecords
  /\ task' = [task EXCEPT ![t] = [pc |-> "wait", record |-> Record("plain", 0)]]
  /\ UNCHANGED <<conn, host, client, locks, lane, reader, sent, applied, media>>

\* send_ice_generation up to its first write: roles, tracker lock, begin and
\* finish on a copy of the tracker.
SendGeneration(t, generation) ==
  LET record == Record("credentials", generation) IN
  /\ host.state = "active" /\ task[t].pc = "idle" /\ host.roles
  /\ locks.ice = None
  /\ BeginAllowed(host.tracker, record)
  /\ task' = [task EXCEPT ![t] = [pc |-> "wait", record |-> record]]
  /\ locks' = [locks EXCEPT !.ice = t]
  /\ UNCHANGED <<conn, host, client, lane, reader, sent, applied, media>>

\* send_candidate_exchange up to its write.
SendAdvertisement(t, generation) ==
  LET record == Record("candidates", generation) IN
  /\ host.state = "active" /\ task[t].pc = "idle"
  /\ locks.ice = None
  /\ Admits(host.tracker, "advertisements")
  /\ AdvertisementAllowed(host.tracker, record)
  /\ task' = [task EXCEPT ![t] = [pc |-> "wait", record |-> record]]
  /\ locks' = [locks EXCEPT !.ice = t]
  /\ UNCHANGED <<conn, host, client, lane, reader, sent, applied, media>>

\* Faulty: the tracker is unlocked once the lane is held.
LockLaneAlone(t) ==
  /\ task[t].pc = "wait" /\ locks.send = None
  /\ locks' = [Unlocked(t) EXCEPT !.send = t]
  /\ Goto(t, "write")
  /\ UNCHANGED <<conn, host, client, lane, reader, sent, applied, media>>

LockLane(t) ==
  /\ task[t].pc = "wait" /\ locks.send = None
  /\ locks' = [locks EXCEPT !.send = t]
  /\ Goto(t, "write")
  /\ UNCHANGED <<conn, host, client, lane, reader, sent, applied, media>>

WriteControl(t) ==
  /\ task[t].pc = "write" /\ task[t].record.kind = "plain"
  /\ Written(task[t].record)
  /\ locks' = Unlocked(t)
  /\ Done(t)
  /\ Sent("control", 0)
  /\ UNCHANGED <<conn, host, client, reader, applied, media>>

WriteCredentials(t) ==
  /\ task[t].pc = "write" /\ task[t].record.kind = "credentials"
  /\ Written(task[t].record)
  /\ Goto(t, "second")
  /\ UNCHANGED <<conn, host, client, locks, reader, sent, applied, media>>

\* The second record of the pair; the tracker commits with no await between.
WriteCandidates(t) ==
  LET record == task[t].record IN
  /\ task[t].pc = "second"
  /\ Written(Record("candidates", record.generation))
  /\ host' = [host EXCEPT !.tracker = Finished(Begun(@, record))]
  /\ locks' = Unlocked(t)
  /\ Done(t)
  /\ Sent("generation", record.generation)
  /\ UNCHANGED <<conn, client, reader, applied, media>>

WriteAdvertisement(t) ==
  LET record == task[t].record IN
  /\ task[t].pc = "write" /\ record.kind = "candidates"
  /\ Written(record)
  /\ host' = [host EXCEPT !.tracker = Advertised(@, record)]
  /\ locks' = Unlocked(t)
  /\ Done(t)
  /\ Sent("advertisement", record.generation)
  /\ UNCHANGED <<conn, client, reader, applied, media>>

\* Dropped while waiting for a lock: nothing was written.
CancelWaiting(t) ==
  /\ task[t].pc = "wait"
  /\ locks' = Unlocked(t)
  /\ Done(t)
  /\ UNCHANGED <<conn, host, client, lane, reader, sent, applied, media>>

\* Dropped, or failed, inside a write.  A plain record has no guard: only the
\* write's own timeout closes the connection.
CancelControl(t) ==
  /\ task[t].pc = "write" /\ task[t].record.kind = "plain"
  /\ Torn(task[t].record)
  /\ CloseHost \/ UNCHANGED conn
  /\ locks' = Unlocked(t)
  /\ Done(t)
  /\ UNCHANGED <<host, client, reader, sent, applied, media>>

\* Faulty: the guard of a signalling write only poisons its tracker.
CancelSignalingOpen(t) ==
  /\ task[t].pc \in {"write", "second"} /\ task[t].record.kind # "plain"
  /\ Torn(task[t].record)
  /\ host' = [host EXCEPT !.tracker = Poisoned(@)]
  /\ locks' = Unlocked(t)
  /\ Done(t)
  /\ UNCHANGED <<conn, client, reader, sent, applied, media>>

\* FailClosedIceWrite dropped while armed.
CancelSignaling(t) ==
  /\ task[t].pc \in {"write", "second"} /\ task[t].record.kind # "plain"
  /\ Torn(task[t].record)
  /\ host' = [host EXCEPT !.tracker = Poisoned(@)]
  /\ CloseHost
  /\ locks' = Unlocked(t)
  /\ Done(t)
  /\ UNCHANGED <<client, reader, sent, applied, media>>

-----------------------------------------------------------------------------
(* Reading the control lane                                                *)

CanRead == client.state = "active" /\ conn.client

\* next_control, next_ice_generation or next_candidate_exchange is called.
StartRead(what) ==
  /\ CanRead /\ reader.pc = "idle"
  /\ what = "generation" =>
       client.roles /\ Admits(client.tracker, "generations")
  /\ what = "advertisement" => Admits(client.tracker, "advertisements")
  /\ reader' = [pc |-> "first", what |-> what]
  /\ UNCHANGED <<conn, host, client, locks, task, lane, sent, applied, media>>

\* next_control_private: the stream ends the connection on anything that is
\* not a record of this lane, the session on a stamp that is not its own.
OwnRecord(record) == record.whole /\ record.stamp = Stamp(client)

Expected(what) ==
  CASE what = "control" -> "plain"
    [] what = "generation" -> "credentials"
    [] what = "advertisement" -> "candidates"

Accepts(what, record) ==
  /\ OwnRecord(record)
  /\ record.kind = Expected(what)
  /\ what = "generation" => BeginAllowed(client.tracker, record)
  /\ what = "advertisement" => AdvertisementAllowed(client.tracker, record)

Hand(what, generation) == applied' = Append(applied, Update(what, generation))

\* The armed guard, or the check itself, closes the connection.
FailRead ==
  /\ CloseClient
  /\ reader' = Idle
  /\ UNCHANGED <<host, client, locks, task, sent, applied, media>>

ReadFirst ==
  /\ reader.pc = "first" /\ conn.client /\ lane # <<>>
  /\ lane' = Tail(lane)
  /\ LET record == Head(lane)
         what == reader.what
     IN \/ ~Accepts(what, record) /\ FailRead
        \/ /\ Accepts(what, record) /\ what = "control"
           /\ Hand(what, 0) /\ reader' = Idle
           /\ UNCHANGED <<conn, host, client, locks, task, sent, media>>
        \/ /\ Accepts(what, record) /\ what = "advertisement"
           /\ client' = [client EXCEPT !.tracker = Advertised(@, record)]
           /\ Hand(what, record.generation) /\ reader' = Idle
           /\ UNCHANGED <<conn, host, locks, task, sent, media>>
        \/ /\ Accepts(what, record) /\ what = "generation"
           /\ client' = [client EXCEPT !.tracker = Begun(@, record)]
           /\ reader' = [reader EXCEPT !.pc = "second"]
           /\ UNCHANGED <<conn, host, locks, task, sent, applied, media>>

ReadSecond ==
  /\ reader.pc = "second" /\ conn.client /\ lane # <<>>
  /\ lane' = Tail(lane)
  /\ LET record == Head(lane)
         valid == /\ OwnRecord(record) /\ record.kind = "candidates"
                  /\ record.generation = client.tracker.pending
     IN \/ ~valid /\ FailRead
        \/ /\ valid
           /\ client' = [client EXCEPT !.tracker = Finished(@)]
           /\ Hand("generation", record.generation) /\ reader' = Idle
           /\ UNCHANGED <<conn, host, locks, task, sent, media>>

\* FailClosedControlRead dropped while armed, also when the peer has closed.
CancelRead ==
  /\ reader.pc # "idle"
  /\ FailRead
  /\ UNCHANGED lane

-----------------------------------------------------------------------------
(* The route epoch in the stamp                                            *)

\* advance_route_epoch, from the commit of a route transition.
AdvanceHostEpoch ==
  /\ host.state = "active" /\ host.epoch < MaxEpoch
  /\ host' = [host EXCEPT !.epoch = @ + 1]
  /\ UNCHANGED <<conn, client, locks, task, lane, reader, sent, applied, media>>

AdvanceClientEpoch ==
  /\ client.state = "active" /\ client.epoch < host.epoch
  /\ client' = [client EXCEPT !.epoch = @ + 1]
  /\ UNCHANGED <<conn, host, locks, task, lane, reader, sent, applied, media>>

-----------------------------------------------------------------------------
(* Media frames                                                            *)

controlVars == <<host, client, locks, task, lane, reader, sent, applied>>

\* send_media_frame, one fragment a step: each is stamped when it is sent.
SendFragment ==
  LET s == media.sending
      frame == IF s.next = 1 THEN s.frame + 1 ELSE s.frame
  IN /\ host.state = "active" /\ conn.host
     /\ frame <= MaxFrame
     /\ media' = [media EXCEPT
          !.flight = @ \cup {[frame |-> frame, index |-> s.next, stamp |-> Stamp(host)]},
          !.sending = [frame |-> frame,
                       next |-> IF s.next + 1 \in Fragments THEN s.next + 1 ELSE 1]]
     /\ UNCHANGED <<conn, controlVars>>

\* A fragment that is not sent (expired, too large) aborts its frame.
AbortFrame ==
  /\ media.sending.next # 1
  /\ media' = [media EXCEPT !.sending.next = 1]
  /\ UNCHANGED <<conn, controlVars>>

\* receive_media_frame up to its stamp check.  A datagram may be lost, arrive
\* late, or arrive twice.
ReceiveDatagram(d) ==
  /\ client.state = "active" /\ conn.client /\ media.read = None
  /\ IF d.stamp = Stamp(client)
       THEN media' = [media EXCEPT !.read = d] /\ UNCHANGED conn
       ELSE CloseClient /\ UNCHANGED media
  /\ UNCHANGED controlVars

\* The rest of it: a reassembler of another route epoch is replaced, a result
\* of an epoch that has ended is dropped, and so is a frame that is not newer
\* than the last one delivered.
Ingested(d) ==
  {f \in media.held : media.heldEpoch = d.stamp.epoch} \cup {d}

Complete(held, frame) ==
  Fragments \subseteq {f.index : f \in {g \in held : g.frame = frame}}

\* Faulty: a frame that completes late is delivered.
IsNewerAlways(frame) == TRUE

IsNewer(frame) == frame > media.last

Ingest ==
  /\ media.read # None
  /\ LET d == media.read
         held == Ingested(d)
         complete == Complete(held, d.frame)
         current == d.stamp = Stamp(client)
     IN media' = [media EXCEPT
          !.read = None,
          !.heldEpoch = d.stamp.epoch,
          !.held = IF complete THEN {f \in held : f.frame # d.frame} ELSE held,
          !.last = IF complete /\ current /\ IsNewer(d.frame) THEN d.frame ELSE @,
          !.shown = IF complete /\ current /\ IsNewer(d.frame)
                      THEN {f \in held : f.frame = d.frame} ELSE {}]
  /\ UNCHANGED <<conn, controlVars>>

-----------------------------------------------------------------------------
Send(t) ==
  \/ SendControl(t)
  \/ \E g \in 1..MaxGeneration : SendGeneration(t, g) \/ SendAdvertisement(t, g)
  \/ LockLane(t)
  \/ WriteControl(t) \/ WriteCredentials(t) \/ WriteCandidates(t)
  \/ WriteAdvertisement(t)
  \/ CancelWaiting(t) \/ CancelControl(t) \/ CancelSignaling(t)

Next ==
  \/ HostActivates \/ ClientActivates \/ ClientTimesOut
  \/ HostEnablesSignaling \/ ClientEnablesSignaling
  \/ PeerClosed("host", "client") \/ PeerClosed("client", "host")
  \/ \E t \in Tasks : Send(t)
  \/ \E what \in {"control", "generation", "advertisement"} : StartRead(what)
  \/ ReadFirst \/ ReadSecond \/ CancelRead
  \/ AdvanceHostEpoch \/ AdvanceClientEpoch
  \/ SendFragment \/ AbortFrame \/ Ingest
  \/ \E d \in media.flight : ReceiveDatagram(d)

Spec == Init /\ [][Next]_vars

-----------------------------------------------------------------------------
(* Properties                                                              *)

\* What the Client's callers were handed is what the Host's callers sent, in
\* that order, generations and advertisements counting from one without a gap
\* and never both on one connection.
Numbers(updates, what) == SelectSeq(updates, LAMBDA u : u.what = what)

UpdatesInOrder ==
  /\ IsPrefix(applied, sent)
  /\ \A what \in {"generation", "advertisement"} :
       LET ns == Numbers(applied, what) IN
       \A i \in 1..Len(ns) : ns[i].generation = i
  /\ \/ Numbers(sent, "generation") = <<>>
     \/ Numbers(sent, "advertisement") = <<>>

\* Half a generation is never left behind on a connection that lives on: the
\* Client holds one only while it waits for the other half, and credentials on
\* the lane are followed by their candidates unless the Host is about to write
\* them or has closed.
NoHalfGeneration ==
  /\ client.tracker.pending # 0 => reader.pc = "second" \/ ~conn.client
  /\ host.tracker.poisoned => ~conn.host
  /\ conn.host => \A i \in 1..Len(lane) :
       lane[i].kind = "credentials" /\ lane[i].whole =>
         \/ /\ i < Len(lane) /\ lane[i + 1].kind = "candidates"
            /\ lane[i + 1].generation = lane[i].generation
         \/ i = Len(lane) /\ \E t \in Tasks : task[t].pc = "second"

\* A session exists at the Client only for a stamp its Host has published,
\* one that supersedes the session it replaces.
HandshakeAgrees ==
  client.state = "active" =>
    host.state = "active" /\ client.stamp = host.stamp /\ IsSuccessor(client.stamp)

ChannelInv == UpdatesInOrder /\ NoHalfGeneration /\ HandshakeAgrees

\* Frames reach the application in increasing order, each put together from
\* fragments of one route epoch, the one the session is in.
FramesAdvance ==
  /\ media'.last >= media.last
  /\ media'.last # media.last =>
       \A f \in media'.shown : f.stamp = Stamp(client)

=============================================================================
