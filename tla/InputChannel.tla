----------------------------- MODULE InputChannel ---------------------------
(***************************************************************************)
(* A sender of input, a network that loses, repeats and reorders its       *)
(* messages, and the receiver's InputReconciler whose actions a platform   *)
(* performs.  The sender numbers the messages of an epoch and starts a new *)
(* epoch, holding nothing, when it reconnects.                             *)
(***************************************************************************)
EXTENDS InputReconciler

CONSTANTS MaxEpoch, MaxSeq     \* bounds on the sender's epochs and messages per epoch

VARIABLES
  sender,       \* [epoch, seq, held]
  sent,         \* every message sent so far, with what the sender then held
  rec,          \* the receiver's InputReconciler
  native,       \* controls the platform holds down
  latest,       \* the message applied last
  gap           \* messages are missing since the last full state

vars == <<sender, sent, rec, native, latest, gap>>

NoMessage == [epoch |-> None, seq |-> None, event |-> [kind |-> "motion"], view |-> {}]

Init ==
  /\ sender = [epoch |-> 1, seq |-> 0, held |-> {}]
  /\ sent = {}
  /\ rec = Fresh
  /\ native = {}
  /\ latest = NoMessage
  /\ gap = FALSE

\* The sender's user acts; snapshots repeat what it holds.
SenderEvents ==
  [kind: {"press"}, control: Controls \ sender.held]
    \cup [kind: {"release"}, control: sender.held]
    \cup {[kind |-> "snapshot", held |-> sender.held], [kind |-> "release_all"],
          [kind |-> "motion"]}

Send(event) ==
  /\ sender.seq < MaxSeq
  /\ event \in SenderEvents
  /\ LET held == HeldAfter(sender.held, event)
     IN  /\ sender' = [sender EXCEPT !.seq = @ + 1, !.held = held]
         /\ sent' = sent \cup {[epoch |-> sender.epoch, seq |-> sender.seq + 1,
                                event |-> event, view |-> held]}
  /\ UNCHANGED <<rec, native, latest, gap>>

Reconnect ==
  /\ sender.epoch < MaxEpoch
  /\ sender' = [sender EXCEPT !.epoch = @ + 1, !.seq = 0, !.held = {}]
  /\ UNCHANGED <<sent, rec, native, latest, gap>>

FullState(event) == event.kind \in {"snapshot", "release_all"}

\* A message arrives, for the first time or again, or never.
Deliver(m) ==
  LET out == Applied(rec, m)
      fresh == out.r.last = m.seq /\ <<out.r.epoch, out.r.last>> # <<rec.epoch, rec.last>>
  IN  /\ rec' = out.r
      /\ native' = Performed(native, out.acts)
      /\ latest' = IF fresh THEN m ELSE latest
      /\ gap' = IF ~fresh THEN gap
                ELSE /\ ~FullState(m.event)
                     /\ \/ m.epoch # rec.epoch /\ m.seq # 1
                        \/ m.epoch = rec.epoch /\ (gap \/ m.seq # rec.last + 1)
      /\ UNCHANGED <<sender, sent>>

\* The transport goes away; the epoch is retired.
Disconnect ==
  LET out == Disconnected(rec)
  IN  /\ rec' = out.r
      /\ native' = Performed(native, out.acts)
      /\ gap' = TRUE
      /\ UNCHANGED <<sender, sent, latest>>

\* The receiver's window loses focus; the epoch goes on.
FocusLoss ==
  LET out == Unfocused(rec)
  IN  /\ rec' = out.r
      /\ native' = Performed(native, out.acts)
      /\ gap' = TRUE
      /\ UNCHANGED <<sender, sent, latest>>

Next ==
  \/ \E event \in Events : Send(event)
  \/ Reconnect
  \/ \E m \in sent : Deliver(m)
  \/ Disconnect
  \/ FocusLoss

Spec == Init /\ [][Next]_vars

-----------------------------------------------------------------------------
ChannelTypeOK ==
  /\ sender \in [epoch: 1 .. MaxEpoch, seq: 0 .. MaxSeq, held: SUBSET Controls]
  /\ rec \in Reconcilers(1 .. MaxEpoch, 1 .. MaxSeq)
  /\ native \subseteq Controls
  /\ gap \in BOOLEAN
  /\ \A m \in sent \cup {latest} : m.seq <= MaxSeq /\ m.view \subseteq Controls

\* The actions emitted so far, duplicates suppressed and releases included,
\* leave the platform holding exactly what the reconciler records.
PlatformFollows == native = rec.held

\* However many messages were lost or overtaken, the receiver agrees with the
\* sender's state at the message it applied last as soon as that message, or
\* one before it with nothing missing in between, carried the full state.
SnapshotHeals == gap \/ latest = NoMessage \/ rec.held = latest.view

\* No control is down that the sender did not press in the receiver's current
\* epoch, in a message no younger than the one applied last.
HeldWasPressed ==
  rec.held \subseteq
    UNION {m.view : m \in {n \in sent : n.epoch = rec.epoch /\ n.seq <= rec.last}}

\* A disconnected epoch stays retired: delayed records of it neither press
\* anything nor reopen it; only a newer epoch does.
RetiredStays == rec.retired => (rec'.retired \/ rec'.epoch > rec.epoch)

\* A control goes down only with a message younger than every message applied
\* before it: a late or repeated press is never replayed, not even after the
\* receiver released everything on a loss of focus.
PressIsNew ==
  native' \ native # {} =>
    \/ rec'.epoch > rec.epoch
    \/ rec'.epoch = rec.epoch /\ rec'.last > rec.last
=============================================================================
