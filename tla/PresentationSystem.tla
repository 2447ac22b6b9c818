-------------------------- MODULE PresentationSystem -------------------------
(***************************************************************************)
(* A PresentationCoordinator, the callers of its operations, a renderer    *)
(* that may break its contract, and a provider that revokes the surfaces   *)
(* of an epoch at any moment.                                              *)
(***************************************************************************)
EXTENDS Presentation

CONSTANTS Frames, MaxTime

VARIABLES
  p,            \* the coordinator
  offered,      \* frames decoded so far
  freed,        \* frames whose surface was given back to its pool
  leaked,       \* frames whose surface is retained for good
  in_use,       \* frames the renderer may still read
  shown,        \* frames handed to the renderer since the last reset, in order
  revoked,      \* epochs whose surfaces lost their authorization
  now

vars == <<p, offered, freed, leaked, in_use, shown, revoked, now>>

Init ==
  /\ p = NewCoordinator
  /\ offered = {}
  /\ freed = {}
  /\ leaked = {}
  /\ in_use = {}
  /\ shown = <<>>
  /\ revoked = {}
  /\ now = 0

Submit(f) ==
  /\ f \in Frames \ offered
  /\ LET out == Submitted(p, f, now, f.epoch \notin revoked)
     IN  p' = out.p /\ freed' = freed \cup out.freed
  /\ offered' = offered \cup {f}
  /\ UNCHANGED <<leaked, in_use, shown, revoked, now>>

\* A rejecting renderer has not touched the surface; any other one may have.
PresentNext(answer) ==
  LET newest == Live(p, now)[Len(Live(p, now))]
      valid == Live(p, now) # <<>> => newest.epoch \notin revoked
      out == PresentedNext(p, now, valid, answer)
  IN  /\ p' = out.p
      /\ freed' = freed \cup out.freed
      /\ IF out.shown = NoFrame THEN UNCHANGED <<in_use, shown>>
         ELSE /\ in_use' = in_use \cup {out.shown}
              /\ shown' = Append(shown, out.shown)
      /\ UNCHANGED <<offered, leaked, revoked, now>>

\* The renderer reports completion after its fence; until then nothing moves.
PollPresentCompletion ==
  /\ p.flight.state = "submitted"
  /\ LET out == Completed(p)
     IN  p' = out.p /\ freed' = freed \cup out.freed
  /\ in_use' = in_use \ {p.flight.frame}
  /\ UNCHANGED <<offered, leaked, shown, revoked, now>>

\* A renderer that quiesces stops every access, but an unproven surface may
\* be of another coordinator, so its access is not known to have ended.
Quiesced(frames) == IF RequiresQuiesce(p) THEN frames ELSE frames \ {p.flight.frame}

CancelInFlight ==
  /\ p.flight # NoFlight
  /\ LET out == Cancelled(p)
     IN  /\ p' = out.p
         /\ freed' = freed \cup out.freed
         /\ leaked' = leaked \cup ({p.flight.frame} \ out.freed)
  /\ in_use' = Quiesced(in_use)
  /\ UNCHANGED <<offered, shown, revoked, now>>

Shutdown(quiesced) ==
  LET out == ShutDown(p, quiesced)
  IN  /\ p' = out.p
      /\ freed' = freed \cup out.freed
      /\ leaked' = leaked \cup
                     (IF p.flight # NoFlight /\ out.p.flight = NoFlight
                      THEN {p.flight.frame} \ out.freed ELSE {})
      /\ in_use' = IF quiesced THEN Quiesced(in_use) ELSE in_use
      /\ shown' = IF out.p.epoch = 0 THEN <<>> ELSE shown
      /\ UNCHANGED <<offered, revoked, now>>

\* reset_epochs is refused while anything is with the renderer.
ResetEpochs(epoch) ==
  /\ p.flight = NoFlight
  /\ LET out == ResetTo(p, epoch)
     IN  p' = out.p /\ freed' = freed \cup out.freed
  /\ shown' = <<>>
  /\ UNCHANGED <<offered, leaked, in_use, revoked, now>>

\* The provider invalidates an epoch, for instance on access loss.
Revoke(epoch) ==
  /\ revoked' = revoked \cup {epoch}
  /\ UNCHANGED <<p, offered, freed, leaked, in_use, shown, now>>

Tick ==
  /\ now < MaxTime
  /\ now' = now + 1
  /\ UNCHANGED <<p, offered, freed, leaked, in_use, shown, revoked>>

Epochs == {f.epoch : f \in Frames}

Next ==
  \/ \E f \in Frames : Submit(f)
  \/ \E answer \in Presents : PresentNext(answer)
  \/ PollPresentCompletion
  \/ CancelInFlight
  \/ \E quiesced \in BOOLEAN : Shutdown(quiesced)
  \/ \E epoch \in Epochs : ResetEpochs(epoch) \/ Revoke(epoch)
  \/ Tick

Spec == Init /\ [][Next]_vars
-----------------------------------------------------------------------------
PresentationTypeOK ==
  /\ Queued(p) \subseteq Frames
  /\ Len(p.items) <= Capacity
  /\ p.flight.state \in {"none", "submitted", "unproven", "handoff"}
  /\ p.flight.frame \in Frames \cup {NoFrame}
  /\ \A s \in {offered, freed, leaked, in_use} : s \subseteq Frames
  /\ revoked \subseteq Epochs
  /\ now \in 0 .. MaxTime

\* No surface goes back to its pool while the renderer may read it, whatever
\* the renderer did with the hand-over.
NoUseAfterRelease == in_use \cap freed = {}

\* The renderer holds at most one surface whose completion is still awaited.
OneInFlight == Cardinality(in_use \ leaked) <= 1

\* Every decoded frame is in exactly one place: queued, with the renderer,
\* given back, or leaked because the renderer broke its contract.
SurfacesAccounted ==
  LET flying == IF p.flight = NoFlight THEN {} ELSE {p.flight.frame}
      places == <<Queued(p), flying, freed, leaked>>
  IN  /\ offered = UNION {places[i] : i \in DOMAIN places}
      /\ \A i, j \in DOMAIN places : i # j => places[i] \cap places[j] = {}

Before(f, g) == f.epoch < g.epoch \/ (f.epoch = g.epoch /\ f.id < g.id)

\* Between two resets the renderer sees frames in increasing order of epoch
\* and identifier, so an older picture never replaces a newer one.
ShownInOrder == \A i \in 1 .. Len(shown) - 1 : Before(shown[i], shown[i + 1])

\* A frame reaches the renderer only before its deadline and while its epoch
\* is authorized.
LiveWhenShown ==
  (in_use' \ in_use) \subseteq
    {f \in Frames : f.deadline > now /\ f.epoch \notin revoked}
=============================================================================
