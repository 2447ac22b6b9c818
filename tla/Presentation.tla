----------------------------- MODULE Presentation ----------------------------
(***************************************************************************)
(* PresentationQueue and PresentationCoordinator (crates/platform): the    *)
(* newest decoded frame waits in a queue, at most one frame is with the    *)
(* native renderer, and a surface is given back only when the renderer is  *)
(* proved to be done with it.                                              *)
(*                                                                         *)
(* The operators work on a coordinator record so that the client runtime   *)
(* can compose them.  A frame is [epoch, id, deadline]; its epoch stands   *)
(* for the pair (display epoch, codec epoch) in its lexicographic order,   *)
(* and 0 is no epoch.  A step tells which frames' surfaces it gives back.  *)
(***************************************************************************)
EXTENDS Integers, Sequences, FiniteSets

CONSTANT Capacity          \* of the queue; the coordinator uses 1

NoFrame == [epoch |-> 0, id |-> 0, deadline |-> 0]
NoFlight == [state |-> "none", frame |-> NoFrame]
NewCoordinator == [items |-> <<>>, epoch |-> 0, id |-> 0, flight |-> NoFlight]

Queued(p) == {p.items[i] : i \in DOMAIN p.items}

\* InFlightPresentation::requires_quiesce
RequiresQuiesce(p) == p.flight.state \in {"unproven", "handoff"}

\* Faulty: only the identifier is compared.
StaleById(p, f) == f.id <= p.id

Stale(p, f) == f.epoch < p.epoch \/ (f.epoch = p.epoch /\ f.id <= p.id)

\* PresentationQueue::push of a frame that is neither expired nor stale: a
\* newer epoch empties the queue, a full queue loses its oldest frame.
Push(p, f) ==
  LET kept == IF p.epoch # 0 /\ f.epoch > p.epoch THEN <<>> ELSE p.items
  IN  [p EXCEPT !.items = Append(IF Len(kept) = Capacity THEN Tail(kept) ELSE kept, f),
                !.epoch = f.epoch, !.id = f.id]

\* PresentationCoordinator::submit refuses a frame that would change epochs
\* under the renderer; the queue drops an invalid, expired or stale one.
Submittable(p, f) ==
  /\ ~RequiresQuiesce(p)
  /\ ~(p.flight.state = "submitted" /\ f.epoch > p.flight.frame.epoch)

Submitted(p, f, now, valid) ==
  LET q == IF Submittable(p, f) /\ valid /\ f.deadline > now /\ ~Stale(p, f)
           THEN Push(p, f) ELSE p
  IN  [p |-> q, freed |-> (Queued(p) \cup {f}) \ Queued(q), ok |-> Submittable(p, f) /\ valid]

Live(p, now) == SelectSeq(p.items, LAMBDA f : f.deadline > now)

\* present_next: the newest live frame goes to the renderer, everything else
\* queued is dropped.  The renderer accepts it, rejects it untouched, returns
\* another lease, or panics.
Presents == {"accept", "reject", "mismatch", "panic"}

CanPresent(p) == p.flight.state = "none"

PresentedNext(p, now, valid, answer) ==
  LET live == Live(p, now)
      newest == live[Len(live)]
      q == [p EXCEPT !.items = <<>>]
      handed == CanPresent(p) /\ live # <<>> /\ valid
  IN  CASE ~CanPresent(p) ->
             [p |-> p, freed |-> {}, shown |-> NoFrame, ok |-> ~RequiresQuiesce(p)]
        [] CanPresent(p) /\ ~handed ->
             [p |-> q, freed |-> Queued(p), shown |-> NoFrame, ok |-> live = <<>>]
        [] handed /\ answer = "reject" ->
             [p |-> q, freed |-> Queued(p), shown |-> NoFrame, ok |-> FALSE]
        [] handed /\ answer # "reject" ->
             [p     |-> [q EXCEPT !.flight =
                           [state |-> CASE answer = "accept" -> "submitted"
                                        [] answer = "mismatch" -> "unproven"
                                        [] answer = "panic" -> "handoff",
                            frame |-> newest]],
              freed |-> Queued(p) \ {newest},
              shown |-> newest,
              ok    |-> answer = "accept"]

\* poll_present_completion: only a proved completion frees the surface.
Completed(p) == [p |-> [p EXCEPT !.flight = NoFlight], freed |-> {p.flight.frame}]

\* Faulty: every in-flight surface is given back after quiescence.
FinalizedAll(p) == {p.flight.frame}

\* finalize_after_quiesce: an unproven surface is leaked, not given back.
Finalized(p) == IF p.flight.state = "submitted" THEN {p.flight.frame} ELSE {}

\* cancel_in_flight once the renderer has quiesced.
Cancelled(p) ==
  [p     |-> [p EXCEPT !.flight = NoFlight],
   freed |-> IF p.flight = NoFlight THEN {} ELSE Finalized(p)]

\* reset_continuity
ResetTo(p, epoch) ==
  [p |-> [p EXCEPT !.items = <<>>, !.epoch = epoch, !.id = 0], freed |-> Queued(p)]

\* shutdown: nothing is given up before the renderer is quiet.
ShutDown(p, quiesced) ==
  IF p.flight # NoFlight /\ ~quiesced THEN [p |-> p, freed |-> {}]
  ELSE [p |-> ResetTo(Cancelled(p).p, 0).p, freed |-> Cancelled(p).freed \cup Queued(p)]
=============================================================================
