---------------------------- MODULE InputReconciler --------------------------
(***************************************************************************)
(* InputReconciler (crates/input): what one input message does to the      *)
(* receiver's record of held keys and buttons, and the platform actions it *)
(* yields.                                                                 *)
(*                                                                         *)
(* A control is a key or a button, numbered in the order in which          *)
(* reconcile_snapshot visits them.  Events that hold nothing (motion,      *)
(* wheel) are one event "motion".  Option is the sentinel 0: epochs and    *)
(* sequence numbers of messages start at 1.                                *)
(*                                                                         *)
(* SessionAuthority (crates/session/src/runtime.rs) owns such a ledger.    *)
(* It is the gate both runtimes ask before native work, and gives the      *)
(* ledger away exactly once, when it closes.  The stamp of an authority    *)
(* never changes, so within one authority a permit is stale only when the  *)
(* authority is closed or expired.                                         *)
(***************************************************************************)
EXTENDS Integers, Sequences, FiniteSets, SequencesExt

CONSTANT Controls

ASSUME ControlsAssumption == IsFiniteSet(Controls) /\ Controls \subseteq Nat \ {0}

None == 0

Fresh == [epoch |-> None, retired |-> FALSE, last |-> None, held |-> {}]

Reconcilers(epochs, seqs) ==
  [epoch: epochs \cup {None}, retired: BOOLEAN, last: seqs \cup {None}, held: SUBSET Controls]

\* The events of a sender that holds `held`.
Events ==
  [kind: {"press", "release"}, control: Controls]
    \cup [kind: {"snapshot"}, held: SUBSET Controls]
    \cup {[kind |-> "release_all"], [kind |-> "motion"]}

Motion == [control |-> None, pressed |-> FALSE]

\* reconcile_snapshot: the actions that turn held into want.
Diff(held, want) ==
  LET changed == SetToSortSeq((held \ want) \cup (want \ held), <)
  IN  [i \in DOMAIN changed |-> [control |-> changed[i], pressed |-> changed[i] \in want]]

\* Faulty: a snapshot adds to what is held.
HeldAfterMerge(held, event) ==
  CASE event.kind = "press" -> held \cup {event.control}
    [] event.kind = "release" -> held \ {event.control}
    [] event.kind = "snapshot" -> held \cup event.held
    [] event.kind = "release_all" -> {}
    [] event.kind = "motion" -> held

\* What the sender holds after the event, as apply_fresh records it.
HeldAfter(held, event) ==
  CASE event.kind = "press" -> held \cup {event.control}
    [] event.kind = "release" -> held \ {event.control}
    [] event.kind = "snapshot" -> event.held
    [] event.kind = "release_all" -> {}
    [] event.kind = "motion" -> held

\* apply_fresh: nothing is emitted for a control already in the wanted state.
ActionsOf(held, event) ==
  IF event.kind = "motion" THEN <<Motion>> ELSE Diff(held, HeldAfter(held, event))

StaleEpoch(r, m) == m.epoch < r.epoch \/ (r.retired /\ m.epoch = r.epoch)

\* A message of a newer epoch first releases everything.
Bumped(r, m) ==
  [r    |-> [epoch |-> m.epoch, retired |-> FALSE, last |-> m.seq,
             held |-> HeldAfter({}, m.event)],
   acts |-> Diff(r.held, {}) \o ActionsOf({}, m.event)]

\* Faulty: a message may be applied again.
StaleSequenceStrict(r, m) == m.seq < r.last

StaleSequence(r, m) == m.seq <= r.last

\* InputReconciler::apply.
Applied(r, m) ==
  CASE StaleEpoch(r, m) -> [r |-> r, acts |-> <<>>]
    [] ~StaleEpoch(r, m) /\ r.epoch # None /\ m.epoch > r.epoch -> Bumped(r, m)
    [] ~StaleEpoch(r, m) /\ r.epoch \in {None, m.epoch} ->
         IF StaleSequence(r, m)
         THEN [r |-> r, acts |-> <<>>]
         ELSE [r    |-> [epoch |-> m.epoch, retired |-> FALSE, last |-> m.seq,
                         held |-> HeldAfter(r.held, m.event)],
               acts |-> ActionsOf(r.held, m.event)]

\* disconnect_release_plan
Disconnected(r) ==
  [r    |-> [r EXCEPT !.held = {}, !.retired = r.epoch # None, !.last = None],
   acts |-> Diff(r.held, {})]

\* release_all_plan
Unfocused(r) == [r |-> [r EXCEPT !.held = {}], acts |-> Diff(r.held, {})]

\* What a platform that executes the actions holds afterwards.
Performed(native, acts) ==
  FoldLeft(LAMBDA h, a : IF a = Motion THEN h
                         ELSE IF a.pressed THEN h \cup {a.control} ELSE h \ {a.control},
           native, acts)

-----------------------------------------------------------------------------
Capabilities == {"view", "input"}

\* SessionAuthority::new with a fresh InputLedger.
NewAuthority(capabilities, deadline) ==
  [capabilities |-> capabilities, deadline |-> deadline, open |-> TRUE, ledger |-> Fresh]

\* ensure_dispatchable, which acquire_dispatch and recheck consist of.
Dispatchable(a, now) ==
  /\ a.open
  /\ now < a.deadline
  /\ "view" \in a.capabilities

\* apply_input refuses without the input capability.
MayInput(a, now) == Dispatchable(a, now) /\ "input" \in a.capabilities

\* close: the ledger is handed over and its release plan retires it.
ClosedAuthority(a) == [a EXCEPT !.open = FALSE, !.ledger = Disconnected(a.ledger).r]

\* InputLedger::release_plan
ReleasePlan(a) == Disconnected(a.ledger).acts
=============================================================================
