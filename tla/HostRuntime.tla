----------------------------- MODULE HostRuntime -----------------------------
(***************************************************************************)
(* HostRuntime (crates/runtime): one session on the host, from pairing to   *)
(* teardown.  Its caller polls capture and the encoder and hands it input   *)
(* records; every provider call may fail.                                  *)
(*                                                                         *)
(* A call takes no model time.  The permit stored with an encode is        *)
(* rechecked when the encode completes, possibly after the deadline.       *)
(***************************************************************************)
EXTENDS InputReconciler

CONSTANTS SessionDeadline, \* session_deadline_ns
          Messages,        \* input records: [epoch, seq, event]
          MaxSent,         \* bound on frames of one session
          MaxTime

ASSUME RuntimeAssumption ==
  /\ SessionDeadline \in Nat \ {0}
  /\ MaxSent \in Nat \ {0}
  /\ MaxTime \in Nat
  /\ \A m \in Messages : m.epoch \in Nat \ {0} /\ m.seq \in Nat \ {0} /\ m.event \in Events

VARIABLES
  progress,
  session,        \* SessionAuthority
  in_flight,      \* an encode submission is held
  capturing,      \* the capture provider runs
  native,         \* controls down in the operating system
  sent,           \* frames handed to the transport
  failed,         \* teardown steps that reported an error
  forgotten,      \* controls whose release was recorded but not injected
  now

providers == <<in_flight, capturing, native>>
vars == <<progress, session, providers, sent, failed, forgotten, now>>

Progress == {"PairingPending", "AwaitingLocalApproval", "Streaming", "Recovering",
             "Closing", "Closed"}

Init ==
  /\ progress = "PairingPending"
  /\ session \in {NewAuthority(c, SessionDeadline) : c \in SUBSET Capabilities}
  /\ in_flight = FALSE
  /\ capturing = FALSE
  /\ native = {}
  /\ sent = 0
  /\ failed = {}
  /\ forgotten = {}
  /\ now = 0

\* InputBackend::release_all executes the plan up to its first failure.
Released(down, plan, count) == Performed(down, SubSeq(plan, 1, count))

\* drain_encoder: a submission is given back only after the encoder is quiet.
Drain(submitted, quiesced) == submitted /\ ~quiesced

\* Faulty: a failing release stops the teardown.
TeardownUpTo(step, results) ==
  results[step] /\ (step \in {"quiesce", "stop"} => results["release"])

\* Every teardown step is attempted whatever became of the others.
Teardown(step, results) == results[step]

\* close_inner, called while the encoder holds `submitted` and the operating
\* system `down`, with the ledger as in `authority`.
CloseInner(next, authority, submitted, down) ==
  IF ~authority.open
  THEN /\ progress' = "Closing"
       /\ session' = authority
       /\ in_flight' = submitted
       /\ native' = down
       /\ UNCHANGED <<capturing, failed>>
  ELSE LET plan == ReleasePlan(authority)
       IN \E results \in [{"release", "quiesce", "stop"} -> BOOLEAN], count \in 0 .. Len(plan) :
            /\ results["release"] <=> count = Len(plan)
            /\ progress' = next
            /\ session' = ClosedAuthority(authority)
            /\ native' = Released(down, plan, count)
            /\ in_flight' = Drain(submitted, Teardown("quiesce", results))
            /\ capturing' = (capturing /\ ~Teardown("stop", results))
            /\ failed' = {step \in DOMAIN results : ~results[step]}

Recover == CloseInner("Recovering", session, in_flight, native)

-----------------------------------------------------------------------------
AwaitLocalApproval ==
  /\ progress = "PairingPending"
  /\ progress' = "AwaitingLocalApproval"
  /\ UNCHANGED <<session, providers, sent, failed, forgotten, now>>

\* Without a permit activate returns an error and changes nothing.
Activate ==
  /\ progress \in {"PairingPending", "AwaitingLocalApproval"}
  /\ Dispatchable(session, now)
  /\ \/ /\ progress' = "Streaming"
        /\ capturing' = TRUE
        /\ UNCHANGED <<session, in_flight, native, failed>>
     \/ Recover
  /\ UNCHANGED <<sent, forgotten, now>>

\* A frame of the session's display epoch is submitted; anything else the
\* provider reports, a failing call included, ends in recovery or closure.
PollCapture ==
  /\ progress = "Streaming"
  /\ ~in_flight
  /\ \/ /\ Dispatchable(session, now)
        /\ sent < MaxSent
        /\ in_flight' = TRUE
        /\ UNCHANGED <<progress, session, capturing, native, failed>>
     \/ Recover
     \/ /\ Dispatchable(session, now)
        /\ CloseInner("Closed", session, in_flight, native)
  /\ UNCHANGED <<sent, forgotten, now>>

\* Faulty: the permit acquired at submission is trusted at completion.
PollEncodeCompletionTrusting ==
  /\ progress = "Streaming"
  /\ in_flight
  /\ in_flight' = FALSE
  /\ sent' = sent + 1
  /\ UNCHANGED <<progress, session, capturing, native, failed, forgotten, now>>

\* The permit is rechecked before the surface is released and the media sent.
\* A failure after that finds no submission to drain.
PollEncodeCompletion ==
  /\ progress = "Streaming"
  /\ in_flight
  /\ \/ /\ Recover
        /\ UNCHANGED sent
     \/ /\ Dispatchable(session, now)
        /\ \/ /\ in_flight' = FALSE
              /\ sent' = sent + 1
              /\ UNCHANGED <<progress, session, capturing, native, failed>>
           \/ /\ CloseInner("Recovering", session, FALSE, native)
              /\ UNCHANGED sent
  /\ UNCHANGED <<forgotten, now>>

\* The ledger changes first, then `done` actions are injected; a failing
\* injection ends in recovery, whose plan comes from the changed ledger.
IngestInput(m) ==
  /\ progress = "Streaming"
  /\ IF ~Dispatchable(session, now)
     THEN Recover /\ UNCHANGED forgotten
     ELSE /\ MayInput(session, now)
          /\ LET out == Applied(session.ledger, m)
             IN  \E done \in 0 .. Len(out.acts) :
                   LET authority == [session EXCEPT !.ledger = out.r]
                       down == Performed(native, SubSeq(out.acts, 1, done))
                   IN  IF done = Len(out.acts)
                       THEN /\ session' = authority
                            /\ native' = down
                            /\ UNCHANGED <<progress, in_flight, capturing, failed, forgotten>>
                       ELSE /\ CloseInner("Recovering", authority, in_flight, down)
                            /\ forgotten' = down \ out.r.held
  /\ UNCHANGED <<sent, now>>

\* close: in Recovering everything was already attempted.
Close ==
  /\ progress # "Closed"
  /\ IF progress = "Recovering"
     THEN progress' = "Closed" /\ UNCHANGED <<session, providers, failed>>
     ELSE CloseInner("Closed", session, in_flight, native)
  /\ UNCHANGED <<sent, forgotten, now>>

Tick ==
  /\ now < MaxTime
  /\ now' = now + 1
  /\ UNCHANGED <<progress, session, providers, sent, failed, forgotten>>

Next ==
  \/ AwaitLocalApproval
  \/ Activate
  \/ PollCapture
  \/ PollEncodeCompletion
  \/ \E m \in Messages : IngestInput(m)
  \/ Close
  \/ Tick

Spec == Init /\ [][Next]_vars
-----------------------------------------------------------------------------
HostTypeOK ==
  /\ progress \in Progress
  /\ session.capabilities \subseteq Capabilities
  /\ session.open \in BOOLEAN
  /\ session.ledger \in Reconcilers({m.epoch : m \in Messages}, {m.seq : m \in Messages})
  /\ in_flight \in BOOLEAN
  /\ capturing \in BOOLEAN
  /\ native \subseteq Controls
  /\ sent \in 0 .. MaxSent
  /\ failed \subseteq {"release", "quiesce", "stop"}
  /\ forgotten \subseteq Controls
  /\ now \in 0 .. MaxTime

TornDown == progress \in {"Recovering", "Closed"}

\* The ledger is handed over exactly when the runtime leaves the session, so
\* close_inner never finds it gone and no caller ever sees Closing.
LedgerHandedOverOnce ==
  /\ progress # "Closing"
  /\ session.open <=> ~TornDown

\* After teardown no provider still works for the session except one whose own
\* teardown step reported an error; one failing step does not spare the others.
TeardownCoversProviders ==
  TornDown =>
    /\ in_flight => "quiesce" \in failed
    /\ capturing => "stop" \in failed

\* After a teardown whose release step succeeded, no control is down, except
\* one whose release the platform had refused before.
HeldInputReleased == TornDown /\ "release" \notin failed => native \subseteq forgotten

\* The documented promise of close, without that exception.
AllInputReleased == TornDown /\ "release" \notin failed => native = {}

\* While a session streams, what is down is what the ledger knows of, so a
\* teardown at any moment has a complete plan.
LedgerCoversNative == progress = "Streaming" => native \subseteq session.ledger.held

\* Together, what a teardown at any moment leaves behind.
HostInv ==
  HostTypeOK /\ LedgerHandedOverOnce /\ TeardownCoversProviders /\ HeldInputReleased
    /\ LedgerCoversNative

\* Media leaves and controls go down only under a live authority that grants
\* them, however long ago the encode was submitted.
UnderAuthority ==
  /\ sent' # sent => now < session.deadline /\ "view" \in session.capabilities
  /\ native' \ native # {} => now < session.deadline /\ session.capabilities = Capabilities

\* A session that was left streams no more: its authority stays closed and
\* nothing is pressed, submitted or sent any more.
StaysDown ==
  TornDown =>
    /\ progress' \in {progress, "Closed"}
    /\ session' = session
    /\ <<providers, sent>>' = <<providers, sent>>

\* Both: no work without authority, and none after it.
WorkAuthorized == [][UnderAuthority /\ StaysDown]_vars
=============================================================================
