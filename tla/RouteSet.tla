------------------------------ MODULE RouteSet ------------------------------
(***************************************************************************)
(* ProductRouteSet (crates/socket-transport/src/product.rs): two peers that *)
(* hold the same two authenticated connections and move the application     *)
(* from one to the other.  Prepare, Prepared and Commit travel on one       *)
(* connection, Activated and Confirmed on the connection to activate; a     *)
(* timer, a cancelled call, a lost connection or a protocol violation ends  *)
(* in closing both.                                                         *)
(*                                                                         *)
(* A connection carries one ordered control stream and one input stream in  *)
(* each direction.  A peer sees its own end of a connection: it may still   *)
(* read what arrived before it learns that the other end is closed.         *)
(* The digests of a transition name the route it activates (`target`).      *)
(***************************************************************************)
EXTENDS Integers, Sequences

CONSTANTS Peers,          \* the two ends
          Initiators,     \* the ends whose application starts transitions
          Faults,         \* which of "loss", "cancel", "expiry", "input" may happen
          OneAtATime,     \* applications finish a transition before the next one
          MaxEpoch        \* bound on the route epoch

VARIABLES
  session,    \* ProductSession of a peer on a route: [epoch, seq, auth, wire, msg, open]
  set,        \* ProductRouteSet of a peer: [active, trans, act, commit, step]
  armed,      \* the transition timer runs
  firing,     \* the timer has elapsed and is about to close the routes
  expired,    \* history: the timer has closed the routes
  stream,     \* control records a peer sent on a route, not read yet
  input       \* stamp of the input record a peer sent on a route, 0 for none

vars == <<session, set, armed, firing, expired, stream, input>>

Routes == {0, 1}
NoRoute == 2
Other(p) == CHOOSE q \in Peers : q # p

Stages == {"Prepare", "Prepared", "Commit", "Activated", "Confirmed"}
Message(stage, seq, base, target) ==
  [stage |-> stage, seq |-> seq, base |-> base, target |-> target]
NoMessage == Message("Prepare", 0, 0, 0)

\* same_route_transition
SameTransition(m, n) == [m EXCEPT !.stage = n.stage] = n

\* RouteWireState and RouteActivationState by name, their message apart
WireStates == {"Idle", "PrepareSent", "PrepareReceived", "PreparedSent", "PreparedReceived"}
Activations == {"Idle", "AwaitingActivated", "AwaitingConfirmed"}

\* The points between two effects of one call of the route set: before the
\* epoch advances (Committing), before Activated or Confirmed is written
\* (Activating, Confirming) and before authority moves (Switching, Finishing).
Steps == {"Ready", "Committing", "Activating", "Switching", "Confirming", "Finishing"}

Init ==
  /\ session = [p \in Peers |-> [c \in Routes |->
                  [epoch |-> 1, seq |-> 0, auth |-> c = 0, wire |-> "Idle",
                   msg |-> NoMessage, open |-> TRUE]]]
  /\ set = [p \in Peers |-> [active |-> 0, trans |-> NoRoute, act |-> "Idle",
                             commit |-> NoMessage, step |-> "Ready"]]
  /\ armed = [p \in Peers |-> FALSE]
  /\ firing = [p \in Peers |-> FALSE]
  /\ expired = [p \in Peers |-> FALSE]
  /\ stream = [p \in Peers |-> [c \in Routes |-> <<>>]]
  /\ input = [p \in Peers |-> [c \in Routes |-> 0]]

Standby(p) == 1 - set[p].active
Dead(p) == \A c \in Routes : ~session[p][c].open

-----------------------------------------------------------------------------
(* Effects on the sessions of one peer. *)

\* What the operation guard, the timer and close do to both routes.
Revoked(p) ==
  [session EXCEPT ![p] = [c \in Routes |-> [@[c] EXCEPT !.auth = FALSE, !.open = FALSE]]]

\* The guard of an operation that fails or is dropped.
FailClosed(p) ==
  /\ session' = Revoked(p)
  /\ set' = [set EXCEPT ![p].step = "Ready"]

\* Faulty: only the first route advances.
SynchronizedFirst(ss, m) == [ss EXCEPT ![0].epoch = m.base + 1, ![0].seq = m.seq]

\* synchronize_route_epochs
Synchronized(ss, m) ==
  [c \in Routes |-> [ss[c] EXCEPT !.epoch = m.base + 1, !.seq = m.seq]]

\* activate_prepared_route
Activated(ss, previous) ==
  [ss EXCEPT ![previous].auth = FALSE, ![1 - previous].auth = TRUE]

\* A record carries the stamp of its sender's session on that route.
Written(p, c, m) ==
  [stream EXCEPT ![p][c] = Append(@, [msg |-> m, stamp |-> session[p][c].epoch])]

Read(p, c) == [stream EXCEPT ![Other(p)][c] = Tail(@)]
Readable(p, c) == session[p][c].open /\ stream[Other(p)][c] # <<>>
Incoming(p, c) == Head(stream[Other(p)][c])

\* RouteWireState::received
Receivable(s, m) ==
  \/ m.stage = "Prepare" /\ s.wire = "Idle"
  \/ m.stage = "Prepared" /\ s.wire = "PrepareSent" /\ SameTransition(m, s.msg)
  \/ m.stage = "Commit" /\ s.wire = "PreparedSent" /\ SameTransition(m, s.msg)

\* next_control_private_inner and next_route_transition_inner
Acceptable(p, c, r) ==
  /\ r.stamp = session[p][c].epoch
  /\ r.msg.target = Standby(p)
  /\ r.msg.base = session[p][c].epoch
  /\ r.msg.stage = "Prepare" => r.msg.seq = session[p][c].seq + 1
  /\ Receivable(session[p][c], r.msg)

\* ControlReceiver::next_route_activation: the record completes this Commit.
Completes(p, c, r, stage) ==
  /\ r.stamp = session[p][c].epoch
  /\ r.msg = [set[p].commit EXCEPT !.stage = stage]

-----------------------------------------------------------------------------
(* The initiator. *)

MayStart(p) ==
  /\ p \in Initiators
  /\ set[p].step = "Ready" /\ set[p].trans = NoRoute
  /\ OneAtATime => set[p].act = "Idle"
  /\ session[p][0].epoch < MaxEpoch

\* Faulty: no timer is armed.
StartOnUntimed(p, c) ==
  LET s == session[p][c]
      m == Message("Prepare", s.seq + 1, s.epoch, Standby(p))
  IN  IF s.open /\ s.wire = "Idle"
      THEN /\ session' = [session EXCEPT ![p][c].wire = "PrepareSent", ![p][c].msg = m]
           /\ set' = [set EXCEPT ![p].trans = c]
           /\ stream' = Written(p, c, m)
           /\ UNCHANGED armed
      ELSE FailClosed(p) /\ UNCHANGED <<armed, stream>>

\* Prepare goes out on route c and the timer is armed.
StartOn(p, c) ==
  LET s == session[p][c]
      m == Message("Prepare", s.seq + 1, s.epoch, Standby(p))
  IN  IF s.open /\ s.wire = "Idle"
      THEN /\ session' = [session EXCEPT ![p][c].wire = "PrepareSent", ![p][c].msg = m]
           /\ set' = [set EXCEPT ![p].trans = c]
           /\ stream' = Written(p, c, m)
           /\ armed' = [armed EXCEPT ![p] = TRUE]
      ELSE FailClosed(p) /\ UNCHANGED <<armed, stream>>

\* send_route_transition(Prepare)
SendPrepare(p) ==
  /\ MayStart(p) /\ ~Dead(p)
  /\ StartOn(p, set[p].active)
  /\ UNCHANGED <<firing, expired, input>>

\* send_rollback_via_retained
SendRollback(p) ==
  /\ MayStart(p) /\ ~Dead(p)
  /\ set[p].act = "Idle"
  /\ ~session[p][set[p].active].auth
  /\ StartOn(p, Standby(p))
  /\ UNCHANGED <<firing, expired, input>>

\* send_route_transition(Commit): the record is written ...
SendCommit(p) ==
  LET c == set[p].trans
  IN  /\ set[p].step = "Ready" /\ c # NoRoute
      /\ session[p][c].wire = "PreparedReceived"
      /\ IF session[p][c].open
         THEN /\ set' = [set EXCEPT ![p].step = "Committing"]
              /\ stream' = Written(p, c, [session[p][c].msg EXCEPT !.stage = "Commit"])
              /\ UNCHANGED session
         ELSE ~Dead(p) /\ FailClosed(p) /\ UNCHANGED stream
      /\ UNCHANGED <<armed, firing, expired, input>>

\* ... then the epoch advances on both routes; authority stays where it is.
CommitSent(p) ==
  LET c == set[p].trans
      m == session[p][c].msg
  IN  /\ set[p].step = "Committing"
      /\ session' = [session EXCEPT ![p] =
                       [Synchronized(@, m) EXCEPT ![c].wire = "Idle"]]
      /\ set' = [set EXCEPT ![p] = [@ EXCEPT !.step = "Ready", !.trans = NoRoute,
                                             !.act = "AwaitingActivated", !.commit = m]]
      /\ UNCHANGED <<armed, firing, expired, stream, input>>

\* next_route_activation: Activated arrives on the route to activate ...
NextActivation(p) ==
  LET c == Standby(p)
      r == Incoming(p, c)
  IN  /\ set[p].step = "Ready" /\ set[p].act = "AwaitingActivated"
      /\ Readable(p, c)
      /\ stream' = Read(p, c)
      /\ IF Completes(p, c, r, "Activated")
         THEN /\ set' = [set EXCEPT ![p].step = "Confirming"]
              /\ UNCHANGED session
         ELSE FailClosed(p)
      /\ UNCHANGED <<armed, firing, expired, input>>

\* ... Confirmed is written ...
SendConfirmed(p) ==
  LET c == Standby(p)
  IN  /\ set[p].step = "Confirming"
      /\ IF session[p][c].open
         THEN /\ set' = [set EXCEPT ![p].step = "Finishing"]
              /\ stream' = Written(p, c, [set[p].commit EXCEPT !.stage = "Confirmed"])
              /\ UNCHANGED session
         ELSE FailClosed(p) /\ UNCHANGED stream
      /\ UNCHANGED <<armed, firing, expired, input>>

\* ... and authority moves; the timer is disarmed.
Finish(p) ==
  /\ set[p].step = "Finishing"
  /\ session' = [session EXCEPT ![p] = Activated(@, set[p].active)]
  /\ set' = [set EXCEPT ![p] = [@ EXCEPT !.step = "Ready", !.act = "Idle",
                                         !.active = Standby(p)]]
  /\ armed' = [armed EXCEPT ![p] = FALSE]
  /\ UNCHANGED <<firing, expired, stream, input>>

-----------------------------------------------------------------------------
(* The responder. *)

\* A Prepare on the standby route revokes the active one.
OnPrepare(p, c, m) ==
  /\ session' = [session EXCEPT
                   ![p][c].wire = "PrepareReceived", ![p][c].msg = m,
                   ![p][set[p].active].auth = @ /\ c = set[p].active]
  /\ set' = [set EXCEPT ![p].trans = c]
  /\ armed' = [armed EXCEPT ![p] = TRUE]

OnPrepared(p, c, m) ==
  /\ session' = [session EXCEPT ![p][c].wire = "PreparedReceived", ![p][c].msg = m]
  /\ UNCHANGED <<set, armed>>

OnCommit(p, c, m) ==
  /\ session' = [session EXCEPT ![p] = [Synchronized(@, m) EXCEPT ![c].wire = "Idle"]]
  /\ set' = [set EXCEPT ![p] = [@ EXCEPT !.step = "Activating", !.commit = m]]
  /\ UNCHANGED armed

\* next_route_transition on the control receiver of route c.  A receiver of
\* another route than the running transition's is refused without effect.
NextTransition(p, c) ==
  LET r == Incoming(p, c)
  IN  /\ set[p].step = "Ready"
      /\ set[p].trans \in {NoRoute, c}
      /\ OneAtATime => set[p].act = "Idle"
      /\ Readable(p, c)
      /\ stream' = Read(p, c)
      /\ IF /\ c = set[p].active => session[p][c].auth
            /\ Acceptable(p, c, r)
         THEN CASE r.msg.stage = "Prepare" -> OnPrepare(p, c, r.msg)
                [] r.msg.stage = "Prepared" -> OnPrepared(p, c, r.msg)
                [] r.msg.stage = "Commit" -> OnCommit(p, c, r.msg)
         ELSE FailClosed(p) /\ UNCHANGED armed
      /\ UNCHANGED <<firing, expired, input>>

\* send_route_transition(Prepared)
SendPrepared(p) ==
  LET c == set[p].trans
      m == [session[p][c].msg EXCEPT !.stage = "Prepared"]
  IN  /\ set[p].step = "Ready" /\ c # NoRoute
      /\ session[p][c].wire = "PrepareReceived"
      /\ IF session[p][c].open
         THEN /\ session' = [session EXCEPT ![p][c].wire = "PreparedSent", ![p][c].msg = m]
              /\ stream' = Written(p, c, m)
              /\ UNCHANGED set
         ELSE ~Dead(p) /\ FailClosed(p) /\ UNCHANGED stream
      /\ UNCHANGED <<armed, firing, expired, input>>

\* After a Commit: Activated is written on the route to activate ...
SendActivated(p) ==
  LET c == Standby(p)
  IN  /\ set[p].step = "Activating"
      /\ IF session[p][c].open
         THEN /\ set' = [set EXCEPT ![p].step = "Switching"]
              /\ stream' = Written(p, c, [set[p].commit EXCEPT !.stage = "Activated"])
              /\ UNCHANGED session
         ELSE FailClosed(p) /\ UNCHANGED stream
      /\ UNCHANGED <<armed, firing, expired, input>>

\* ... and authority moves.
Switch(p) ==
  /\ set[p].step = "Switching"
  /\ session' = [session EXCEPT ![p] = Activated(@, set[p].active)]
  /\ set' = [set EXCEPT ![p] = [@ EXCEPT !.step = "Ready", !.trans = NoRoute,
                                         !.act = "AwaitingConfirmed", !.active = Standby(p)]]
  /\ UNCHANGED <<armed, firing, expired, stream, input>>

\* next_route_confirmation
NextConfirmation(p) ==
  LET c == set[p].active
      r == Incoming(p, c)
  IN  /\ set[p].step = "Ready" /\ set[p].act = "AwaitingConfirmed"
      /\ Readable(p, c)
      /\ stream' = Read(p, c)
      /\ IF Completes(p, c, r, "Confirmed")
         THEN /\ set' = [set EXCEPT ![p].act = "Idle"]
              /\ armed' = [armed EXCEPT ![p] = FALSE]
              /\ UNCHANGED session
         ELSE FailClosed(p) /\ UNCHANGED armed
      /\ UNCHANGED <<firing, expired, input>>

-----------------------------------------------------------------------------
(* What may go wrong, and the application's traffic. *)

\* A pending call is dropped, or fails because its connection is gone.
Cancel(p) ==
  /\ "cancel" \in Faults
  /\ set[p].step \in {"Ready", "Committing", "Activating", "Confirming"}
  /\ ~Dead(p)
  /\ FailClosed(p)
  /\ UNCHANGED <<armed, firing, expired, stream, input>>

\* The timer task of arm_transition_timeout finds its ticket current ...
TimerElapses(p) ==
  /\ "expiry" \in Faults
  /\ armed[p]
  /\ armed' = [armed EXCEPT ![p] = FALSE]
  /\ firing' = [firing EXCEPT ![p] = TRUE]
  /\ UNCHANGED <<session, set, expired, stream, input>>

\* ... and closes both routes, whatever happened in between.
TimerCloses(p) ==
  /\ firing[p]
  /\ firing' = [firing EXCEPT ![p] = FALSE]
  /\ expired' = [expired EXCEPT ![p] = TRUE]
  /\ session' = Revoked(p)
  /\ UNCHANGED <<set, armed, stream, input>>

\* fail_active_route
FailActiveRoute(p) ==
  /\ "loss" \in Faults
  /\ set[p].step = "Ready"
  /\ session[p][set[p].active].open
  /\ session' = [session EXCEPT ![p][set[p].active].auth = FALSE,
                                ![p][set[p].active].open = FALSE]
  /\ UNCHANGED <<set, armed, firing, expired, stream, input>>

\* close
Close(p) ==
  /\ "cancel" \in Faults
  /\ set[p].step = "Ready" /\ ~Dead(p)
  /\ session' = Revoked(p)
  /\ armed' = [armed EXCEPT ![p] = FALSE]
  /\ UNCHANGED <<set, firing, expired, stream, input>>

\* A connection is lost, or the peer's close arrives.
ConnectionLost(p, c) ==
  /\ session[p][c].open
  /\ "loss" \in Faults \/ ~session[Other(p)][c].open
  /\ session' = [session EXCEPT ![p][c].open = FALSE]
  /\ UNCHANGED <<set, armed, firing, expired, stream, input>>

\* send_input goes to the active route, if it is authorized.
SendInput(p) ==
  LET c == set[p].active
  IN  /\ "input" \in Faults
      /\ set[p].step = "Ready"
      /\ session[p][c].auth /\ session[p][c].open
      /\ input[p][c] = 0
      /\ input' = [input EXCEPT ![p][c] = session[p][c].epoch]
      /\ UNCHANGED <<session, set, armed, firing, expired, stream>>

\* Faulty: the stamp of a record is not compared with the session's.
NextInputUnfenced(p, c) ==
  LET q == Other(p)
  IN  /\ input[q][c] # 0 /\ session[p][c].open
      /\ input' = [input EXCEPT ![q][c] = 0]
      /\ UNCHANGED <<session, set, armed, firing, expired, stream>>

\* InputReceiver::next_input, concurrent with the calls of the route set.  An
\* unauthorized route refuses the record, a foreign stamp closes the connection.
NextInput(p, c) ==
  LET q == Other(p)
  IN  /\ input[q][c] # 0 /\ session[p][c].open
      /\ input' = [input EXCEPT ![q][c] = 0]
      /\ session' = [session EXCEPT ![p][c].open =
                       session[p][c].auth => input[q][c] = session[p][c].epoch]
      /\ UNCHANGED <<set, armed, firing, expired, stream>>

\* The record reaches the application.
InputAccepted(p, c) ==
  /\ input[Other(p)][c] # 0 /\ input'[Other(p)][c] = 0
  /\ session'[p][c].auth /\ session'[p][c].open

-----------------------------------------------------------------------------
Initiate(p) == SendPrepare(p) \/ SendRollback(p) \/ SendCommit(p) \/ CommitSent(p)
               \/ NextActivation(p) \/ SendConfirmed(p) \/ Finish(p)
Respond(p) == \/ \E c \in Routes : NextTransition(p, c)
              \/ SendPrepared(p) \/ SendActivated(p) \/ Switch(p) \/ NextConfirmation(p)
Timer(p) == TimerElapses(p) \/ TimerCloses(p)
Fault(p) == \/ Cancel(p) \/ FailActiveRoute(p) \/ Close(p)
            \/ \E c \in Routes : ConnectionLost(p, c)
Traffic(p) == SendInput(p) \/ \E c \in Routes : NextInput(p, c)

Next == \E p \in Peers : Initiate(p) \/ Respond(p) \/ Timer(p) \/ Fault(p) \/ Traffic(p)

Spec == Init /\ [][Next]_vars

\* The steps of a call that wait for nothing.
Unhindered(p) == CommitSent(p) \/ Switch(p) \/ Finish(p) \/ SendActivated(p) \/ SendConfirmed(p)

-----------------------------------------------------------------------------
RouteTypeOK ==
  /\ \A p \in Peers : \A c \in Routes :
       LET s == session[p][c]
       IN  /\ s.epoch \in 1 .. MaxEpoch /\ s.seq = s.epoch - 1
           /\ s.auth \in BOOLEAN /\ s.open \in BOOLEAN /\ s.wire \in WireStates
           /\ s.msg.stage \in Stages
           /\ input[p][c] \in 0 .. MaxEpoch
           /\ \A i \in DOMAIN stream[p][c] : stream[p][c][i].msg.stage \in Stages
  /\ \A p \in Peers : /\ set[p].active \in Routes /\ set[p].trans \in Routes \cup {NoRoute}
                      /\ set[p].act \in Activations /\ set[p].step \in Steps
  /\ armed \in [Peers -> BOOLEAN] /\ firing \in [Peers -> BOOLEAN]
  /\ expired \in [Peers -> BOOLEAN]

\* Only the active route of a peer carries application authority, so at most
\* one does, at every point of a promotion or rollback (ProductRouteSet).
OneAuthority == \A p \in Peers : \A c \in Routes : session[p][c].auth => c = set[p].active

\* The peers are never more than one epoch apart, and then one of them is inside
\* the Commit exchange or has closed; a peer's two routes always carry the same
\* epoch (synchronize_route_epochs).
EpochsTogether ==
  /\ \A p \in Peers : session[p][0].epoch = session[p][1].epoch
  /\ \A p, q \in Peers :
       session[p][0].epoch > session[q][0].epoch =>
         /\ session[p][0].epoch = session[q][0].epoch + 1
         /\ set[p].act = "AwaitingActivated" \/ set[q].step = "Committing" \/ Dead(q)

Settled(p) == set[p].step = "Ready" /\ set[p].act # "AwaitingActivated"
Serving(p) == \E c \in Routes : session[p][c].auth /\ session[p][c].open

\* Two peers that both serve the application, outside the activation barrier
\* and in the same epoch, serve it on the same route.
ServeTogether ==
  \A p, q \in Peers :
    Serving(p) /\ Serving(q) /\ Settled(p) /\ Settled(q)
      /\ session[p][0].epoch = session[q][0].epoch
    => set[p].active = set[q].active

\* A route that takes part in an unfinished transition is watched by the timer
\* until it is confirmed, or the peer has closed (arm_transition_timeout).
TransitionTimed ==
  \A p \in Peers :
    (set[p].trans # NoRoute \/ set[p].act # "Idle") /\ ~Dead(p) => armed[p] \/ firing[p]

\* Once the timer has revoked both routes none of them has authority again.
ExpiryRevokes == \A p \in Peers : expired[p] => \A c \in Routes : ~session[p][c].auth

\* An input record that reaches the application was sent in the receiver's
\* current epoch: what was sent before a promotion is never applied after it.
InputOfThisEpoch ==
  \A p \in Peers : \A c \in Routes :
    InputAccepted(p, c) => input[Other(p)][c] = session[p][c].epoch

\* Authority is gained only by activating another route in a newer epoch than
\* the one it was last held in: a rollback never revives the old route number.
GainedByActivation ==
  \A p \in Peers : \A c \in Routes :
    ~session[p][c].auth /\ session'[p][c].auth =>
      /\ set[p].step \in {"Switching", "Finishing"} /\ set'[p].active # set[p].active
      /\ session'[p][c].epoch = set[p].commit.base + 1

\* Every transition ends: confirmed, or with the peer closed, whatever is lost
\* or cancelled on the way.
TransitionEnds(p) ==
  (set[p].trans # NoRoute \/ set[p].act # "Idle") ~>
    (Dead(p) \/ (set[p].trans = NoRoute /\ set[p].act = "Idle"))

\* With no fault, a prepared transition ends with both peers serving the next
\* epoch on the other route.
PromotionCompletes ==
  \A e \in 1 .. MaxEpoch - 1 :
    (\E p \in Peers : set[p].trans # NoRoute /\ session[p][0].epoch = e) ~>
      \A p \in Peers : Serving(p) /\ session[p][0].epoch > e /\ Settled(p)
=============================================================================
