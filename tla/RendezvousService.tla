------------------------- MODULE RendezvousService --------------------------
(***************************************************************************)
(* The one-shot rendezvous server of apps/rendezvous (serve_matches) with  *)
(* its clients (exchange_registration) and the broker of RendezvousBroker. *)
(*                                                                         *)
(* The server is one task: it takes an admission, a disconnect event or a  *)
(* waiter's deadline, and it runs the two-phase exchange of a match        *)
(* (Delivery, DeliveryAck, Commit, CommitAck, Complete) to its end before  *)
(* it looks at anything else, while the clients and the clock go on.       *)
(*                                                                         *)
(* A connection carries one registration.  `open` is the truth about it;   *)
(* either side may notice a close late, so a send to a closed connection   *)
(* may succeed and lose its record.  Every await of the code has a timeout *)
(* of its own, so every send and every await may fail at any time.         *)
(***************************************************************************)
EXTENDS RendezvousBroker, Sequences

CONSTANTS Conns,           \* client connections, one registration each
          Attempts,        \* the [device, reg] pairs that clients may send
          MaxRejections    \* MAX_REJECTIONS

ASSUME ServiceAssumption ==
  /\ Attempts \subseteq [device : Devices, reg : Registrations]
  /\ MaxRejections \in Nat \ {0}

VARIABLES
  client,     \* what each connection's client is doing
  open,       \* the connections that neither side has closed
  inbox,      \* server to client records, in order
  acks,       \* client to server records, in order
  server,     \* [step, caller, waiter]: step 0 is the select of the loop
  waiting,    \* waiting_connections
  watchers,   \* the spawned disconnect watchers
  report,     \* ServerReport
  outcome     \* what serve_matches returned

net == <<client, open, inbox, acks>>
task == <<server, waiting, watchers, report, outcome>>
vars == <<brokerVars, net, task>>

Msg(kind, from) == [kind |-> kind, from |-> from]

\* The client of connection c: no attempt yet, or its registration, the
\* connections whose registration it was delivered, and its two flags.
IdleClient == [phase |-> "Idle", delivered |-> {}, committed |-> FALSE]

Device(c) == client[c].device
Reg(c) == client[c].reg

ToCaller == "caller"
ToWaiter == "waiter"

TwoPhases ==
  << [op |-> "send",  side |-> ToCaller, kind |-> "Delivery"],
     [op |-> "send",  side |-> ToWaiter, kind |-> "Delivery"],
     [op |-> "await", side |-> ToCaller, kind |-> "DeliveryAck"],
     [op |-> "await", side |-> ToWaiter, kind |-> "DeliveryAck"],
     [op |-> "send",  side |-> ToCaller, kind |-> "Commit"],
     [op |-> "send",  side |-> ToWaiter, kind |-> "Commit"],
     [op |-> "await", side |-> ToCaller, kind |-> "CommitAck"],
     [op |-> "await", side |-> ToWaiter, kind |-> "CommitAck"],
     [op |-> "quiet", side |-> ToCaller, kind |-> "CommitAck"],
     [op |-> "quiet", side |-> ToWaiter, kind |-> "CommitAck"] >>

\* Faulty: the caller is told before the broker has confirmed.
ScriptTellsFirst ==
  TwoPhases \o
  << [op |-> "tell",  side |-> ToCaller, kind |-> "Complete"],
     [op |-> "confirm", side |-> ToCaller, kind |-> "Commit"],
     [op |-> "tell",  side |-> ToWaiter, kind |-> "Complete"] >>

\* The exchange of a match, in the order of the code's awaits.
Script ==
  TwoPhases \o
  << [op |-> "confirm", side |-> ToCaller, kind |-> "Commit"],
     [op |-> "tell",  side |-> ToCaller, kind |-> "Complete"],
     [op |-> "tell",  side |-> ToWaiter, kind |-> "Complete"] >>

Loop == [step |-> 0]

AtLoop == outcome = "Serving" /\ server.step = 0

InExchange == outcome = "Serving" /\ server.step > 0

ServiceInit ==
  /\ BrokerInit
  /\ client = [c \in Conns |-> IdleClient]
  /\ open = Conns
  /\ inbox = [c \in Conns |-> <<>>]
  /\ acks = [c \in Conns |-> <<>>]
  /\ server = Loop
  /\ waiting = {}
  /\ watchers = {}
  /\ report = [registrations |-> 0, matched |-> 0, rejected |-> 0]
  /\ outcome = "Serving"

-----------------------------------------------------------------------------
(* Clients.                                                                *)

\* The control record with the registration is on its way to the server.
ClientStart(c) ==
  /\ client[c].phase = "Idle"
  /\ \E a \in Attempts :
       client' = [client EXCEPT ![c] =
                    [phase |-> "Sent", delivered |-> {}, committed |-> FALSE,
                     device |-> a.device, reg |-> a.reg]]
  /\ UNCHANGED <<brokerVars, open, inbox, acks, task>>

Running(c) == client[c].phase \in {"Sent", "Served"}

DeliveryValid(c, p) ==
  /\ Device(p) = Reg(c).peer
  /\ Reg(p).peer = Device(c)
  /\ Reg(p).id = Reg(c).id
  /\ Reg(p).generation = Reg(c).generation
  /\ Reg(p).role # Reg(c).role

Acknowledge(c, kind) ==
  acks' = [acks EXCEPT ![c] = IF c \in open THEN Append(@, kind) ELSE @]

Fails(c) == client' = [client EXCEPT ![c].phase = "Failed"] /\ open' = open \ {c}

OnWaiting(c) ==
  IF client[c].delivered # {} \/ client[c].committed
  THEN Fails(c) /\ UNCHANGED acks
  ELSE UNCHANGED <<client, open, acks>>

OnDelivery(c, p) ==
  IF client[c].delivered # {} \/ client[c].committed \/ ~ DeliveryValid(c, p)
  THEN Fails(c) /\ UNCHANGED acks
  ELSE /\ Acknowledge(c, "DeliveryAck")
       /\ client' = [client EXCEPT ![c].delivered = {p}]
       /\ UNCHANGED open

OnCommit(c) ==
  IF client[c].committed \/ client[c].delivered = {}
  THEN Fails(c) /\ UNCHANGED acks
  ELSE /\ Acknowledge(c, "CommitAck")
       /\ client' = [client EXCEPT ![c].committed = TRUE]
       /\ UNCHANGED open

OnComplete(c) ==
  IF client[c].delivered = {} \/ ~ client[c].committed
  THEN Fails(c) /\ UNCHANGED acks
  ELSE /\ client' = [client EXCEPT ![c].phase = "Done"]
       /\ open' = open \ {c}
       /\ UNCHANGED acks

ClientReceive(c) ==
  /\ Running(c)
  /\ inbox[c] # <<>>
  /\ inbox' = [inbox EXCEPT ![c] = Tail(@)]
  /\ LET m == Head(inbox[c])
     IN  CASE m.kind = "Waiting"  -> OnWaiting(c)
           [] m.kind = "Delivery" -> OnDelivery(c, m.from)
           [] m.kind = "Commit"   -> OnCommit(c)
           [] m.kind = "Complete" -> OnComplete(c)
  /\ UNCHANGED <<brokerVars, task>>

\* A timeout, a lost connection or a cancelled future: the guard of
\* exchange_registration closes the connection.
ClientFail(c) ==
  /\ Running(c)
  /\ Fails(c)
  /\ UNCHANGED <<brokerVars, inbox, acks, task>>

-----------------------------------------------------------------------------
(* The server's loop.                                                      *)

Rejection(rep) == [rep EXCEPT !.rejected = @ + 1]

OutcomeAfter(rep) == IF rep.rejected >= MaxRejections THEN "RejectionLimit" ELSE "Serving"

\* Returning an error drops every connection the task holds.
Return(o, closed) ==
  /\ outcome' = o
  /\ open' = IF o = "Serving" THEN open \ closed ELSE {}

\* The records of `send_response`: a success puts the record on an open
\* connection and loses it on a closed one.
Delivered(c, m) == [inbox EXCEPT ![c] = IF c \in open THEN Append(@, m) ELSE @]

ExpiredWaiters == {w \in waiting : w.expires <= now}

\* cancel_waiting for every expired waiter in turn.
CancelledAll(b, ws, t) ==
  LET hit == {p \in b.pending : \E w \in ws : w.id = p.id /\ w.device = p.device}
  IN  [b EXCEPT !.pending = @ \ hit,
                !.completed = {x \in @ : x.id \notin Ids(hit)} \cup Protected(Ids(hit), t),
                !.registrations = Released(@, Cardinality(hit))]

\* cleanup and close_expired_waiters, as both the admission and the deadline
\* branch run them.
Swept == CancelledAll(Cleanup(broker, now), ExpiredWaiters, now)

SweptReport ==
  [report EXCEPT !.registrations = Released(@, broker.registrations - Swept.registrations)]

ExpiredConns == {w.conn : w \in ExpiredWaiters}

\* An admission task ended in an error.
AdmissionFails ==
  /\ AtLoop
  /\ report' = Rejection(report)
  /\ Return(OutcomeAfter(report'), {})
  /\ UNCHANGED <<brokerVars, client, inbox, acks, server, waiting, watchers>>

AfterCancel(b) ==
  [report EXCEPT !.registrations = Released(@, broker.registrations - b.registrations)]

\* A watcher names its device and match id, not its connection.
WatcherFires(w) ==
  /\ AtLoop
  /\ w.conn \notin open
  /\ LET b == Cancelled(broker, w.device, w.id, now)
     IN  broker' = b /\ report' = AfterCancel(b)
  /\ waiting' = {x \in waiting : ~ (x.device = w.device /\ x.id = w.id)}
  /\ watchers' = watchers \ {w}
  /\ UNCHANGED <<now, net, server, outcome>>

WaiterDeadline ==
  /\ AtLoop
  /\ \E w \in ExpiredWaiters : w.expires < MaxTime
  /\ broker' = Swept
  /\ report' = SweptReport
  /\ waiting' = waiting \ ExpiredWaiters
  /\ open' = open \ ExpiredConns
  /\ UNCHANGED <<now, client, inbox, acks, server, watchers, outcome>>

\* The service deadline passes in the loop.
ServiceTimeout ==
  /\ AtLoop
  /\ now >= MaxTime
  /\ Return("Timeout", {})
  /\ UNCHANGED <<brokerVars, client, inbox, acks, server, waiting, watchers, report>>

Admitted(c) ==
  /\ AtLoop
  /\ now < MaxTime
  /\ client[c].phase = "Sent"
  /\ client' = [client EXCEPT ![c].phase = "Served"]

\* The admission race that connection_closed_now settles: the waiter this
\* registration asks for has closed and no watcher has reported it yet.
AdmitWaiterGone(c) ==
  /\ Admitted(c)
  /\ \E w \in waiting \ ExpiredWaiters :
       /\ w.device = Reg(c).peer /\ w.id = Reg(c).id
       /\ w.conn \notin open
       /\ LET b == Cancelled(Swept, w.device, w.id, now)
          IN  /\ broker' = b
              /\ report' = Rejection([SweptReport EXCEPT !.registrations =
                                        Released(@, Swept.registrations - b.registrations)])
       /\ waiting' = (waiting \ ExpiredWaiters) \ {w}
  /\ Return(OutcomeAfter(report'), ExpiredConns \cup {c})
  /\ UNCHANGED <<now, inbox, acks, server, watchers>>

AdmitRefused(c) ==
  /\ Admitted(c)
  /\ broker' = Registered(Swept, Device(c), Reg(c), now)
  /\ ~ CanWait(Cleanup(Swept, now), Device(c), Reg(c))
  /\ Partners(Cleanup(Swept, now), Device(c), Reg(c)) = {}
  /\ report' = Rejection(SweptReport)
  /\ waiting' = waiting \ ExpiredWaiters
  /\ Return(OutcomeAfter(report'), ExpiredConns \cup {c})
  /\ UNCHANGED <<now, inbox, acks, server, watchers>>

\* The registration waits, and the Waiting response was sent.
AdmitWaiting(c) ==
  /\ Admitted(c)
  /\ CanWait(Cleanup(Swept, now), Device(c), Reg(c))
  /\ broker' = Registered(Swept, Device(c), Reg(c), now)
  /\ inbox' = Delivered(c, Msg("Waiting", c))
  /\ waiting' = (waiting \ ExpiredWaiters) \cup
                  {[device |-> Device(c), id |-> Reg(c).id, conn |-> c,
                    expires |-> now + Reg(c).ttl]}
  /\ watchers' = watchers \cup {[device |-> Device(c), id |-> Reg(c).id, conn |-> c]}
  /\ report' = [SweptReport EXCEPT !.registrations = @ + 1]
  /\ Return(IF report'.registrations >= MaxRegistrations THEN "Unmatched" ELSE "Serving",
            ExpiredConns)
  /\ UNCHANGED <<now, acks, server>>

UnsentWaiting(c) ==
  Cancelled(Registered(Swept, Device(c), Reg(c), now), Device(c), Reg(c).id, now)

\* The registration waits, but the Waiting response could not be sent.
AdmitWaitingUnsent(c) ==
  /\ Admitted(c)
  /\ CanWait(Cleanup(Swept, now), Device(c), Reg(c))
  /\ broker' = UnsentWaiting(c)
  /\ waiting' = waiting \ ExpiredWaiters
  /\ report' = Rejection(SweptReport)
  /\ Return(OutcomeAfter(report'), ExpiredConns \cup {c})
  /\ UNCHANGED <<now, inbox, acks, server, watchers>>

\* The registration reciprocates a waiting one; the exchange begins.
AdmitMatched(c) ==
  /\ Admitted(c)
  /\ \E w \in Partners(Cleanup(Swept, now), Device(c), Reg(c)) :
       LET b == TakenDelivery(Registered(Swept, Device(c), Reg(c), now), w.device, w.id, now)
           held == {x \in waiting \ ExpiredWaiters : x.device = w.device /\ x.id = w.id}
           counted == [SweptReport EXCEPT !.registrations = @ + 1]
       IN  /\ waiting' = (waiting \ ExpiredWaiters) \ held
           /\ IF held = {}
              THEN LET a == Aborted(b, w.id, now)
                   IN  /\ broker' = a
                       /\ report' = Rejection([counted EXCEPT !.registrations =
                                       Released(@, b.registrations - a.registrations)])
                       /\ Return(OutcomeAfter(report'), ExpiredConns \cup {c})
                       /\ UNCHANGED server
              ELSE /\ broker' = b
                   /\ report' = counted
                   /\ server' = [step |-> 1, caller |-> c,
                                 waiter |-> (CHOOSE x \in held : TRUE).conn]
                   /\ Return("Serving", ExpiredConns)
  /\ UNCHANGED <<now, inbox, acks, watchers>>

-----------------------------------------------------------------------------
(* The two-phase exchange.                                                 *)

Entry == Script[server.step]

Here == IF Entry.side = ToCaller THEN server.caller ELSE server.waiter

There == IF Entry.side = ToCaller THEN server.waiter ELSE server.caller

Advance == server' = [server EXCEPT !.step = @ + 1]

ExchangeSend ==
  /\ InExchange
  /\ Entry.op = "send"
  /\ inbox' = Delivered(Here, Msg(Entry.kind, There))
  /\ Advance
  /\ UNCHANGED <<brokerVars, client, open, acks, waiting, watchers, report, outcome>>

AckArrived == acks[Here] # <<>> /\ Head(acks[Here]) = Entry.kind

ExchangeAwait ==
  /\ InExchange
  /\ Entry.op = "await"
  /\ AckArrived
  /\ acks' = [acks EXCEPT ![Here] = IF @ = <<>> THEN @ ELSE Tail(@)]
  /\ Advance
  /\ UNCHANGED <<brokerVars, client, open, inbox, waiting, watchers, report, outcome>>

ExchangeQuiet ==
  /\ InExchange
  /\ Entry.op = "quiet"
  /\ acks[Here] = <<>>
  /\ Advance
  /\ UNCHANGED <<brokerVars, net, waiting, watchers, report, outcome>>

ExchangeConfirm ==
  /\ InExchange
  /\ Entry.op = "confirm"
  /\ Confirmable(broker, Reg(server.caller).id, now)
  /\ broker' = Confirmed(broker, Reg(server.caller).id, now)
  /\ Advance
  /\ UNCHANGED <<now, net, waiting, watchers, report, outcome>>

\* Complete is best effort: it arrives, or it does not.  After the second one
\* the match is reported, and the last match ends the service.
ExchangeTell ==
  /\ InExchange
  /\ Entry.op = "tell"
  /\ inbox' \in {inbox, Delivered(Here, Msg("Complete", There))}
  /\ IF server.step < Len(Script)
     THEN Advance /\ UNCHANGED <<report, outcome, open, waiting>>
     ELSE /\ server' = Loop
          /\ report' = [report EXCEPT !.matched = @ + 1]
          /\ IF report.matched + 1 >= MaxMatches
             THEN /\ outcome' = "Ok"
                  /\ open' = open \ {w.conn : w \in waiting}
                  /\ waiting' = {}
             ELSE UNCHANGED <<outcome, open, waiting>>
  /\ UNCHANGED <<brokerVars, client, acks, watchers>>

\* Faulty: the aborted match keeps its two registrations in the report.
AbortReportUnreduced(b) == report

AbortReport(b) ==
  [report EXCEPT !.registrations = Released(@, broker.registrations - b.registrations)]

\* Faulty: the await of an acknowledgement has no timeout.
CanFailUntimed ==
  /\ Entry.op \notin {"tell", "await"}
  /\ Entry.op = "confirm" => ~ Confirmable(broker, Reg(server.caller).id, now)

CanFail ==
  /\ Entry.op # "tell"
  /\ Entry.op = "confirm" => ~ Confirmable(broker, Reg(server.caller).id, now)

\* Any failure before the confirmation rolls the match back.  A failed send may
\* still have put its record on the wire.
ExchangeFails ==
  /\ InExchange
  /\ CanFail
  /\ LET b == Aborted(broker, Reg(server.caller).id, now)
     IN  broker' = b /\ report' = Rejection(AbortReport(b))
  /\ inbox' \in {inbox} \cup
       IF Entry.op = "send" THEN {Delivered(Here, Msg(Entry.kind, There))} ELSE {}
  /\ server' = Loop
  /\ Return(OutcomeAfter(report'), {server.caller, server.waiter})
  /\ UNCHANGED <<now, client, acks, waiting, watchers>>

\* wait_for_client_close closes a matched connection that its client left open.
CloseMatched(c) ==
  /\ c \in open
  /\ client[c].phase # "Idle"
  /\ \/ outcome = "Ok"
     \/ /\ outcome = "Serving"
        /\ client[c].committed
        /\ server.step = 0
        /\ ~ \E w \in waiting : w.conn = c
  /\ open' = open \ {c}
  /\ UNCHANGED <<brokerVars, client, inbox, acks, task>>

-----------------------------------------------------------------------------

ServiceTick == outcome = "Serving" /\ Tick /\ UNCHANGED <<net, task>>

Exchange ==
  ExchangeSend \/ ExchangeAwait \/ ExchangeQuiet \/ ExchangeConfirm \/ ExchangeTell
    \/ ExchangeFails

Admit(c) ==
  \/ AdmitWaiterGone(c)
  \/ AdmitRefused(c)
  \/ AdmitWaiting(c)
  \/ AdmitWaitingUnsent(c)
  \/ AdmitMatched(c)

Next ==
  \/ ServiceTick
  \/ \E c \in Conns : ClientStart(c) \/ ClientReceive(c) \/ ClientFail(c)
  \/ \E c \in Conns : Admit(c)
  \/ \E c \in Conns : CloseMatched(c)
  \/ \E w \in watchers : WatcherFires(w)
  \/ AdmissionFails
  \/ WaiterDeadline
  \/ ServiceTimeout
  \/ Exchange

ServiceSpec == ServiceInit /\ [][Next]_vars

-----------------------------------------------------------------------------
(* Properties.                                                             *)

\* The server's own state has the types of serve_matches' locals.
ServiceTypeOK ==
  /\ BrokerTypeOK
  /\ open \subseteq Conns
  /\ server.step \in 0 .. Len(Script)
  /\ waiting \subseteq [device : Devices, id : Matches, conn : Conns, expires : Nat]
  /\ report \in [registrations : Nat, matched : Nat, rejected : 0 .. MaxRejections]
  /\ outcome \in {"Serving", "Ok", "Timeout", "Unmatched", "RejectionLimit"}

\* Whenever the loop looks for work, the report counts exactly the registrations
\* and matches that the broker counts, whatever was released on the way.
ReportIsBroker ==
  AtLoop => /\ report.registrations = broker.registrations
            /\ report.matched = broker.matches

\* Whenever the loop looks for work, the broker's waiting registrations are the
\* connections the server holds for them, with the same deadlines; so a match
\* always finds its waiter's connection.
WaitersArePending ==
  AtLoop =>
    {<<w.device, w.id, w.expires>> : w \in waiting} =
      {<<p.device, p.id, p.expires>> : p \in broker.pending}

\* A client that returns a committed delivery was delivered the registration of
\* a peer that was delivered this client's registration and committed to it.
DoneIsTwoSided ==
  \A c \in Conns : client[c].phase = "Done" =>
    \A p \in client[c].delivered :
      /\ Device(p) = Reg(c).peer /\ Reg(p).peer = Device(c)
      /\ client[p].delivered = {c}
      /\ client[p].committed

\* Clients return no match that the broker rolled back: every pair of which one
\* side has returned is a confirmed match.
DoneIsConfirmed ==
  Cardinality({{c} \cup client[c].delivered : c \in {x \in Conns : client[x].phase = "Done"}})
    <= broker.matches

\* A client returns only a match that the other side agreed to and that the broker
\* confirmed.
DoneIsAgreed == DoneIsTwoSided /\ DoneIsConfirmed

\* The broker's tables stay consistent under the calls that serve_matches chains;
\* whenever its loop looks for work, its report and the connections it holds are those
\* of the broker's registrations; and what a client returns is agreed.
ServiceInv ==
  BrokerInv /\ ServiceTypeOK /\ ReportIsBroker /\ WaitersArePending /\ DoneIsAgreed

\* serve_matches returns: its timeouts and its deadline leave no way to serve for
\* ever.
ServiceEnds == <>(outcome # "Serving")

USE SMTT(40)

-----------------------------------------------------------------------------
(* The service.                                                             *)

\* A client that has begun keeps the attempt it made.
Attempted(k) ==
  /\ DOMAIN k = {"phase", "delivered", "committed", "device", "reg"}
  /\ k.device \in Devices
  /\ k.reg \in Registrations

ClientsSound ==
  /\ client = [c \in Conns |-> client[c]]
  /\ \A c \in Conns : client[c].phase # "Idle" => Attempted(client[c])

Messages == [kind : {"Waiting", "Delivery", "Commit", "Complete"}, from : Conns]

InboxSound == inbox \in [Conns -> Seq(Messages)]

\* The steps of Script at which the broker confirms, and at which the exchange ends.
Confirming == 11
Ending == 13

\* Up to the confirmation, the match of an exchange is reserved: a failure aborts
\* a match that the broker holds, and gives back the two registrations of it.
ServerSound ==
  \/ server = Loop
  \/ /\ server \in [step : 1 .. Ending, caller : Conns, waiter : Conns]
     /\ client[server.caller].phase # "Idle"
     /\ server.step <= Confirming => Has(broker.reserved, Reg(server.caller).id)

ReportSound ==
  /\ report \in [registrations : Nat, matched : Nat, rejected : 0 .. MaxRejections]
  /\ broker.matches = report.matched + (IF server.step > Confirming THEN 1 ELSE 0)
  /\ outcome = "Serving" =>
       /\ report.rejected < MaxRejections
       /\ report.registrations = broker.registrations

Same(w, p) == w.device = p.device /\ w.id = p.id /\ w.expires = p.expires

Tied(ws, ps) ==
  /\ \A w \in ws : \E p \in ps : Same(w, p)
  /\ \A p \in ps : \E w \in ws : Same(w, p)

WaitersSound ==
  /\ waiting \subseteq [device : Devices, id : Matches, conn : Conns, expires : Nat]
  /\ OneEach(waiting)
  /\ outcome = "Serving" => Tied(waiting, broker.pending)

Outcomes == {"Serving", "Ok", "Timeout", "Unmatched", "RejectionLimit"}

\* The inductive invariant of the service.
ServiceSound ==
  /\ SoundBroker(broker)
  /\ ClockOK
  /\ ClientsSound
  /\ InboxSound
  /\ ServerSound
  /\ ReportSound
  /\ WaitersSound
  /\ open \subseteq Conns
  /\ outcome \in Outcomes

\* The entries of two sequences put together.
LEMMA Joined ==
  ASSUME NEW S, NEW s \in Seq(S), NEW t \in Seq(S)
  PROVE  /\ Len(s \o t) = Len(s) + Len(t)
         /\ \A i \in 1 .. Len(s) : (s \o t)[i] = s[i]
         /\ \A i \in 1 .. Len(t) : (s \o t)[Len(s) + i] = t[i]
OBVIOUS

\* Only the last two steps of an exchange tell, none but the eleventh confirms, and the
\* records that are sent are deliveries and commits.
LEMMA ScriptShape ==
  /\ Len(Script) = Ending
  /\ \A s \in 1 .. Ending : Script[s].op = "tell" <=> s > Confirming
  /\ \A s \in 1 .. Ending : Script[s].op = "confirm" <=> s = Confirming
  /\ \A s \in 1 .. Ending : Script[s].op = "send" => Script[s].kind \in {"Delivery", "Commit"}
  /\ Script[7] = [op |-> "await", side |-> ToCaller, kind |-> "CommitAck"]
  /\ Script[8] = [op |-> "await", side |-> ToWaiter, kind |-> "CommitAck"]
<1> DEFINE last == << [op |-> "confirm", side |-> ToCaller, kind |-> "Commit"],
                      [op |-> "tell",  side |-> ToCaller, kind |-> "Complete"],
                      [op |-> "tell",  side |-> ToWaiter, kind |-> "Complete"] >>
           Entries == [op : {"send", "await", "quiet", "confirm", "tell"},
                       side : {ToCaller, ToWaiter},
                       kind : {"Delivery", "DeliveryAck", "Commit", "CommitAck", "Complete"}]
           n == Len(TwoPhases)
           k == Len(last)
<1>1. TwoPhases \in Seq(Entries) /\ last \in Seq(Entries)
  BY DEF TwoPhases
<1>2. n = 10 /\ k = 3
  BY DEF TwoPhases
<1>3. \A s \in 1 .. 10 :
        /\ TwoPhases[s].op \in {"send", "await", "quiet"}
        /\ TwoPhases[s].op = "send" => TwoPhases[s].kind \in {"Delivery", "Commit"}
  BY DEF TwoPhases
<1>4. last[1].op = "confirm" /\ last[2].op = "tell" /\ last[3].op = "tell"
  OBVIOUS
<1>12. /\ TwoPhases[7] = [op |-> "await", side |-> ToCaller, kind |-> "CommitAck"]
       /\ TwoPhases[8] = [op |-> "await", side |-> ToWaiter, kind |-> "CommitAck"]
  BY DEF TwoPhases
<1>5. Script = TwoPhases \o last
  BY DEF Script
<1> HIDE DEF last, Entries
<1>6. /\ Len(Script) = n + k
      /\ \A i \in 1 .. n : Script[i] = TwoPhases[i]
      /\ \A i \in 1 .. k : Script[n + i] = last[i]
  BY <1>1, <1>5, Joined
<1> HIDE DEF n, k
<1>7. /\ Len(Script) = 13
      /\ \A i \in 1 .. 10 : Script[i] = TwoPhases[i]
      /\ \A i \in 1 .. 3 : Script[10 + i] = last[i]
  BY <1>2, <1>6
<1>8. Script[10 + 1] = last[1] /\ Script[10 + 2] = last[2] /\ Script[10 + 3] = last[3]
  BY <1>7
<1>9. Script[11].op = "confirm" /\ Script[12].op = "tell" /\ Script[13].op = "tell"
  BY <1>4, <1>8
<1>10. ASSUME NEW s \in 1 .. 13
       PROVE  s \in 1 .. 10 \/ s = 11 \/ s = 12 \/ s = 13
  OBVIOUS
<1>11. ASSUME NEW s \in 1 .. 13
       PROVE  /\ Script[s].op = "tell" <=> s > 11
              /\ Script[s].op = "confirm" <=> s = 11
              /\ Script[s].op = "send" => Script[s].kind \in {"Delivery", "Commit"}
  BY <1>3, <1>7, <1>9, <1>10
<1>13. Script[7] = TwoPhases[7] /\ Script[8] = TwoPhases[8]
  BY <1>7
<1> QED
  BY <1>7, <1>11, <1>12, <1>13 DEF Confirming, Ending

Reports == [registrations : Nat, matched : Nat, rejected : 0 .. MaxRejections]

\* The attempts of the clients that have begun stay what they are.
AttemptsKept ==
  \A x \in Conns : client[x].phase # "Idle" =>
    client'[x].phase # "Idle" /\ client'[x].reg = client[x].reg

\* What is proved of every step of the service.
Advanced == ServiceSound' /\ Kept

\* Counting what the broker gave back brings the report to the broker's count.
LEMMA ReleasedTo ==
  ASSUME NEW n \in Nat, NEW m \in Nat, m <= n
  PROVE  Released(n, n - m) = m
BY DEF Released

\* A rejection is counted, and the service ends when the count reaches its limit.
LEMMA RejectionCounts ==
  ASSUME NEW rep \in Reports, rep.rejected < MaxRejections
  PROVE  /\ Rejection(rep) \in Reports
         /\ Rejection(rep).registrations = rep.registrations
         /\ Rejection(rep).matched = rep.matched
         /\ OutcomeAfter(Rejection(rep)) \in {"Serving", "RejectionLimit"}
         /\ OutcomeAfter(Rejection(rep)) = "Serving" => Rejection(rep).rejected < MaxRejections
<1> DEFINE n == Rejection(rep)
<1>1. MaxRejections \in Nat
  BY ServiceAssumption
<1>2. rep.rejected \in Nat /\ rep.rejected + 1 \in 0 .. MaxRejections
  BY <1>1 DEF Reports
<1>3. n = [registrations |-> rep.registrations, matched |-> rep.matched,
           rejected |-> rep.rejected + 1]
  BY DEF Rejection, Reports
<1>4. n \in Reports
  BY <1>2, <1>3 DEF Reports
<1>5. n.registrations = rep.registrations /\ n.matched = rep.matched /\ n.rejected = rep.rejected + 1
  BY <1>3
<1> HIDE DEF n
<1>6. /\ OutcomeAfter(n) \in {"Serving", "RejectionLimit"}
      /\ OutcomeAfter(n) = "Serving" => n.rejected < MaxRejections
  BY <1>1, <1>2, <1>5 DEF OutcomeAfter
<1> QED
  BY <1>4, <1>5, <1>6 DEF n

\* A report whose registrations are set.
LEMMA ReportCounts ==
  ASSUME NEW rep \in Reports, NEW n \in Nat
  PROVE  /\ [rep EXCEPT !.registrations = n] \in Reports
         /\ [rep EXCEPT !.registrations = n].registrations = n
         /\ [rep EXCEPT !.registrations = n].matched = rep.matched
         /\ [rep EXCEPT !.registrations = n].rejected = rep.rejected
BY DEF Reports

\* A client that has begun moves on with the attempt it made.
LEMMA ClientMoves ==
  ASSUME ClientsSound, NEW c \in Conns, NEW k, client' = [client EXCEPT ![c] = k],
         Attempted(k), k.phase # "Idle",
         client[c].phase # "Idle" => k.reg = client[c].reg
  PROVE  /\ ClientsSound' /\ AttemptsKept
         /\ client'[c].phase # "Idle" /\ client'[c].reg = k.reg
<1>1. client = [x \in Conns |-> client[x]]
  BY DEF ClientsSound
<1>2. client' = [x \in Conns |-> IF x = c THEN k ELSE client[x]]
  BY <1>1
<1>3. client'[c] = k /\ \A x \in Conns : x # c => client'[x] = client[x]
  BY <1>2
<1>4. client' = [x \in Conns |-> client'[x]]
  BY ZenonT(40), <1>2
<1>5. \A x \in Conns : client'[x].phase # "Idle" => Attempted(client'[x])
  BY <1>3 DEF ClientsSound
<1>6. ClientsSound'
  BY <1>4, <1>5 DEF ClientsSound, Attempted
<1>7. AttemptsKept
  BY <1>3 DEF AttemptsKept
<1> QED
  BY <1>3, <1>6, <1>7

\* Its phase, its delivery and its commitment change, its attempt does not.
LEMMA AttemptStays ==
  ASSUME NEW k, Attempted(k), NEW f \in {"phase", "delivered", "committed"}, NEW v
  PROVE  /\ Attempted([k EXCEPT ![f] = v])
         /\ [k EXCEPT ![f] = v].reg = k.reg
         /\ [k EXCEPT ![f] = v][f] = v
         /\ f # "phase" => [k EXCEPT ![f] = v].phase = k.phase
BY DEF Attempted

\* A record is sent to a client that reads records.
LEMMA DeliveredSound ==
  ASSUME InboxSound, NEW c \in Conns, NEW m \in Messages
  PROVE  Delivered(c, m) \in [Conns -> Seq(Messages)]
<1>1. inbox[c] \in Seq(Messages)
  BY DEF InboxSound
<1> DEFINE q == IF c \in open THEN Append(inbox[c], m) ELSE inbox[c]
<1>2. q \in Seq(Messages)
  BY <1>1
<1>3. Delivered(c, m) = [inbox EXCEPT ![c] = q]
  BY DEF Delivered
<1> HIDE DEF q
<1> QED
  BY <1>2, <1>3 DEF InboxSound

\* A step of the clients leaves the server's invariant alone.
LEMMA QuietStep ==
  ASSUME ServiceSound, UNCHANGED <<brokerVars, task>>,
         ClientsSound', AttemptsKept, InboxSound', open' \subseteq Conns
  PROVE  Advanced
<1>1. broker' = broker /\ now' = now /\ server' = server /\ waiting' = waiting
      /\ report' = report /\ outcome' = outcome
  BY DEF brokerVars, task
<1>2. Kept
  BY <1>1 DEF ServiceSound, Kept
<1>3. ClockOK' /\ ReportSound' /\ WaitersSound' /\ outcome' \in Outcomes
  BY <1>1 DEF ServiceSound, ClockOK, ReportSound, WaitersSound
<1>4. ServerSound'
  <2>1. CASE server = Loop
    BY <1>1, <2>1 DEF ServerSound
  <2>2. CASE server # Loop
    <3>1. /\ server \in [step : 1 .. Ending, caller : Conns, waiter : Conns]
          /\ client[server.caller].phase # "Idle"
          /\ server.step <= Confirming => Has(broker.reserved, Reg(server.caller).id)
      BY ZenonT(40), <2>2 DEF ServiceSound, ServerSound
    <3>2. server.caller \in Conns
      BY ZenonT(40), <3>1
    <3>3. client'[server.caller].phase # "Idle" /\ client'[server.caller].reg = client[server.caller].reg
      BY <3>1, <3>2 DEF AttemptsKept
    <3> QED
      BY ZenonT(40), <1>1, <3>1, <3>3 DEF ServerSound, Reg
  <2> QED
    BY <2>1, <2>2
<1>5. SoundBroker(broker)'
  BY <1>2 DEF Kept
<1> QED
  BY <1>2, <1>3, <1>4, <1>5 DEF Advanced, ServiceSound

\* The clients' own steps.
LEMMA ClientSteps ==
  ASSUME ServiceSound, NEW c \in Conns,
         ClientStart(c) \/ ClientReceive(c) \/ ClientFail(c) \/ CloseMatched(c)
  PROVE  Advanced
<1>0. ClientsSound /\ InboxSound /\ open \subseteq Conns
  BY DEF ServiceSound
<1>1. CASE ClientStart(c)
  <2>1. PICK a \in Attempts :
          client' = [client EXCEPT ![c] =
                       [phase |-> "Sent", delivered |-> {}, committed |-> FALSE,
                        device |-> a.device, reg |-> a.reg]]
    BY ZenonT(40), <1>1 DEF ClientStart
  <2> DEFINE k == [phase |-> "Sent", delivered |-> {}, committed |-> FALSE,
                   device |-> a.device, reg |-> a.reg]
  <2>2. a.device \in Devices /\ a.reg \in Registrations
    BY ServiceAssumption
  <2>3. Attempted(k) /\ k.phase # "Idle"
    BY <2>2 DEF Attempted
  <2>4. client[c].phase = "Idle" /\ UNCHANGED <<brokerVars, open, inbox, acks, task>>
    BY <1>1 DEF ClientStart
  <2>5. client' = [client EXCEPT ![c] = k]
    BY ZenonT(40), <2>1
  <2> HIDE DEF k
  <2>6. ClientsSound' /\ AttemptsKept
    BY ZenonT(40), <1>0, <2>3, <2>4, <2>5, ClientMoves
  <2>7. InboxSound' /\ open' \subseteq Conns
    BY ZenonT(40), <1>0, <2>4 DEF InboxSound
  <2> QED
    BY <2>4, <2>6, <2>7, QuietStep
<1>2. ASSUME Running(c), Fails(c)
      PROVE  ClientsSound' /\ AttemptsKept /\ open' \subseteq Conns
  <2> DEFINE k == [client[c] EXCEPT !["phase"] = "Failed"]
  <2>1. client[c].phase # "Idle" /\ Attempted(client[c])
    BY <1>0, <1>2 DEF Running, ClientsSound
  <2>2. Attempted(k) /\ k.phase = "Failed" /\ k.reg = client[c].reg
    BY <2>1, AttemptStays
  <2>3. client' = [client EXCEPT ![c] = k] /\ open' = open \ {c}
    BY ZenonT(40), <1>2 DEF Fails
  <2> HIDE DEF k
  <2> QED
    BY ZenonT(40), <1>0, <2>1, <2>2, <2>3, ClientMoves
<1>3. CASE ClientFail(c)
  <2>1. InboxSound' /\ Running(c) /\ Fails(c) /\ UNCHANGED <<brokerVars, task>>
    BY <1>0, <1>3 DEF ClientFail, InboxSound
  <2> QED
    BY <1>2, <2>1, QuietStep
<1>4. CASE CloseMatched(c)
  <2>1. ClientsSound' /\ AttemptsKept
    BY <1>0, <1>4 DEF CloseMatched, ClientsSound, AttemptsKept, Attempted
  <2>2. open' \subseteq Conns /\ InboxSound' /\ UNCHANGED <<brokerVars, task>>
    BY <1>0, <1>4 DEF CloseMatched, InboxSound
  <2> QED
    BY <2>1, <2>2, QuietStep
<1>5. CASE ClientReceive(c)
  <2>1. Running(c) /\ UNCHANGED <<brokerVars, task>>
    BY <1>5 DEF ClientReceive
  <2>2. client[c].phase # "Idle" /\ Attempted(client[c])
    BY <1>0, <2>1 DEF Running, ClientsSound
  <2>3. ASSUME NEW f \in {"delivered", "committed"}, NEW v,
               client' = [client EXCEPT ![c] = [client[c] EXCEPT ![f] = v]]
        PROVE  ClientsSound' /\ AttemptsKept
    <3> DEFINE k == [client[c] EXCEPT ![f] = v]
    <3>1. Attempted(k) /\ k.phase = client[c].phase /\ k.reg = client[c].reg
      BY <2>2, AttemptStays
    <3>2. client' = [client EXCEPT ![c] = k]
      BY <2>3
    <3> HIDE DEF k
    <3> QED
      BY ZenonT(40), <1>0, <2>2, <3>1, <3>2, ClientMoves
  <2>4. UNCHANGED client => ClientsSound' /\ AttemptsKept
    BY <1>0 DEF ClientsSound, AttemptsKept, Attempted
  <2> DEFINE m == Head(inbox[c])
             Goal == ClientsSound' /\ AttemptsKept /\ open' \subseteq Conns
  <2>5. m \in Messages /\ InboxSound'
    <3>1. inbox[c] \in Seq(Messages) /\ inbox[c] # <<>> /\ inbox' = [inbox EXCEPT ![c] = Tail(@)]
      BY <1>0, <1>5 DEF ClientReceive, InboxSound
    <3>2. Head(inbox[c]) \in Messages /\ Tail(inbox[c]) \in Seq(Messages)
      BY <3>1
    <3> QED
      BY <1>0, <3>1, <3>2 DEF InboxSound
  <2>6. m.kind \in {"Waiting", "Delivery", "Commit", "Complete"}
    BY <2>5 DEF Messages
  <2>7. ASSUME m.kind = "Waiting"
        PROVE  Goal
    <3>1. OnWaiting(c)
      BY ZenonT(40), <1>5, <2>7 DEF ClientReceive
    <3> QED
      BY <1>0, <1>2, <2>1, <2>4, <3>1 DEF OnWaiting
  <2>8. ASSUME m.kind = "Delivery"
        PROVE  Goal
    <3>1. OnDelivery(c, m.from)
      BY ZenonT(40), <1>5, <2>8 DEF ClientReceive
    <3>2. CASE Fails(c)
      BY <1>2, <2>1, <3>2
    <3>3. CASE client' = [client EXCEPT ![c].delivered = {m.from}] /\ UNCHANGED open
      <4>1. client' = [client EXCEPT ![c] = [client[c] EXCEPT !["delivered"] = {m.from}]]
        BY ZenonT(40), <3>3
      <4> QED
        BY ZenonT(40), <1>0, <2>3, <3>3, <4>1
    <3> QED
      BY <3>1, <3>2, <3>3 DEF OnDelivery
  <2>9. ASSUME m.kind = "Commit"
        PROVE  Goal
    <3>1. OnCommit(c)
      BY ZenonT(40), <1>5, <2>9 DEF ClientReceive
    <3>2. CASE Fails(c)
      BY <1>2, <2>1, <3>2
    <3>3. CASE client' = [client EXCEPT ![c].committed = TRUE] /\ UNCHANGED open
      <4>1. client' = [client EXCEPT ![c] = [client[c] EXCEPT !["committed"] = TRUE]]
        BY ZenonT(40), <3>3
      <4> QED
        BY ZenonT(40), <1>0, <2>3, <3>3, <4>1
    <3> QED
      BY <3>1, <3>2, <3>3 DEF OnCommit
  <2>10. ASSUME m.kind = "Complete"
        PROVE  Goal
    <3>1. OnComplete(c)
      BY ZenonT(40), <1>5, <2>10 DEF ClientReceive
    <3>2. CASE Fails(c)
      BY <1>2, <2>1, <3>2
    <3>3. CASE client' = [client EXCEPT ![c].phase = "Done"] /\ open' = open \ {c}
      <4> DEFINE k == [client[c] EXCEPT !["phase"] = "Done"]
      <4>1. Attempted(k) /\ k.phase = "Done" /\ k.reg = client[c].reg
        BY <2>2, AttemptStays
      <4>2. client' = [client EXCEPT ![c] = k]
        BY ZenonT(40), <3>3
      <4> HIDE DEF k
      <4>3. ClientsSound' /\ AttemptsKept
        BY ZenonT(40), <1>0, <4>1, <4>2, ClientMoves
      <4> QED
        BY <1>0, <3>3, <4>3
    <3> QED
      BY <3>1, <3>2, <3>3 DEF OnComplete
  <2> HIDE DEF m
  <2> QED
    BY <2>1, <2>7, <2>8, <2>9, <2>10, <2>5, <2>6, QuietStep
<1> QED
  BY <1>1, <1>3, <1>4, <1>5

\* The loop has nothing of an exchange in hand.
LEMMA LoopIsIdle ==
  ASSUME ServiceSound, AtLoop
  PROVE  /\ server = Loop /\ outcome = "Serving" /\ now \in Nat
         /\ report \in Reports /\ report.rejected < MaxRejections
         /\ report.registrations = broker.registrations
         /\ report.matched = broker.matches
         /\ Tied(waiting, broker.pending) /\ OneEach(waiting)
         /\ waiting \subseteq [device : Devices, id : Matches, conn : Conns, expires : Nat]
<1>1. outcome = "Serving" /\ server.step = 0
  BY DEF AtLoop
<1>2. server = Loop
  BY <1>1 DEF ServiceSound, ServerSound
<1>3. now \in Nat
  BY BrokerAssumption DEF ServiceSound, ClockOK
<1>4. report \in Reports /\ report.rejected < MaxRejections
      /\ report.registrations = broker.registrations
      /\ broker.matches = report.matched + (IF server.step > Confirming THEN 1 ELSE 0)
  BY <1>1 DEF ServiceSound, ReportSound, Reports
<1>5. report.matched = broker.matches
  BY <1>1, <1>4 DEF Confirming, Reports
<1> QED
  BY <1>1, <1>2, <1>3, <1>4, <1>5 DEF ServiceSound, WaitersSound

\* A step of the loop that stays in the loop, or ends the service.
LEMMA LoopStep ==
  ASSUME ServiceSound, AtLoop, Kept, UNCHANGED <<now, server>>,
         ClientsSound', InboxSound', open' \subseteq Conns, outcome' \in Outcomes,
         report' \in Reports, report'.matched = broker'.matches,
         outcome' = "Serving" => /\ report'.rejected < MaxRejections
                                 /\ report'.registrations = broker'.registrations
                                 /\ Tied(waiting', broker'.pending),
         OneEach(waiting'),
         waiting' \subseteq [device : Devices, id : Matches, conn : Conns, expires : Nat]
  PROVE  Advanced
<1>1. server = Loop /\ server' = Loop
  BY LoopIsIdle
<1>2. SoundBroker(broker)'
  BY DEF Kept
<1>3. ClockOK' /\ ServerSound'
  BY ZenonT(40), <1>1 DEF ServiceSound, ClockOK, ServerSound
<1>4. WaitersSound'
  BY DEF WaitersSound, Tied, Same, OneEach
<1>5. ReportSound'
  <2>1. (IF server'.step > Confirming THEN 1 ELSE 0) = 0
    BY <1>1 DEF Loop, Confirming
  <2>2. report'.matched + 0 = report'.matched
    BY DEF Reports
  <2> QED
    BY <2>1, <2>2 DEF ReportSound, Reports
<1> QED
  BY <1>2, <1>3, <1>4, <1>5 DEF Advanced, ServiceSound

\* The expired waiters are retired together.
LEMMA CancelledAllRetires ==
  ASSUME NEW b, SoundBroker(b), NEW t \in Nat, NEW ws
  PROVE  /\ SoundBroker(CancelledAll(b, ws, t))
         /\ \A id : KnownAt(b, id, t) => KnownAt(CancelledAll(b, ws, t), id, t)
<1> DEFINE P == {p \in b.pending : \E w \in ws : w.id = p.id /\ w.device = p.device}
<1>1. P \in SUBSET b.pending
  OBVIOUS
<1>2. CancelledAll(b, ws, t) = Without(b, P, t)
  BY DEF CancelledAll, Without
<1> HIDE DEF P
<1> QED
  BY <1>1, <1>2, WithoutRetires

\* cleanup and close_expired_waiters: what has not expired stays, in the broker and
\* among the connections, and the report follows.
LEMMA SweptSound ==
  ASSUME ServiceSound, AtLoop
  PROVE  /\ SoundBroker(Swept)
         /\ \A id : KnownAt(broker, id, now) => KnownAt(Swept, id, now)
         /\ Fresh(Swept, now)
         /\ Swept.matches = broker.matches
         /\ SweptReport \in Reports
         /\ SweptReport.registrations = Swept.registrations
         /\ SweptReport.matched = report.matched
         /\ SweptReport.rejected = report.rejected
         /\ Tied(waiting \ ExpiredWaiters, Swept.pending)
         /\ OneEach(waiting \ ExpiredWaiters)
<1> DEFINE c == Cleanup(broker, now)
           hit == {p \in c.pending : \E w \in ExpiredWaiters : w.id = p.id /\ w.device = p.device}
<1>0. /\ now \in Nat /\ report \in Reports /\ report.registrations = broker.registrations
      /\ Tied(waiting, broker.pending) /\ OneEach(waiting)
  BY LoopIsIdle
<1>1. SoundBroker(broker) /\ broker.registrations \in Nat
  BY DEF ServiceSound, SoundBroker, BrokerStates
<1>2. /\ SoundBroker(c) /\ (\A id : KnownAt(broker, id, now) => KnownAt(c, id, now))
      /\ c.pending = {p \in broker.pending : ~ (p.expires <= now)}
      /\ c.matches = broker.matches
      /\ c.registrations \in Nat /\ c.registrations <= broker.registrations
      /\ Fresh(c, now)
  BY ZenonT(40), <1>0, <1>1, CleanupRetires, CleanupEffect
<1>3. SoundBroker(Swept) /\ \A id : KnownAt(c, id, now) => KnownAt(Swept, id, now)
  BY ZenonT(40), <1>0, <1>2, CancelledAllRetires DEF Swept
<1>4. hit = {}
  <2>1. OneEach(broker.pending)
    BY <1>1 DEF SoundBroker, TablesSound
  <2>2. SUFFICES ASSUME NEW p \in broker.pending, ~ (p.expires <= now),
                        NEW w \in waiting, w.expires <= now, w.id = p.id
                 PROVE  FALSE
    BY <1>2 DEF ExpiredWaiters
  <2>3. PICK q \in broker.pending : Same(w, q)
    BY <1>0 DEF Tied
  <2>4. q = p
    BY ZenonT(40), <2>1, <2>2, <2>3 DEF OneEach, Same
  <2> QED
    BY <2>2, <2>3, <2>4 DEF Same
<1>5. /\ Swept.pending = c.pending /\ Swept.reserved = c.reserved
      /\ Swept.matches = c.matches /\ Swept.registrations = c.registrations
  <2>1. c \in BrokerStates
    BY <1>2 DEF SoundBroker
  <2>2. Swept = [c EXCEPT !.pending = c.pending \ hit,
                          !.completed = {x \in c.completed : x.id \notin Ids(hit)}
                                          \cup Protected(Ids(hit), now),
                          !.registrations = Released(c.registrations, Cardinality(hit))]
    BY <2>1 DEF Swept, CancelledAll, BrokerStates
  <2>3. Cardinality(hit) = 0
    BY ZenonT(40), <1>2, <1>4 DEF SoundBroker, SetsSized, EmptySized
  <2> HIDE DEF c, hit
  <2>4. Released(c.registrations, Cardinality(hit)) = c.registrations
    BY <1>2, <2>3 DEF Released
  <2> QED
    BY <1>4, <2>1, <2>2, <2>4 DEF BrokerStates
<1> HIDE DEF c, hit
<1>6. Fresh(Swept, now)
  BY <1>2, <1>5 DEF Fresh
<1>7. Released(report.registrations, broker.registrations - Swept.registrations) = Swept.registrations
  BY <1>0, <1>1, <1>2, <1>5, ReleasedTo
<1>8. /\ SweptReport \in Reports /\ SweptReport.registrations = Swept.registrations
      /\ SweptReport.matched = report.matched /\ SweptReport.rejected = report.rejected
  <2>1. SweptReport = [report EXCEPT !.registrations = Swept.registrations]
    BY <1>0, <1>7 DEF SweptReport, Reports
  <2> QED
    BY <1>0, <1>2, <1>5, <2>1, ReportCounts
<1>9. Tied(waiting \ ExpiredWaiters, Swept.pending)
  BY <1>0, <1>2, <1>5 DEF Tied, Same, ExpiredWaiters
<1>10. OneEach(waiting \ ExpiredWaiters)
  BY <1>0 DEF OneEach
<1> QED
  BY <1>2, <1>3, <1>5, <1>6, <1>8, <1>9, <1>10

\* The branches of the loop other than an admission.
LEMMA LoopSteps ==
  ASSUME ServiceSound,
         \/ AdmissionFails \/ WaiterDeadline \/ ServiceTimeout
         \/ \E w \in watchers : WatcherFires(w)
  PROVE  Advanced
<1>0. AtLoop /\ ClientsSound /\ InboxSound /\ open \subseteq Conns
  BY ZenonT(40) DEF ServiceSound, AdmissionFails, WaiterDeadline, ServiceTimeout, WatcherFires
<1>1. /\ outcome = "Serving" /\ now \in Nat
      /\ report \in Reports /\ report.rejected < MaxRejections
      /\ report.registrations = broker.registrations
      /\ report.matched = broker.matches
      /\ Tied(waiting, broker.pending) /\ OneEach(waiting)
      /\ waiting \subseteq [device : Devices, id : Matches, conn : Conns, expires : Nat]
  BY <1>0, LoopIsIdle
<1>2. SoundBroker(broker)
  BY DEF ServiceSound
<1>3. UNCHANGED <<client, inbox>> => ClientsSound' /\ InboxSound'
  BY <1>0 DEF ClientsSound, Attempted, InboxSound
<1>4. broker' = broker => Kept
  BY <1>2 DEF Kept
<1>5. CASE AdmissionFails
  <2>1. /\ report' = Rejection(report) /\ outcome' = OutcomeAfter(report')
        /\ open' \subseteq Conns
        /\ UNCHANGED <<broker, now, client, inbox, acks, server, waiting, watchers>>
    BY <1>0, <1>5 DEF AdmissionFails, Return, brokerVars
  <2>2. /\ report' \in Reports /\ report'.registrations = report.registrations
        /\ report'.matched = report.matched
        /\ outcome' \in {"Serving", "RejectionLimit"}
        /\ outcome' = "Serving" => report'.rejected < MaxRejections
    BY <1>1, <2>1, RejectionCounts
  <2> QED
    BY ZenonT(40), <1>0, <1>1, <1>3, <1>4, <2>1, <2>2, LoopStep DEF Outcomes
<1>6. CASE ServiceTimeout
  <2>1. /\ outcome' = "Timeout" /\ open' \subseteq Conns
        /\ UNCHANGED <<broker, now, client, inbox, server, waiting, report>>
    BY <1>0, <1>6 DEF ServiceTimeout, Return, brokerVars
  <2> QED
    BY <1>0, <1>1, <1>3, <1>4, <2>1, LoopStep DEF Outcomes
<1>7. CASE WaiterDeadline
  <2>1. /\ broker' = Swept /\ report' = SweptReport /\ waiting' = waiting \ ExpiredWaiters
        /\ open' \subseteq Conns /\ UNCHANGED <<now, client, inbox, server, outcome>>
    BY <1>0, <1>7 DEF WaiterDeadline
  <2>2. Kept
    BY ZenonT(40), <1>0, <2>1, SweptSound DEF Kept
  <2> QED
    BY ZenonT(40), <1>0, <1>1, <1>3, <2>1, <2>2, SweptSound, LoopStep DEF Outcomes
<1>8. ASSUME NEW w \in watchers, WatcherFires(w)
      PROVE  Advanced
  <2> DEFINE b == Cancelled(broker, w.device, w.id, now)
  <2>1. /\ broker' = b /\ report' = AfterCancel(b)
        /\ waiting' = {x \in waiting : ~ (x.device = w.device /\ x.id = w.id)}
        /\ UNCHANGED <<now, client, open, inbox, server, outcome>>
    BY ZenonT(40), <1>8 DEF WatcherFires, net
  <2>2. SoundBroker(b) /\ \A i : KnownAt(broker, i, now) => KnownAt(b, i, now)
    BY ZenonT(40), <1>1, <1>2, CancelledRetires
  <2>3. /\ b.pending = broker.pending \ WaitingOf(broker, w.device, w.id)
        /\ b.matches = broker.matches
        /\ b.registrations \in Nat /\ b.registrations <= broker.registrations
    BY <1>1, <1>2, CancelledEffect
  <2> HIDE DEF b
  <2>4. /\ report' \in Reports /\ report'.registrations = b.registrations
        /\ report'.matched = report.matched /\ report'.rejected = report.rejected
    <3>1. broker.registrations \in Nat
      BY ZenonT(40), <1>2, SoundFinite
    <3>2. Released(report.registrations, broker.registrations - b.registrations) = b.registrations
      BY <1>1, <2>3, <3>1, ReleasedTo
    <3>3. report' = [report EXCEPT !.registrations = b.registrations]
      BY <1>1, <2>1, <3>2 DEF AfterCancel, Reports
    <3> QED
      BY <1>1, <2>3, <3>3, ReportCounts
  <2>5. Tied(waiting', broker'.pending) /\ OneEach(waiting')
    <3>1. /\ waiting' \in SUBSET waiting
          /\ \A x \in waiting : x \in waiting' <=> ~ (x.device = w.device /\ x.id = w.id)
      BY <2>1
    <3>2. Tied(waiting', b.pending) /\ OneEach(waiting')
      BY <1>1, <2>3, <3>1 DEF Tied, Same, OneEach, WaitingOf
    <3> QED
      BY <2>1, <3>2
  <2>6. Kept
    BY <2>1, <2>2 DEF Kept
  <2>7. waiting' \subseteq waiting
    BY <2>1
  <2> QED
    BY <1>0, <1>1, <1>3, <2>1, <2>3, <2>4, <2>5, <2>6, <2>7, LoopStep DEF Outcomes
<1> QED
  BY <1>5, <1>6, <1>7, <1>8

\* What an admission finds: the client's attempt, and its next phase.
LEMMA AdmittedSound ==
  ASSUME ServiceSound, NEW c \in Conns, Admitted(c)
  PROVE  /\ AtLoop /\ ClientsSound'
         /\ Device(c) \in Devices /\ Reg(c) \in Registrations
         /\ client'[c].phase # "Idle" /\ client'[c].reg = Reg(c)
<1> DEFINE k == [client[c] EXCEPT !["phase"] = "Served"]
<1>1. AtLoop /\ client[c].phase = "Sent" /\ client' = [client EXCEPT ![c] = k]
  BY ZenonT(40) DEF Admitted
<1>2. ClientsSound /\ Attempted(client[c])
  BY <1>1 DEF ServiceSound, ClientsSound
<1>3. Attempted(k) /\ k.phase = "Served" /\ k.reg = client[c].reg
  BY <1>2, AttemptStays
<1> HIDE DEF k
<1>4. ClientsSound' /\ client'[c].phase # "Idle" /\ client'[c].reg = k.reg
  BY ZenonT(40), <1>1, <1>2, <1>3, ClientMoves
<1> QED
  BY <1>1, <1>2, <1>3, <1>4 DEF Device, Reg, Attempted

\* An admission that is rejected.
LEMMA RejectedStep ==
  ASSUME ServiceSound, NEW c \in Conns, Admitted(c), Kept, UNCHANGED <<now, inbox, server>>,
         NEW rep \in Reports, rep.rejected < MaxRejections,
         rep.registrations = broker'.registrations, rep.matched = broker'.matches,
         report' = Rejection(rep),
         NEW closed, Return(OutcomeAfter(report'), closed),
         waiting' \subseteq waiting, OneEach(waiting'), Tied(waiting', broker'.pending)
  PROVE  Advanced
<1>1. AtLoop /\ ClientsSound'
  BY ZenonT(40), AdmittedSound
<1>2. InboxSound' /\ open' \subseteq Conns /\ outcome' = OutcomeAfter(report')
  BY DEF ServiceSound, InboxSound, Return
<1>3. /\ report' \in Reports /\ report'.registrations = rep.registrations
      /\ report'.matched = rep.matched
      /\ outcome' \in {"Serving", "RejectionLimit"}
      /\ outcome' = "Serving" => report'.rejected < MaxRejections
  BY <1>2, RejectionCounts
<1>4. waiting' \subseteq [device : Devices, id : Matches, conn : Conns, expires : Nat]
  BY <1>1, LoopIsIdle
<1> QED
  BY <1>1, <1>2, <1>3, <1>4, LoopStep DEF Outcomes

\* The waiter that the registration asks for has gone.
LEMMA AdmitWaiterGoneStep ==
  ASSUME ServiceSound, NEW c \in Conns, AdmitWaiterGone(c)
  PROVE  Advanced
<1>1. Admitted(c) /\ AtLoop
  BY AdmittedSound DEF AdmitWaiterGone
<1>2. PICK w \in waiting \ ExpiredWaiters :
        LET b == Cancelled(Swept, w.device, w.id, now)
        IN  /\ broker' = b
            /\ report' = Rejection([SweptReport EXCEPT !.registrations =
                                      Released(@, Swept.registrations - b.registrations)])
            /\ waiting' = (waiting \ ExpiredWaiters) \ {w}
  BY ZenonT(40) DEF AdmitWaiterGone
<1> DEFINE b == Cancelled(Swept, w.device, w.id, now)
           n == [SweptReport EXCEPT !.registrations = b.registrations]
<1>3. /\ now \in Nat /\ report.rejected < MaxRejections /\ report.matched = broker.matches
  BY <1>1, LoopIsIdle
<1>4. /\ SoundBroker(Swept) /\ (\A id : KnownAt(broker, id, now) => KnownAt(Swept, id, now))
      /\ Swept.matches = broker.matches
      /\ SweptReport \in Reports /\ SweptReport.registrations = Swept.registrations
      /\ SweptReport.matched = report.matched /\ SweptReport.rejected = report.rejected
      /\ Tied(waiting \ ExpiredWaiters, Swept.pending) /\ OneEach(waiting \ ExpiredWaiters)
  BY ZenonT(40), <1>1, SweptSound
<1>5. SoundBroker(b) /\ \A id : KnownAt(Swept, id, now) => KnownAt(b, id, now)
  BY ZenonT(40), <1>3, <1>4, CancelledRetires
<1>6. /\ b.pending = Swept.pending \ WaitingOf(Swept, w.device, w.id)
      /\ b.matches = Swept.matches
      /\ b.registrations \in Nat /\ b.registrations <= Swept.registrations
  BY <1>3, <1>4, CancelledEffect
<1>7. broker' = b /\ waiting' = (waiting \ ExpiredWaiters) \ {w}
  BY <1>2
<1>8. report' = Rejection(n)
  <2>1. Swept.registrations \in Nat
    BY <1>4, SoundFinite
  <2> HIDE DEF b
  <2>2. Released(SweptReport.registrations, Swept.registrations - b.registrations) = b.registrations
    BY <1>4, <1>6, <2>1, ReleasedTo
  <2>3. n = [SweptReport EXCEPT !.registrations =
               Released(SweptReport.registrations, Swept.registrations - b.registrations)]
    BY <2>2
  <2> QED
    BY <1>2, <1>4, <2>3 DEF Reports, b
<1> HIDE DEF b
<1>9. n \in Reports /\ n.registrations = b.registrations /\ n.matched = report.matched
      /\ n.rejected = report.rejected
  BY <1>4, <1>6, ReportCounts
<1>10. Kept
  BY <1>4, <1>5, <1>7 DEF Kept
<1>11. Tied(waiting', b.pending) /\ OneEach(waiting')
  <2> DEFINE ws == waiting \ ExpiredWaiters
  <2>1. Tied(ws, Swept.pending) /\ OneEach(ws)
    BY <1>4
  <2>2. /\ waiting' \in SUBSET ws
        /\ \A x \in ws : x \in waiting' <=> ~ (x.device = w.device /\ x.id = w.id)
    BY <1>7, <2>1 DEF OneEach
  <2> HIDE DEF ws
  <2> QED
    BY <2>1, <2>2, <1>6 DEF Tied, Same, OneEach, WaitingOf
<1>12. Tied(waiting', broker'.pending) /\ OneEach(waiting') /\ waiting' \subseteq waiting
  BY <1>7, <1>11
<1>13. /\ UNCHANGED <<now, inbox, server>>
       /\ Return(OutcomeAfter(report'), ExpiredConns \cup {c})
  BY DEF AdmitWaiterGone
<1>14. /\ n.rejected < MaxRejections /\ n.registrations = broker'.registrations
       /\ n.matched = broker'.matches
  BY <1>3, <1>4, <1>6, <1>7, <1>9
<1> HIDE DEF n
<1> QED
  BY ZenonT(40), <1>1, <1>8, <1>9, <1>10, <1>12, <1>13, <1>14, RejectedStep

\* The broker refuses the registration.
LEMMA AdmitRefusedStep ==
  ASSUME ServiceSound, NEW c \in Conns, AdmitRefused(c)
  PROVE  Advanced
<1> DEFINE b == Registered(Swept, Device(c), Reg(c), now)
<1>1. /\ Admitted(c) /\ AtLoop /\ Device(c) \in Devices /\ Reg(c) \in Registrations
  BY ZenonT(40), AdmittedSound DEF AdmitRefused
<1>2. /\ broker' = b
      /\ ~ CanWait(Cleanup(Swept, now), Device(c), Reg(c))
      /\ Partners(Cleanup(Swept, now), Device(c), Reg(c)) = {}
      /\ report' = Rejection(SweptReport)
      /\ waiting' = waiting \ ExpiredWaiters
      /\ Return(OutcomeAfter(report'), ExpiredConns \cup {c})
      /\ UNCHANGED <<now, inbox, server>>
  BY DEF AdmitRefused
<1>3. /\ now \in Nat /\ report.rejected < MaxRejections /\ report.matched = broker.matches
  BY ZenonT(40), <1>1, LoopIsIdle
<1>4. /\ SoundBroker(Swept) /\ (\A id : KnownAt(broker, id, now) => KnownAt(Swept, id, now))
      /\ Fresh(Swept, now) /\ Swept.matches = broker.matches
      /\ SweptReport \in Reports /\ SweptReport.registrations = Swept.registrations
      /\ SweptReport.matched = report.matched /\ SweptReport.rejected = report.rejected
      /\ Tied(waiting \ ExpiredWaiters, Swept.pending) /\ OneEach(waiting \ ExpiredWaiters)
  BY ZenonT(40), <1>1, SweptSound
<1>5. SoundBroker(b) /\ \A id : KnownAt(Swept, id, now) => KnownAt(b, id, now)
  BY ZenonT(40), <1>1, <1>3, <1>4, RegisteredSound
<1>6. b.pending = Swept.pending /\ b.matches = Swept.matches
      /\ b.registrations = Swept.registrations
  <2>1. /\ SoundBroker(Swept) /\ now \in Nat /\ Fresh(Swept, now)
        /\ ~ CanWait(Cleanup(Swept, now), Device(c), Reg(c))
        /\ Partners(Cleanup(Swept, now), Device(c), Reg(c)) = {}
    BY ZenonT(40), <1>2, <1>3, <1>4
  <2> QED
    BY <2>1, RegisteredRefused
<1> HIDE DEF b
<1>7. Kept
  BY ZenonT(40), <1>2, <1>4, <1>5 DEF Kept
<1>8. Tied(waiting', broker'.pending) /\ OneEach(waiting') /\ waiting' \subseteq waiting
  BY ZenonT(40), <1>2, <1>4, <1>6
<1>9. /\ SweptReport.rejected < MaxRejections
      /\ SweptReport.registrations = broker'.registrations
      /\ SweptReport.matched = broker'.matches
  BY ZenonT(40), <1>2, <1>3, <1>4, <1>6
<1> QED
  BY ZenonT(40), <1>1, <1>2, <1>4, <1>7, <1>8, <1>9, RejectedStep

\* The registration waits: the broker's table and the server's get the same entry.
LEMMA AdmitWaitingStep ==
  ASSUME ServiceSound, NEW c \in Conns, AdmitWaiting(c)
  PROVE  Advanced
<1> DEFINE d == Device(c)
           r == Reg(c)
           b == Registered(Swept, d, r, now)
           ws == waiting \ ExpiredWaiters
           e == [device |-> d, id |-> r.id, conn |-> c, expires |-> now + r.ttl]
<1>1. Admitted(c) /\ AtLoop /\ ClientsSound' /\ d \in Devices /\ r \in Registrations
  BY AdmittedSound DEF AdmitWaiting
<1>2. /\ CanWait(Cleanup(Swept, now), d, r)
      /\ broker' = b
      /\ inbox' = Delivered(c, Msg("Waiting", c))
      /\ waiting' = ws \cup {e}
      /\ report' = [SweptReport EXCEPT !.registrations = @ + 1]
      /\ outcome' \in {"Unmatched", "Serving"}
      /\ open' \subseteq open
      /\ UNCHANGED <<now, server>>
  BY DEF AdmitWaiting, Return
<1>3. /\ now \in Nat /\ report.rejected < MaxRejections /\ report.matched = broker.matches
      /\ waiting \subseteq [device : Devices, id : Matches, conn : Conns, expires : Nat]
  BY ZenonT(40), <1>1, LoopIsIdle
<1>4. /\ SoundBroker(Swept) /\ (\A id : KnownAt(broker, id, now) => KnownAt(Swept, id, now))
      /\ Fresh(Swept, now) /\ Swept.matches = broker.matches
      /\ SweptReport \in Reports /\ SweptReport.registrations = Swept.registrations
      /\ SweptReport.matched = report.matched /\ SweptReport.rejected = report.rejected
      /\ Tied(ws, Swept.pending) /\ OneEach(ws)
  BY ZenonT(40), <1>1, SweptSound
<1>5. SoundBroker(b) /\ \A id : KnownAt(Swept, id, now) => KnownAt(b, id, now)
  BY ZenonT(40), <1>1, <1>3, <1>4, RegisteredSound
<1>6. /\ b.pending = Swept.pending \cup {Waiter(d, r, now)}
      /\ b.matches = Swept.matches
      /\ b.registrations = Swept.registrations + 1
      /\ ~ Has(Swept.pending, r.id)
  BY <1>2, <1>3, <1>4, RegisteredWaits
<1>7. e \in [device : Devices, id : Matches, conn : Conns, expires : Nat]
      /\ e.id = r.id /\ Same(e, Waiter(d, r, now))
  <2>1. r.ttl \in 1 .. MaxTtl /\ MaxTtl \in Nat /\ r.id \in Matches
    BY ZenonT(40), <1>1, BrokerAssumption DEF Registrations
  <2>2. now + r.ttl \in Nat
    BY <1>3, <2>1
  <2> QED
    BY <1>1, <2>1, <2>2 DEF Same, Waiter
<1>8. InboxSound' /\ open' \subseteq Conns
  <2>1. Msg("Waiting", c) \in Messages
    BY DEF Msg, Messages
  <2> QED
    BY <1>2, <2>1, DeliveredSound DEF ServiceSound, InboxSound
<1> HIDE DEF b, d, r, e
<1>9. Kept
  BY <1>2, <1>4, <1>5 DEF Kept
<1> HIDE DEF ws
<1>10. \A x \in ws : x.id # e.id
  BY ZenonT(40), <1>4, <1>6, <1>7 DEF Tied, Same, Has
<1>11. OneEach(waiting') /\ Tied(waiting', broker'.pending)
  <2>1. OneEach(ws \cup {e})
    BY ZenonT(40), <1>4, <1>10 DEF OneEach
  <2>2. Tied(ws \cup {e}, Swept.pending \cup {Waiter(d, r, now)})
    BY ZenonT(40), <1>4, <1>7 DEF Tied
  <2> QED
    BY <1>2, <1>6, <2>1, <2>2
<1>12. waiting' \subseteq [device : Devices, id : Matches, conn : Conns, expires : Nat]
  BY <1>2, <1>3, <1>7 DEF ws
<1>13. /\ report' \in Reports /\ report'.registrations = broker'.registrations
       /\ report'.matched = broker'.matches /\ report'.rejected < MaxRejections
  <2>1. Swept.registrations + 1 \in Nat
    BY <1>4, SoundFinite
  <2>2. report' = [SweptReport EXCEPT !.registrations = Swept.registrations + 1]
    BY <1>2, <1>4 DEF Reports
  <2> QED
    BY <1>2, <1>3, <1>4, <1>6, <2>1, <2>2, ReportCounts
<1> QED
  BY <1>1, <1>2, <1>8, <1>9, <1>11, <1>12, <1>13, LoopStep DEF Outcomes

\* The registration waits and is cancelled at once.
LEMMA AdmitWaitingUnsentStep ==
  ASSUME ServiceSound, NEW c \in Conns, AdmitWaitingUnsent(c)
  PROVE  Advanced
<1> DEFINE d == Device(c)
           r == Reg(c)
           b == Registered(Swept, d, r, now)
           n == Cancelled(b, d, r.id, now)
           p == Waiter(d, r, now)
<1>1. Admitted(c) /\ AtLoop /\ d \in Devices /\ r \in Registrations
  BY ZenonT(40), AdmittedSound DEF AdmitWaitingUnsent
<1>2. /\ CanWait(Cleanup(Swept, now), d, r)
      /\ broker' = n
      /\ waiting' = waiting \ ExpiredWaiters
      /\ report' = Rejection(SweptReport)
      /\ Return(OutcomeAfter(report'), ExpiredConns \cup {c})
      /\ UNCHANGED <<now, inbox, server>>
  BY DEF AdmitWaitingUnsent, UnsentWaiting
<1>3. /\ now \in Nat /\ report.rejected < MaxRejections /\ report.matched = broker.matches
  BY <1>1, LoopIsIdle
<1>4. /\ SoundBroker(Swept) /\ (\A id : KnownAt(broker, id, now) => KnownAt(Swept, id, now))
      /\ Fresh(Swept, now) /\ Swept.matches = broker.matches
      /\ SweptReport \in Reports /\ SweptReport.registrations = Swept.registrations
      /\ SweptReport.matched = report.matched /\ SweptReport.rejected = report.rejected
      /\ Tied(waiting \ ExpiredWaiters, Swept.pending) /\ OneEach(waiting \ ExpiredWaiters)
  BY ZenonT(40), <1>1, SweptSound
<1>5. SoundBroker(b) /\ \A id : KnownAt(Swept, id, now) => KnownAt(b, id, now)
  BY ZenonT(40), <1>1, <1>3, <1>4, RegisteredSound
<1>6. /\ b.pending = Swept.pending \cup {p}
      /\ b.matches = Swept.matches
      /\ b.registrations = Swept.registrations + 1
      /\ ~ Has(Swept.pending, r.id)
  BY ZenonT(40), <1>2, <1>3, <1>4, RegisteredWaits
<1>7. p.id = r.id /\ p.device = d
  BY DEF Waiter
<1> HIDE DEF b, d, r, p
<1>8. SoundBroker(n) /\ \A id : KnownAt(b, id, now) => KnownAt(n, id, now)
  BY ZenonT(40), <1>3, <1>5, CancelledRetires
<1>9. WaitingOf(b, d, r.id) = {p}
  BY ZenonT(40), <1>6, <1>7 DEF WaitingOf, Has
<1>10. /\ n.pending = b.pending \ {p} /\ n.matches = b.matches
       /\ n.registrations = b.registrations - 1
  BY <1>3, <1>5, <1>9, CancelledEffect
<1> HIDE DEF n
<1>11. n.pending = Swept.pending
  BY <1>6, <1>7, <1>10 DEF Has
<1>12. Swept.registrations \in Nat
  BY ZenonT(40), <1>4, SoundFinite
<1>13. n.registrations = Swept.registrations
  BY <1>6, <1>10, <1>12
<1>14. Kept
  BY ZenonT(40), <1>2, <1>4, <1>5, <1>8 DEF Kept
<1>15. Tied(waiting', broker'.pending) /\ OneEach(waiting') /\ waiting' \subseteq waiting
  BY ZenonT(40), <1>2, <1>4, <1>11
<1>16. /\ SweptReport.rejected < MaxRejections
       /\ SweptReport.registrations = broker'.registrations
       /\ SweptReport.matched = broker'.matches
  BY ZenonT(40), <1>2, <1>3, <1>4, <1>6, <1>10, <1>13
<1> QED
  BY ZenonT(40), <1>1, <1>2, <1>4, <1>14, <1>15, <1>16, RejectedStep

\* The registration finds its partner: the waiter's connection is always there, and
\* the exchange begins with the match reserved.
LEMMA AdmitMatchedStep ==
  ASSUME ServiceSound, NEW c \in Conns, AdmitMatched(c)
  PROVE  Advanced
<1> DEFINE d == Device(c)
           r == Reg(c)
           ws == waiting \ ExpiredWaiters
<1>1. /\ Admitted(c) /\ AtLoop /\ ClientsSound' /\ d \in Devices /\ r \in Registrations
      /\ client'[c].phase # "Idle" /\ client'[c].reg = r
  BY AdmittedSound DEF AdmitMatched
<1>2. PICK w \in Partners(Cleanup(Swept, now), d, r) :
        LET b == TakenDelivery(Registered(Swept, d, r, now), w.device, w.id, now)
            held == {x \in ws : x.device = w.device /\ x.id = w.id}
            counted == [SweptReport EXCEPT !.registrations = @ + 1]
        IN  /\ waiting' = ws \ held
            /\ held # {} =>
                 /\ broker' = b
                 /\ report' = counted
                 /\ server' = [step |-> 1, caller |-> c, waiter |-> (CHOOSE x \in held : TRUE).conn]
                 /\ Return("Serving", ExpiredConns)
  BY ZenonT(40) DEF AdmitMatched
<1> DEFINE a == Registered(Swept, d, r, now)
           b == TakenDelivery(a, w.device, w.id, now)
           held == {x \in ws : x.device = w.device /\ x.id = w.id}
<1>3. /\ now \in Nat /\ report.rejected < MaxRejections /\ report.matched = broker.matches
      /\ waiting \subseteq [device : Devices, id : Matches, conn : Conns, expires : Nat]
      /\ outcome = "Serving"
  BY ZenonT(40), <1>1, LoopIsIdle
<1>4. /\ SoundBroker(Swept) /\ (\A id : KnownAt(broker, id, now) => KnownAt(Swept, id, now))
      /\ Fresh(Swept, now) /\ Swept.matches = broker.matches
      /\ SweptReport \in Reports /\ SweptReport.registrations = Swept.registrations
      /\ SweptReport.matched = report.matched /\ SweptReport.rejected = report.rejected
      /\ Tied(ws, Swept.pending) /\ OneEach(ws)
  BY ZenonT(40), <1>1, SweptSound
<1>5. SoundBroker(a) /\ \A id : KnownAt(Swept, id, now) => KnownAt(a, id, now)
  BY ZenonT(40), <1>1, <1>3, <1>4, RegisteredSound
<1>6. /\ w \in Swept.pending /\ w.id = r.id
      /\ a.pending = Swept.pending \ {w} /\ a.matches = Swept.matches
      /\ a.registrations = Swept.registrations + 1
      /\ Has(a.reserved, r.id) /\ Fresh(a, now)
  BY <1>1, <1>2, <1>3, <1>4, RegisteredMatches
<1> HIDE DEF a
<1>7. SoundBroker(b) /\ \A id : KnownAt(a, id, now) => KnownAt(b, id, now)
  BY ZenonT(40), <1>3, <1>5, TakenSound
<1>8. b.pending = a.pending /\ b.reserved = a.reserved /\ b.matches = a.matches
      /\ b.registrations = a.registrations
  <2>1. SoundBroker(a) /\ now \in Nat /\ Fresh(a, now)
    BY ZenonT(40), <1>3, <1>5, <1>6
  <2> QED
    BY <2>1, TakenEffect
<1>9. held # {}
  BY ZenonT(40), <1>4, <1>6 DEF Tied, Same
<1>10. /\ waiting' = ws \ held /\ broker' = b
       /\ report' = [SweptReport EXCEPT !.registrations = @ + 1]
       /\ server' = [step |-> 1, caller |-> c, waiter |-> (CHOOSE x \in held : TRUE).conn]
       /\ Return("Serving", ExpiredConns)
  BY ZenonT(40), <1>2, <1>9 DEF a
<1>11. (CHOOSE x \in held : TRUE).conn \in Conns
  <2>1. (CHOOSE x \in held : TRUE) \in waiting
    BY <1>9
  <2> QED
    BY ZenonT(40), <1>3, <2>1
<1> HIDE DEF b
<1>12. Kept /\ SoundBroker(broker)'
  BY <1>4, <1>5, <1>7, <1>10 DEF Kept
<1>13. Tied(waiting', broker'.pending) /\ OneEach(waiting') /\ waiting' \subseteq waiting
  <2>1. OneEach(Swept.pending)
    BY ZenonT(40), <1>4 DEF SoundBroker, TablesSound
  <2> HIDE DEF ws
  <2>2. Tied(ws \ held, Swept.pending \ {w})
    BY <1>4, <1>6, <2>1 DEF Tied, Same, OneEach
  <2>3. OneEach(ws \ held)
    BY ZenonT(40), <1>4 DEF OneEach
  <2>4. waiting' \subseteq ws /\ ws \subseteq waiting
    BY <1>10 DEF ws
  <2> QED
    BY ZenonT(40), <1>6, <1>8, <1>10, <2>2, <2>3, <2>4
<1> DEFINE v == (CHOOSE x \in held : TRUE).conn
<1> HIDE DEF ws, held, v
<1>14. server' = [step |-> 1, caller |-> c, waiter |-> v] /\ v \in Conns
  BY <1>10, <1>11 DEF v
<1>15. ServerSound'
  <2>1. Has(broker'.reserved, r.id)
    BY <1>6, <1>8, <1>10
  <2>2. server' \in [step : 1 .. Ending, caller : Conns, waiter : Conns] /\ server'.caller = c
    BY <1>14 DEF Ending
  <2> QED
    BY ZenonT(40), <1>1, <2>1, <2>2 DEF ServerSound, Reg
<1>16. ReportSound'
  <2>1. Swept.registrations + 1 \in Nat
    BY <1>4, SoundFinite
  <2>2. report' = [SweptReport EXCEPT !.registrations = Swept.registrations + 1]
    BY <1>4, <1>10 DEF Reports
  <2>3. /\ report' \in Reports /\ report'.registrations = broker'.registrations
        /\ report'.matched = broker'.matches /\ report'.rejected < MaxRejections
    BY <1>3, <1>4, <1>6, <1>8, <1>10, <2>1, <2>2, ReportCounts
  <2>4. (IF server'.step > Confirming THEN 1 ELSE 0) = 0
    BY <1>14 DEF Confirming
  <2>5. report'.matched + 0 = report'.matched
    BY <2>3 DEF Reports
  <2> QED
    BY ZenonT(40), <2>3, <2>4, <2>5 DEF ReportSound, Reports
<1>17. WaitersSound'
  BY ZenonT(40), <1>3, <1>13 DEF WaitersSound, OneEach, Tied, Same
<1>18. open' \subseteq Conns /\ outcome' \in Outcomes /\ InboxSound' /\ ClockOK'
  <2>1. UNCHANGED <<now, inbox>>
    BY DEF AdmitMatched
  <2> QED
    BY <1>10, <2>1 DEF Return, ServiceSound, InboxSound, ClockOK, Outcomes
<1> QED
  BY ZenonT(40), <1>1, <1>12, <1>15, <1>16, <1>17, <1>18 DEF Advanced, ServiceSound

\* What the server has in hand during an exchange.
LEMMA ExchangeIsBusy ==
  ASSUME ServiceSound, InExchange
  PROVE  /\ server \in [step : 1 .. Ending, caller : Conns, waiter : Conns]
         /\ client[server.caller].phase # "Idle"
         /\ server.step <= Confirming => Has(broker.reserved, Reg(server.caller).id)
         /\ now \in Nat
         /\ report \in Reports /\ report.rejected < MaxRejections
         /\ report.registrations = broker.registrations
         /\ broker.matches = report.matched + (IF server.step > Confirming THEN 1 ELSE 0)
         /\ Tied(waiting, broker.pending)
         /\ Here \in Conns /\ There \in Conns
<1>1. server # Loop
  BY DEF InExchange, Loop
<1>2. /\ server \in [step : 1 .. Ending, caller : Conns, waiter : Conns]
      /\ client[server.caller].phase # "Idle"
      /\ server.step <= Confirming => Has(broker.reserved, Reg(server.caller).id)
  BY <1>1 DEF ServiceSound, ServerSound
<1>3. now \in Nat
  BY BrokerAssumption DEF ServiceSound, ClockOK
<1>4. /\ report \in Reports /\ report.rejected < MaxRejections
      /\ report.registrations = broker.registrations
      /\ broker.matches = report.matched + (IF server.step > Confirming THEN 1 ELSE 0)
      /\ Tied(waiting, broker.pending)
  BY DEF InExchange, ServiceSound, ReportSound, WaitersSound, Reports
<1>5. Here \in Conns /\ There \in Conns
  BY ZenonT(40), <1>2 DEF Here, There
<1> QED
  BY <1>2, <1>3, <1>4, <1>5

\* The operation of each step of the exchange.
LEMMA EntryShape ==
  ASSUME ServiceSound, InExchange
  PROVE  /\ Entry.op = "tell" <=> server.step > Confirming
         /\ Entry.op = "confirm" <=> server.step = Confirming
         /\ Entry.op = "send" => Msg(Entry.kind, There) \in Messages
<1>1. server.step \in 1 .. Ending /\ There \in Conns
  BY ExchangeIsBusy
<1> DEFINE s == server.step
<1>2. Entry = Script[s]
  BY DEF Entry
<1> HIDE DEF s
<1>3. s \in 1 .. Ending
  BY <1>1 DEF s
<1>4. /\ Script[s].op = "tell" <=> s > Confirming
      /\ Script[s].op = "confirm" <=> s = Confirming
      /\ Script[s].op = "send" => Script[s].kind \in {"Delivery", "Commit"}
  BY <1>3, ScriptShape
<1>5. Entry.op = "send" => Msg(Entry.kind, There) \in Messages
  BY <1>1, <1>2, <1>4 DEF Msg, Messages
<1> QED
  BY <1>2, <1>4, <1>5 DEF s

\* The exchange goes from one step to the next.
LEMMA AdvanceStep ==
  ASSUME ServiceSound, InExchange, Advance, Kept, server.step < Ending,
         UNCHANGED <<now, client, open, waiting, report, outcome>>, InboxSound',
         broker'.pending = broker.pending,
         broker'.registrations = broker.registrations,
         broker'.matches = broker.matches + (IF server.step = Confirming THEN 1 ELSE 0),
         server.step < Confirming => broker'.reserved = broker.reserved
  PROVE  Advanced
<1>1. /\ server \in [step : 1 .. Ending, caller : Conns, waiter : Conns]
      /\ client[server.caller].phase # "Idle"
      /\ server.step <= Confirming => Has(broker.reserved, Reg(server.caller).id)
      /\ report \in Reports /\ report.rejected < MaxRejections
      /\ report.registrations = broker.registrations
      /\ broker.matches = report.matched + (IF server.step > Confirming THEN 1 ELSE 0)
      /\ Tied(waiting, broker.pending)
  BY ZenonT(40), ExchangeIsBusy
<1> DEFINE s == server.step
<1>2. s \in 1 .. 12 /\ s + 1 \in 1 .. 13 /\ s \in Int
  BY <1>1 DEF Ending
<1>3. /\ server' = [step |-> s + 1, caller |-> server.caller, waiter |-> server.waiter]
  BY <1>1 DEF Advance
<1> HIDE DEF s
<1>4. /\ server' \in [step : 1 .. Ending, caller : Conns, waiter : Conns]
      /\ server'.step = s + 1 /\ server'.caller = server.caller
  BY ZenonT(40), <1>1, <1>2, <1>3 DEF Ending
<1>5. ServerSound'
  <2>1. server'.step <= Confirming => s < Confirming /\ s <= Confirming
    BY <1>2, <1>4 DEF Confirming
  <2>2. server'.step <= Confirming => Has(broker'.reserved, Reg(server.caller).id)
    BY ZenonT(40), <1>1, <2>1 DEF s
  <2> QED
    BY <1>1, <1>4, <2>2 DEF ServerSound, Reg
<1>6. ReportSound'
  <2>1. report.matched \in Nat
    BY ZenonT(40), <1>1 DEF Reports
  <2>2. /\ broker.matches = report.matched + (IF s > 11 THEN 1 ELSE 0)
        /\ broker'.matches = broker.matches + (IF s = 11 THEN 1 ELSE 0)
    BY <1>1 DEF s, Confirming
  <2>3. broker'.matches = report.matched + (IF s + 1 > 11 THEN 1 ELSE 0)
    BY <1>2, <2>1, <2>2
  <2> QED
    BY <1>1, <1>4, <2>3 DEF ReportSound, Reports, Confirming
<1>7. WaitersSound'
  BY <1>1 DEF ServiceSound, WaitersSound, OneEach, Tied, Same
<1>8. SoundBroker(broker)'
  BY DEF Kept
<1>9. ClientsSound' /\ ClockOK' /\ open' \subseteq Conns /\ outcome' \in Outcomes
  BY DEF ServiceSound, ClientsSound, Attempted, ClockOK
<1> QED
  BY <1>5, <1>6, <1>7, <1>8, <1>9 DEF Advanced, ServiceSound

\* A step of the exchange that leaves the broker alone.
LEMMA ExchangeMoves ==
  ASSUME ServiceSound, ExchangeSend \/ ExchangeAwait \/ ExchangeQuiet
  PROVE  Advanced
<1>1. /\ InExchange /\ Advance /\ Entry.op \in {"send", "await", "quiet"}
      /\ UNCHANGED <<brokerVars, client, open, waiting, report, outcome>>
      /\ \/ inbox' = inbox
         \/ Entry.op = "send" /\ inbox' = Delivered(Here, Msg(Entry.kind, There))
  BY DEF ExchangeSend, ExchangeAwait, ExchangeQuiet, net
<1>2. server.step \in 1 .. Ending /\ server.step # Confirming /\ ~ (server.step > Confirming)
      /\ (Entry.op = "send" => Msg(Entry.kind, There) \in Messages)
  BY ZenonT(40), <1>1, ExchangeIsBusy, EntryShape
<1>3. server.step < Ending /\ server.step < Confirming
  BY <1>2 DEF Ending, Confirming
<1>4. InboxSound'
  BY <1>1, <1>2, ExchangeIsBusy, DeliveredSound DEF ServiceSound, InboxSound
<1>5. broker' = broker /\ now' = now /\ broker.matches \in Nat
  BY ZenonT(40), <1>1, SoundFinite DEF brokerVars, ServiceSound
<1>6. Kept
  BY <1>5 DEF Kept, ServiceSound
<1>7. broker'.matches = broker.matches + (IF server.step = Confirming THEN 1 ELSE 0)
  BY <1>2, <1>5
<1> QED
  BY <1>1, <1>3, <1>4, <1>5, <1>6, <1>7, AdvanceStep

\* The match is confirmed.
LEMMA ExchangeConfirms ==
  ASSUME ServiceSound, ExchangeConfirm
  PROVE  Advanced
<1> DEFINE id == Reg(server.caller).id
<1>1. /\ InExchange /\ Advance /\ Entry.op = "confirm"
      /\ Confirmable(broker, id, now)
      /\ broker' = Confirmed(broker, id, now)
      /\ UNCHANGED <<now, client, open, inbox, waiting, report, outcome>>
  BY DEF ExchangeConfirm, net
<1> HIDE DEF id
<1>2. server.step = Confirming /\ now \in Nat /\ SoundBroker(broker)
  BY ZenonT(40), <1>1, EntryShape, ExchangeIsBusy DEF ServiceSound
<1>3. Kept
  BY <1>1, <1>2, ConfirmedSound DEF Kept
<1>4. /\ broker'.pending = broker.pending /\ broker'.registrations = broker.registrations
      /\ broker'.matches = broker.matches + 1
  BY <1>1, <1>2 DEF Confirmed, SoundBroker, BrokerStates
<1>5. server.step < Ending /\ ~ (server.step < Confirming)
  BY <1>2 DEF Ending, Confirming
<1>6. InboxSound'
  BY <1>1 DEF ServiceSound, InboxSound
<1> QED
  BY <1>1, <1>2, <1>3, <1>4, <1>5, <1>6, AdvanceStep

\* The sides are told, and the match is reported.
LEMMA ExchangeTells ==
  ASSUME ServiceSound, ExchangeTell
  PROVE  Advanced
<1>1. /\ InExchange /\ Entry.op = "tell"
      /\ inbox' \in {inbox, Delivered(Here, Msg("Complete", There))}
      /\ UNCHANGED <<brokerVars, client>>
  BY DEF ExchangeTell
<1>2. /\ server.step \in 1 .. Ending /\ server.step > Confirming
      /\ Here \in Conns /\ There \in Conns
      /\ report \in Reports /\ report.rejected < MaxRejections
      /\ report.registrations = broker.registrations
      /\ broker.matches = report.matched + 1
      /\ Tied(waiting, broker.pending)
  BY ZenonT(40), <1>1, EntryShape, ExchangeIsBusy
<1>3. InboxSound'
  <2>1. Msg("Complete", There) \in Messages
    BY <1>2 DEF Msg, Messages
  <2>2. Delivered(Here, Msg("Complete", There)) \in [Conns -> Seq(Messages)]
    BY <1>2, <2>1, DeliveredSound DEF ServiceSound
  <2> QED
    BY <1>1, <2>2 DEF ServiceSound, InboxSound
<1>4. broker' = broker /\ now' = now /\ broker.matches \in Nat
  BY <1>1, SoundFinite DEF brokerVars, ServiceSound
<1>5. Kept
  BY <1>4 DEF Kept, ServiceSound
<1>6. CASE server.step < Len(Script)
  <2>1. Advance /\ UNCHANGED <<report, outcome, open, waiting>>
    BY <1>6 DEF ExchangeTell
  <2>2. server.step < Ending
    BY <1>6, ScriptShape
  <2>3. /\ broker'.matches = broker.matches + (IF server.step = Confirming THEN 1 ELSE 0)
        /\ ~ (server.step < Confirming)
    BY <1>2, <1>4 DEF Confirming
  <2> QED
    BY <1>1, <1>3, <1>4, <1>5, <2>1, <2>2, <2>3, AdvanceStep
<1>7. CASE ~ (server.step < Len(Script))
  <2>1. /\ server' = Loop
        /\ report' = [report EXCEPT !.matched = @ + 1]
        /\ \/ outcome' = "Ok" /\ open' \subseteq open /\ waiting' = {}
           \/ UNCHANGED <<outcome, open, waiting>>
    BY <1>7 DEF ExchangeTell
  <2>2. report' \in Reports /\ report'.registrations = report.registrations
        /\ report'.rejected = report.rejected /\ report'.matched = report.matched + 1
    BY <1>2, <2>1 DEF Reports
  <2>3. ServerSound'
    BY <2>1 DEF ServerSound
  <2>4. ReportSound'
    <3>1. (IF server'.step > Confirming THEN 1 ELSE 0) = 0
      BY <2>1 DEF Loop, Confirming
    <3>2. broker'.matches = report'.matched /\ report'.matched \in Nat
      BY <1>2, <1>4, <2>2 DEF Reports
    <3>3. broker'.matches = report'.matched + (IF server'.step > Confirming THEN 1 ELSE 0)
      BY <3>1, <3>2
    <3> QED
      BY <1>2, <1>4, <2>2, <3>3 DEF ReportSound, Reports
  <2>5. WaitersSound'
    BY <1>2, <1>4, <2>1 DEF ServiceSound, WaitersSound, OneEach, Tied, Same
  <2>6. SoundBroker(broker)'
    BY <1>5 DEF Kept
  <2>7. ClientsSound' /\ ClockOK' /\ open' \subseteq Conns /\ outcome' \in Outcomes
    BY <1>1, <1>4, <2>1 DEF ServiceSound, ClientsSound, Attempted, ClockOK, Outcomes
  <2> QED
    BY <1>3, <1>5, <2>3, <2>4, <2>5, <2>6, <2>7 DEF Advanced, ServiceSound
<1> QED
  BY <1>6, <1>7

\* The match is rolled back: it is reserved, so that the abort gives back its two
\* registrations and keeps its id.
LEMMA ExchangeAborts ==
  ASSUME ServiceSound, ExchangeFails
  PROVE  Advanced
<1> DEFINE b == Aborted(broker, Reg(server.caller).id, now)
<1>1. /\ InExchange /\ Entry.op # "tell" /\ broker' = b
      /\ report' = Rejection(AbortReport(b))
      /\ inbox' \in {inbox} \cup
           IF Entry.op = "send" THEN {Delivered(Here, Msg(Entry.kind, There))} ELSE {}
      /\ server' = Loop
      /\ Return(OutcomeAfter(report'), {server.caller, server.waiter})
      /\ UNCHANGED <<now, client, waiting>>
  BY ZenonT(40) DEF ExchangeFails, CanFail
<1>2. /\ server.step \in 1 .. Ending /\ ~ (server.step > Confirming)
      /\ (Entry.op = "send" => Msg(Entry.kind, There) \in Messages)
      /\ Here \in Conns
  BY ZenonT(40), <1>1, EntryShape, ExchangeIsBusy
<1>3. server.step <= Confirming
  BY <1>2 DEF Ending, Confirming
<1>4. /\ Has(broker.reserved, Reg(server.caller).id) /\ now \in Nat /\ SoundBroker(broker)
      /\ report \in Reports /\ report.rejected < MaxRejections
      /\ report.registrations = broker.registrations
      /\ broker.matches = report.matched + 0
      /\ Tied(waiting, broker.pending)
  BY ZenonT(40), <1>1, <1>2, <1>3, ExchangeIsBusy DEF ServiceSound
<1>5. SoundBroker(b) /\ \A i : KnownAt(broker, i, now) => KnownAt(b, i, now)
  BY ZenonT(40), <1>4, AbortedRetires
<1>6. /\ b.pending = broker.pending /\ b.matches = broker.matches
      /\ b.registrations \in Nat /\ b.registrations <= broker.registrations
      /\ broker.registrations \in Nat
  BY ZenonT(40), <1>4, AbortedEffect, SoundFinite
<1> HIDE DEF b
<1>7. Kept
  BY ZenonT(40), <1>1, <1>5 DEF Kept
<1>8. AbortReport(b) = [report EXCEPT !.registrations = b.registrations]
  <2>1. Released(broker.registrations, broker.registrations - b.registrations) = b.registrations
    BY <1>6, ReleasedTo
  <2> QED
    BY <1>4, <2>1 DEF AbortReport, Reports
<1>9. /\ AbortReport(b) \in Reports
      /\ AbortReport(b).registrations = b.registrations
      /\ AbortReport(b).matched = report.matched
      /\ AbortReport(b).rejected < MaxRejections
  BY <1>4, <1>6, <1>8, ReportCounts
<1>10. /\ report' \in Reports
       /\ report'.registrations = b.registrations
       /\ report'.matched = report.matched
       /\ outcome' \in Outcomes
       /\ outcome' = "Serving" => report'.rejected < MaxRejections
       /\ open' \subseteq open
  BY ZenonT(40), <1>1, <1>9, RejectionCounts DEF Return, Outcomes
<1>11. InboxSound'
  BY ZenonT(40), <1>1, <1>2, DeliveredSound DEF ServiceSound, InboxSound
<1>12. ServerSound'
  BY ZenonT(40), <1>1 DEF ServerSound
<1>13. ReportSound'
  <2>1. (IF server'.step > Confirming THEN 1 ELSE 0) = 0
    BY <1>1 DEF Loop, Confirming
  <2>2. broker'.matches = report'.matched + 0
    BY ZenonT(40), <1>1, <1>4, <1>6, <1>10
  <2> QED
    BY ZenonT(40), <1>1, <1>10, <2>1, <2>2 DEF ReportSound, Reports
<1>14. WaitersSound'
  BY ZenonT(40), <1>1, <1>4, <1>6 DEF ServiceSound, WaitersSound, OneEach, Tied, Same
<1>15. SoundBroker(broker)'
  BY <1>7 DEF Kept
<1>16. ClientsSound' /\ ClockOK' /\ open' \subseteq Conns
  BY <1>1, <1>10 DEF ServiceSound, ClientsSound, Attempted, ClockOK
<1> QED
  BY <1>7, <1>10, <1>11, <1>12, <1>13, <1>14, <1>15, <1>16 DEF Advanced, ServiceSound

\* Time passes.
LEMMA TickStep ==
  ASSUME ServiceSound, ServiceTick
  PROVE  Advanced
<1>1. /\ now < MaxTime /\ now' = now + 1 /\ broker' = broker
      /\ UNCHANGED <<client, open, inbox, server, waiting, report, outcome>>
  BY DEF ServiceTick, Tick, net, task
<1>2. ClockOK'
  BY <1>1, BrokerAssumption DEF ServiceSound, ClockOK
<1>3. Kept /\ SoundBroker(broker)'
  BY <1>1 DEF Kept, ServiceSound
<1>4. ClientsSound' /\ InboxSound' /\ open' \subseteq Conns /\ outcome' \in Outcomes
  BY <1>1 DEF ServiceSound, ClientsSound, Attempted, InboxSound
<1>5. ServerSound' /\ ReportSound' /\ WaitersSound'
  BY ZenonT(40), <1>1 DEF ServiceSound, ServerSound, Reg, ReportSound, WaitersSound, OneEach, Tied, Same
<1> QED
  BY <1>2, <1>3, <1>4, <1>5 DEF Advanced, ServiceSound

\* Every step of the service keeps its invariant, and the broker remembers.
LEMMA ServiceStep ==
  ASSUME ServiceSound, [Next]_vars
  PROVE  Advanced
<1>1. CASE UNCHANGED vars
  <2>1. UNCHANGED <<brokerVars, net, task>>
    BY <1>1 DEF vars
  <2>2. ClientsSound' /\ AttemptsKept /\ InboxSound' /\ open' \subseteq Conns
    BY <2>1 DEF net, ServiceSound, ClientsSound, Attempted, AttemptsKept, InboxSound
  <2> QED
    BY <2>1, <2>2, QuietStep
<1>2. CASE Next
  <2>1. CASE ServiceTick
    BY <2>1, TickStep
  <2>2. CASE \E c \in Conns : ClientStart(c) \/ ClientReceive(c) \/ ClientFail(c) \/ CloseMatched(c)
    BY <2>2, ClientSteps
  <2>3. CASE \E c \in Conns : Admit(c)
    BY <2>3, AdmitWaiterGoneStep, AdmitRefusedStep, AdmitWaitingStep, AdmitWaitingUnsentStep,
       AdmitMatchedStep DEF Admit
  <2>4. CASE AdmissionFails \/ WaiterDeadline \/ ServiceTimeout \/ \E w \in watchers : WatcherFires(w)
    BY <2>4, LoopSteps
  <2>5. CASE Exchange
    BY <2>5, ExchangeMoves, ExchangeConfirms, ExchangeTells, ExchangeAborts DEF Exchange
  <2> QED
    BY <1>2, <2>1, <2>2, <2>3, <2>4, <2>5 DEF Next
<1> QED
  BY <1>1, <1>2

\* The service begins with everything empty.
LEMMA ServiceBegins ==
  ASSUME SetsSized, ServiceInit
  PROVE  ServiceSound
<1>1. SoundBroker(broker) /\ ClockOK
  BY ZenonT(40), BrokerBegins DEF ServiceInit
<1>2. ClientsSound
  BY DEF ServiceInit, ClientsSound, IdleClient
<1>3. InboxSound /\ ServerSound /\ open \subseteq Conns /\ outcome \in Outcomes
  BY DEF ServiceInit, InboxSound, ServerSound, Outcomes
<1>4. ReportSound
  BY ServiceAssumption DEF ServiceInit, BrokerInit, EmptyBroker, ReportSound, Loop, Confirming
<1>5. WaitersSound
  BY DEF ServiceInit, BrokerInit, EmptyBroker, WaitersSound, OneEach, Tied
<1> QED
  BY <1>1, <1>2, <1>3, <1>4, <1>5 DEF ServiceSound

\* What the inductive invariant says of the books.
LEMMA SoundBooks ==
  ASSUME ServiceSound
  PROVE  BrokerInv /\ ServiceTypeOK /\ ReportIsBroker /\ WaitersArePending
<1>1. BrokerInv
  BY SoundIsInv DEF ServiceSound, ClockOK
<1>2. server.step \in 0 .. Len(Script)
  <2>1. server = Loop \/ server.step \in 1 .. Ending
    BY DEF ServiceSound, ServerSound
  <2>2. server.step \in 0 .. 13
    BY <2>1 DEF Loop, Ending
  <2> QED
    BY <2>2, ScriptShape DEF Ending
<1>3. ServiceTypeOK
  BY <1>1, <1>2 DEF BrokerInv, ServiceTypeOK, ServiceSound, WaitersSound, ReportSound, Outcomes
<1>4. ReportIsBroker
  BY LoopIsIdle DEF ReportIsBroker
<1>5. WaitersArePending
  <2> SUFFICES ASSUME AtLoop
               PROVE  {<<w.device, w.id, w.expires>> : w \in waiting} =
                        {<<p.device, p.id, p.expires>> : p \in broker.pending}
    BY DEF WaitersArePending
  <2>1. Tied(waiting, broker.pending)
    BY LoopIsIdle
  <2> QED
    BY <2>1 DEF Tied, Same
<1> QED
  BY <1>1, <1>3, <1>4, <1>5

-----------------------------------------------------------------------------
(* The agreement of the two clients.                                       *)

Elems(q) == {q[i] : i \in 1 .. Len(q)}

InFlight(c) == Elems(inbox[c])

Begun(c) == client[c].phase # "Idle"

\* The server has taken its registration.
Taken(c) == client[c].phase \notin {"Idle", "Sent"}

\* Nothing has been delivered to it, and nothing is on its way.
Unmatched(c) ==
  /\ client[c].delivered = {}
  /\ \A m \in InFlight(c) : m.kind # "Delivery"

\* Both hold the other's registration and have committed to it.
Bound(c, p) ==
  /\ client[c].delivered = {p} /\ client[c].committed
  /\ client[p].delivered = {c} /\ client[p].committed

DeliveredValid(c) ==
  /\ ~ Taken(c) => Unmatched(c)
  /\ client[c].committed => client[c].delivered # {}
  /\ \A p \in client[c].delivered :
       /\ client[c].delivered = {p}
       /\ p \in Conns /\ Begun(p) /\ Begun(c) /\ DeliveryValid(c, p)

InFlightValid(c) ==
  /\ \A m \in InFlight(c) : Begun(m.from)
  /\ \A m \in InFlight(c) : m.kind = "Complete" => Bound(c, m.from)

DoneBound(c) == client[c].phase = "Done" => \E p \in Conns : Bound(c, p)

AcksValid(c) ==
  /\ acks[c] \in Seq({"DeliveryAck", "CommitAck"})
  /\ "CommitAck" \in Elems(acks[c]) => client[c].committed

EachClientSound ==
  \A c \in Conns : DeliveredValid(c) /\ InFlightValid(c) /\ DoneBound(c) /\ AcksValid(c)

WaitersUnmatched ==
  /\ \A w \in waiting : Taken(w.conn) /\ Unmatched(w.conn)
  /\ \A w, x \in waiting : w.conn = x.conn => w = x

\* All that c has been delivered, or will be, is p.
OnlyFrom(c, p) ==
  /\ client[c].delivered \subseteq {p}
  /\ \A m \in InFlight(c) : m.kind = "Delivery" => m.from = p

\* The steps of Script that take the acknowledgements of the two commits.
CallerCommits == 7
WaiterCommits == 8

ExchangeAgrees ==
  server # Loop =>
    LET a == server.caller
        b == server.waiter
    IN  /\ a # b /\ Taken(a) /\ Taken(b)
        /\ \A w \in waiting : w.conn # a /\ w.conn # b
        /\ OnlyFrom(a, b) /\ OnlyFrom(b, a)
        /\ server.step > CallerCommits => client[a].committed
        /\ server.step > WaiterCommits => client[b].committed

\* The clients that were told, or are being told, and the pairs they are in.
Told(c) == client[c].phase = "Done" \/ \E m \in InFlight(c) : m.kind = "Complete"

ToldPairs == {{c} \cup client[c].delivered : c \in {x \in Conns : Told(x)}}

\* The pair of an exchange that is past its confirmation.
ConfirmedPair == IF server.step > Confirming THEN {{server.caller, server.waiter}} ELSE {}

PairsCounted ==
  /\ SetsSized
  /\ IsFiniteSet(ToldPairs \cup ConfirmedPair)
  /\ Cardinality(ToldPairs \cup ConfirmedPair) <=
       report.matched + (IF server.step > Confirming THEN 1 ELSE 0)

AgreementSound ==
  /\ acks = [c \in Conns |-> acks[c]]
  /\ EachClientSound /\ WaitersUnmatched /\ ExchangeAgrees /\ PairsCounted

\* What a client has begun, taken, been delivered or committed to stays so.
Held ==
  \A x \in Conns :
    /\ Begun(x) => /\ Begun(x)'
                   /\ client'[x].device = client[x].device
                   /\ client'[x].reg = client[x].reg
    /\ Taken(x) => Taken(x)'
    /\ client[x].delivered # {} => client'[x].delivered = client[x].delivered
    /\ client[x].committed => client'[x].committed

Complete(x) == \E m \in InFlight(x) : m.kind = "Complete"

\* What a step may do to the clients and their records.
Lawful ==
  /\ Held
  /\ \A x \in Conns : \A m \in InFlight(x)' :
       \/ m \in InFlight(x)
       \/ /\ Begun(m.from)'
          /\ m.kind = "Complete" => Bound(x, m.from)'
          /\ m.kind = "Delivery" => Taken(x)
  /\ \A x \in Conns :
       \/ client'[x].delivered = client[x].delivered
       \/ \E m \in InFlight(x) :
            /\ m.kind = "Delivery" /\ DeliveryValid(x, m.from)
            /\ client[x].delivered = {} /\ client'[x].delivered = {m.from}
  /\ \A x \in Conns : client'[x].committed => client[x].committed \/ client[x].delivered # {}
  /\ \A x \in Conns : client'[x].phase = "Done" => client[x].phase = "Done" \/ Complete(x)
  /\ acks' = [c \in Conns |-> acks'[c]]
  /\ \A x \in Conns :
       /\ acks'[x] \in Seq({"DeliveryAck", "CommitAck"})
       /\ "CommitAck" \in Elems(acks'[x]) => "CommitAck" \in Elems(acks[x]) \/ client'[x].committed

\* A pair that is bound stays bound.
LEMMA BoundStays ==
  ASSUME Held, NEW c \in Conns, NEW p \in Conns, Bound(c, p)
  PROVE  Bound(c, p)'
BY ZenonT(40) DEF Held, Bound

\* Records in flight come from connections.
LEMMA FromConns ==
  ASSUME InboxSound, NEW x \in Conns, NEW m \in InFlight(x)
  PROVE  m \in Messages /\ m.from \in Conns
<1>1. inbox[x] \in Seq(Messages)
  BY DEF InboxSound
<1>2. m \in Messages
  BY <1>1 DEF InFlight, Elems
<1> QED
  BY <1>2 DEF Messages

\* What is accepted was valid, and is from a client that has begun.
LEMMA DeliveredStays ==
  ASSUME InboxSound, EachClientSound, Lawful, NEW x \in Conns
  PROVE  DeliveredValid(x)'
<1>1. DeliveredValid(x) /\ InFlightValid(x)
  BY DEF EachClientSound
<1>2. ~ Taken(x)' => ~ Taken(x) /\ Unmatched(x)
  BY <1>1 DEF Lawful, Held, DeliveredValid
<1>3. (~ Taken(x) => Unmatched(x))'
  <2> SUFFICES ASSUME ~ Taken(x)'
               PROVE  Unmatched(x)'
    OBVIOUS
  <2>1. ~ Taken(x) /\ Unmatched(x)
    BY <1>2
  <2>2. client'[x].delivered = {}
    BY <2>1 DEF Lawful, Unmatched
  <2>3. \A m \in InFlight(x)' : m.kind # "Delivery"
    BY <2>1 DEF Lawful, Unmatched
  <2> QED
    BY <2>2, <2>3 DEF Unmatched
<1>4. (client[x].committed => client[x].delivered # {})'
  BY <1>1 DEF Lawful, Held, DeliveredValid
<1>5. ASSUME NEW p \in client'[x].delivered
      PROVE  /\ client'[x].delivered = {p}
             /\ p \in Conns /\ Begun(p)' /\ Begun(x)' /\ DeliveryValid(x, p)'
  <2>1. /\ client'[x].delivered = {p} /\ p \in Conns /\ Begun(p) /\ Begun(x) /\ DeliveryValid(x, p)
    <3>1. CASE client'[x].delivered = client[x].delivered
      BY <1>1, <1>5, <3>1 DEF DeliveredValid
    <3>2. CASE client'[x].delivered # client[x].delivered
      <4>1. PICK m \in InFlight(x) :
              /\ m.kind = "Delivery" /\ DeliveryValid(x, m.from)
              /\ client[x].delivered = {} /\ client'[x].delivered = {m.from}
        BY <3>2 DEF Lawful
      <4>2. Taken(x)
        BY ZenonT(40), <1>1, <4>1 DEF DeliveredValid, Unmatched
      <4>3. p = m.from /\ m.from \in Conns /\ Begun(m.from)
        BY ZenonT(40), <1>1, <1>5, <4>1, FromConns DEF InFlightValid
      <4> QED
        BY <4>1, <4>2, <4>3 DEF Taken, Begun
    <3> QED
      BY <3>1, <3>2
  <2>2. /\ Begun(p)' /\ Begun(x)'
        /\ client'[x].device = client[x].device /\ client'[x].reg = client[x].reg
        /\ client'[p].device = client[p].device /\ client'[p].reg = client[p].reg
    BY <2>1 DEF Lawful, Held
  <2> QED
    BY ZenonT(40), <2>1, <2>2 DEF DeliveryValid, Device, Reg
<1> QED
  BY <1>3, <1>4, <1>5 DEF DeliveredValid

\* A lawful step keeps what is known of each client.
LEMMA ClientsStay ==
  ASSUME InboxSound, InboxSound', EachClientSound, Lawful
  PROVE  EachClientSound'
<1> SUFFICES ASSUME NEW x \in Conns
             PROVE  (DeliveredValid(x) /\ InFlightValid(x) /\ DoneBound(x) /\ AcksValid(x))'
  BY DEF EachClientSound
<1>1. DeliveredValid(x)'
  BY DeliveredStays
<1>2. DeliveredValid(x) /\ InFlightValid(x) /\ DoneBound(x) /\ AcksValid(x)
  BY DEF EachClientSound
<1>3. Held
  BY DEF Lawful
<1>4. ASSUME NEW m \in InFlight(x)'
      PROVE  Begun(m.from)' /\ (m.kind = "Complete" => Bound(x, m.from)')
  <2>1. CASE m \in InFlight(x)
    <3>1. m.from \in Conns /\ Begun(m.from) /\ (m.kind = "Complete" => Bound(x, m.from))
      BY <1>2, <2>1, FromConns DEF InFlightValid
    <3> QED
      BY ZenonT(40), <1>3, <3>1, BoundStays DEF Held
  <2>2. CASE m \notin InFlight(x)
    BY <2>2 DEF Lawful
  <2> QED
    BY <2>1, <2>2
<1>5. InFlightValid(x)'
  BY <1>4 DEF InFlightValid
<1>6. DoneBound(x)'
  <2> SUFFICES ASSUME client'[x].phase = "Done"
               PROVE  \E p \in Conns : Bound(x, p)'
    BY DEF DoneBound
  <2>1. \E p \in Conns : Bound(x, p)
    BY <1>2, FromConns DEF Lawful, Complete, InFlightValid, DoneBound
  <2> QED
    BY <1>3, <2>1, BoundStays
<1>7. AcksValid(x)'
  BY ZenonT(40), <1>2, <1>3 DEF Lawful, Held, AcksValid
<1> QED
  BY <1>1, <1>5, <1>6, <1>7

\* Only a delivery ends that a client is unmatched.
LEMMA UnmatchedStays ==
  ASSUME Lawful, NEW x \in Conns, Unmatched(x),
         \A m \in InFlight(x)' : m \in InFlight(x) \/ m.kind # "Delivery"
  PROVE  Unmatched(x)'
BY DEF Lawful, Unmatched

\* A client is delivered what was in flight to it.
LEMMA OnlyFromStays ==
  ASSUME Lawful, NEW x \in Conns, NEW p, OnlyFrom(x, p),
         \A m \in InFlight(x)' : m \in InFlight(x) \/ (m.kind = "Delivery" => m.from = p)
  PROVE  OnlyFrom(x, p)'
BY DEF Lawful, OnlyFrom

\* The clients that wait go on waiting, or are let go.
LEMMA WaitersStay ==
  ASSUME Lawful, WaitersUnmatched, waiting' \subseteq waiting,
         \A w \in waiting : w.conn \in Conns,
         \A w \in waiting' : \A m \in InFlight(w.conn)' :
           m \in InFlight(w.conn) \/ m.kind # "Delivery"
  PROVE  WaitersUnmatched'
<1>1. ASSUME NEW w \in waiting'
      PROVE  Taken(w.conn)' /\ Unmatched(w.conn)'
  <2>1. w \in waiting /\ w.conn \in Conns /\ Taken(w.conn) /\ Unmatched(w.conn)
    BY DEF WaitersUnmatched
  <2>2. \A m \in InFlight(w.conn)' : m \in InFlight(w.conn) \/ m.kind # "Delivery"
    OBVIOUS
  <2> QED
    BY ZenonT(40), <2>1, <2>2, UnmatchedStays DEF Lawful, Held
<1>2. \A w, x \in waiting' : w.conn = x.conn => w = x
  BY DEF WaitersUnmatched
<1> QED
  BY <1>1, <1>2 DEF WaitersUnmatched

\* A pair is told once: who was told before has its pair for good.
LEMMA PairsStay ==
  ASSUME EachClientSound, Lawful, NEW extra,
         \A x \in Conns : Told(x)' => Told(x) \/ {x} \cup client'[x].delivered \in extra
  PROVE  ToldPairs' \subseteq ToldPairs \cup extra
<1> SUFFICES ASSUME NEW x \in Conns, Told(x)'
             PROVE  {x} \cup client'[x].delivered \in ToldPairs \cup extra
  BY DEF ToldPairs
<1>1. CASE Told(x)
  <2>1. client[x].delivered # {}
    BY ZenonT(40), <1>1 DEF EachClientSound, InFlightValid, DoneBound, Told, Bound
  <2>2. client'[x].delivered = client[x].delivered
    BY <2>1 DEF Lawful, Held
  <2> QED
    BY <1>1, <2>2 DEF ToldPairs
<1> QED
  BY <1>1

\* What a sequence holds after its first entry is taken, or one is put at its end.
LEMMA ElemsOfTail ==
  ASSUME NEW S, NEW q \in Seq(S), q # <<>>
  PROVE  Head(q) \in Elems(q) /\ Elems(Tail(q)) \subseteq Elems(q)
<1>1. Len(q) \in Nat /\ Len(q) >= 1 /\ Head(q) = q[1] /\ Len(Tail(q)) = Len(q) - 1
  OBVIOUS
<1>2. \A i \in 1 .. Len(Tail(q)) : Tail(q)[i] = q[i + 1] /\ i + 1 \in 1 .. Len(q)
  BY <1>1
<1>3. Head(q) \in Elems(q)
  BY <1>1 DEF Elems
<1>4. \A x \in Elems(Tail(q)) : x \in Elems(q)
  BY <1>2 DEF Elems
<1> QED
  BY <1>3, <1>4

\* Appending adds one element.
LEMMA ElemsOfAppend ==
  ASSUME NEW S, NEW q \in Seq(S), NEW e \in S
  PROVE  /\ Append(q, e) \in Seq(S)
         /\ \A x \in Elems(Append(q, e)) : x \in Elems(q) \/ x = e
<1>1. Len(q) \in Nat /\ Len(Append(q, e)) = Len(q) + 1
  OBVIOUS
<1>2. \A i \in 1 .. Len(Append(q, e)) :
        (i \in 1 .. Len(q) /\ Append(q, e)[i] = q[i]) \/ Append(q, e)[i] = e
  BY <1>1
<1> QED
  BY <1>2 DEF Elems

\* The records a step puts in flight to x.
NewTo(x) == InFlight(x)' \ InFlight(x)

\* A step that leaves the clients and their records alone.
LEMMA StillIsLawful ==
  ASSUME AgreementSound, UNCHANGED <<client, inbox, acks>>
  PROVE  Lawful /\ \A x \in Conns : NewTo(x) = {} /\ (Told(x)' => Told(x))
<1>1. \A x \in Conns : InFlight(x)' = InFlight(x)
  BY DEF InFlight
<1>2. Held
  BY DEF Held, Begun, Taken
<1>3. /\ acks' = [c \in Conns |-> acks'[c]]
      /\ \A x \in Conns : acks'[x] \in Seq({"DeliveryAck", "CommitAck"})
  BY DEF AgreementSound, EachClientSound, AcksValid
<1>4. Lawful
  BY <1>1, <1>2, <1>3 DEF Lawful
<1> QED
  BY <1>1, <1>4 DEF NewTo, Told

\* The acknowledgements that the server takes.
LEMMA TakingIsLawful ==
  ASSUME AgreementSound, UNCHANGED <<client, inbox>>, NEW h \in Conns, acks[h] # <<>>,
         acks' = [acks EXCEPT ![h] = IF @ = <<>> THEN @ ELSE Tail(@)]
  PROVE  Lawful /\ \A x \in Conns : NewTo(x) = {} /\ (Told(x)' => Told(x))
<1>1. \A x \in Conns : InFlight(x)' = InFlight(x)
  BY DEF InFlight
<1>2. Held
  BY DEF Held, Begun, Taken
<1>3. acks' = [c \in Conns |-> acks'[c]]
  BY ZenonT(40) DEF AgreementSound
<1>4. ASSUME NEW x \in Conns
      PROVE  /\ acks'[x] \in Seq({"DeliveryAck", "CommitAck"})
             /\ Elems(acks'[x]) \subseteq Elems(acks[x])
  <2>1. acks[x] \in Seq({"DeliveryAck", "CommitAck"})
    BY DEF AgreementSound, EachClientSound, AcksValid
  <2>2. acks'[x] = IF x = h THEN Tail(acks[x]) ELSE acks[x]
    BY DEF AgreementSound
  <2>3. CASE x = h
    BY <2>1, <2>2, <2>3, ElemsOfTail
  <2>4. CASE x # h
    BY <2>1, <2>2, <2>4
  <2> QED
    BY <2>3, <2>4
<1>5. Lawful
  BY ZenonT(40), <1>1, <1>2, <1>3, <1>4 DEF Lawful
<1> QED
  BY <1>1, <1>5 DEF NewTo, Told

\* A record that the server sends.
LEMMA DeliveredIsFresh ==
  ASSUME InboxSound, NEW h \in Conns, NEW m \in Messages, inbox' \in {inbox, Delivered(h, m)},
         NEW x \in Conns
  PROVE  /\ \A e \in NewTo(x) : x = h /\ e = m
         /\ inbox' = inbox => NewTo(x) = {}
<1>1. inbox[x] \in Seq(Messages)
  BY DEF InboxSound
<1>2. \/ inbox'[x] = inbox[x]
      \/ x = h /\ inbox'[x] = Append(inbox[x], m)
  BY DEF InboxSound, Delivered
<1>3. CASE inbox'[x] = inbox[x]
  BY <1>3 DEF NewTo, InFlight
<1>4. CASE x = h /\ inbox'[x] = Append(inbox[x], m)
  <2>1. \A e \in Elems(Append(inbox[x], m)) : e \in Elems(inbox[x]) \/ e = m
    BY <1>1, ElemsOfAppend
  <2> QED
    BY <1>4, <2>1 DEF NewTo, InFlight
<1> QED
  BY <1>2, <1>3, <1>4

\* The server sends a record of the exchange.
LEMMA SendingIsLawful ==
  ASSUME InboxSound, AgreementSound, UNCHANGED <<client, acks>>,
         NEW h \in Conns, NEW m \in Messages, inbox' \in {inbox, Delivered(h, m)},
         Begun(m.from), Taken(h),
         m.kind = "Complete" => Bound(h, m.from)
  PROVE  Lawful
<1>1. Held
  BY ZenonT(40) DEF Held, Begun, Taken
<1>2. /\ acks' = [c \in Conns |-> acks'[c]]
      /\ \A x \in Conns : acks'[x] \in Seq({"DeliveryAck", "CommitAck"})
  BY ZenonT(40) DEF AgreementSound, EachClientSound, AcksValid
<1>3. Begun(m.from)' /\ (m.kind = "Complete" => Bound(h, m.from)')
  BY DEF Begun, Bound
<1>4. \A x \in Conns : \A e \in NewTo(x) : x = h /\ e = m
  BY DeliveredIsFresh
<1>5. \A x \in Conns : \A e \in InFlight(x)' :
        e \in InFlight(x) \/ (x = h /\ e = m)
  BY <1>4 DEF NewTo
<1>6. \A x \in Conns : \A e \in InFlight(x)' :
       \/ e \in InFlight(x)
       \/ /\ Begun(e.from)'
          /\ e.kind = "Complete" => Bound(x, e.from)'
          /\ e.kind = "Delivery" => Taken(x)
  BY <1>3, <1>5
<1>7. \A x \in Conns : /\ client'[x].delivered = client[x].delivered
                       /\ client'[x].committed => client[x].committed
                       /\ client'[x].phase = "Done" => client[x].phase = "Done"
                       /\ "CommitAck" \in Elems(acks'[x]) => "CommitAck" \in Elems(acks[x])
  BY ZenonT(40)
<1> QED
  BY <1>1, <1>2, <1>6, <1>7 DEF Lawful

\* The registration of c is taken, and c may be told that it waits.
LEMMA AdmittingIsLawful ==
  ASSUME ClientsSound, InboxSound, AgreementSound, UNCHANGED acks, NEW c \in Conns, Admitted(c),
         inbox' \in {inbox, Delivered(c, Msg("Waiting", c))}
  PROVE  /\ Lawful
         /\ \A x \in Conns : \A e \in NewTo(x) : e.kind = "Waiting"
         /\ \A x \in Conns : Told(x)' => Told(x)
         /\ ~ Taken(c) /\ Taken(c)' /\ Unmatched(c)
         /\ client'[c].reg = client[c].reg /\ client'[c].device = client[c].device
<1> DEFINE m == Msg("Waiting", c)
<1>1. m \in Messages /\ m.kind = "Waiting" /\ m.from = c
  BY DEF Msg, Messages
<1> HIDE DEF m
<1>2. \A x \in Conns : \A e \in NewTo(x) : x = c /\ e = m
  BY <1>1, DeliveredIsFresh DEF m
<1>3. /\ client[c].phase = "Sent" /\ Attempted(client[c])
      /\ client'[c] = [client[c] EXCEPT !.phase = "Served"]
      /\ \A x \in Conns \ {c} : client'[x] = client[x]
  BY DEF Admitted, ClientsSound
<1>4. /\ client'[c].phase = "Served"
      /\ client'[c].delivered = client[c].delivered
      /\ client'[c].committed = client[c].committed
      /\ client'[c].device = client[c].device
      /\ client'[c].reg = client[c].reg
  BY <1>3 DEF Attempted
<1>5. Held
  BY ZenonT(40), <1>3, <1>4 DEF Held, Begun, Taken
<1>6. /\ acks' = [x \in Conns |-> acks'[x]]
      /\ \A x \in Conns : acks'[x] \in Seq({"DeliveryAck", "CommitAck"})
  BY DEF AgreementSound, EachClientSound, AcksValid
<1>7. \A x \in Conns : \A e \in InFlight(x)' : e \in InFlight(x) \/ (x = c /\ e = m)
  BY <1>2 DEF NewTo
<1>8. Begun(c)'
  BY <1>4 DEF Begun
<1>9. \A x \in Conns : \A e \in InFlight(x)' :
       \/ e \in InFlight(x)
       \/ /\ Begun(e.from)'
          /\ e.kind = "Complete" => Bound(x, e.from)'
          /\ e.kind = "Delivery" => Taken(x)
  BY <1>1, <1>7, <1>8
<1>10. \A x \in Conns : /\ client'[x].delivered = client[x].delivered
                        /\ client'[x].committed => client[x].committed
                        /\ client'[x].phase = "Done" => client[x].phase = "Done"
                        /\ "CommitAck" \in Elems(acks'[x]) => "CommitAck" \in Elems(acks[x])
  BY ZenonT(40), <1>3, <1>4
<1>11. Lawful
  BY <1>5, <1>6, <1>9, <1>10 DEF Lawful
<1>12. \A x \in Conns : Told(x)' => Told(x)
  BY ZenonT(40), <1>1, <1>7, <1>10 DEF Told
<1>13. ~ Taken(c) /\ Taken(c)' /\ Unmatched(c)
  BY <1>3, <1>4 DEF Taken, AgreementSound, EachClientSound, DeliveredValid
<1> QED
  BY ZenonT(40), <1>1, <1>2, <1>4, <1>11, <1>12, <1>13
=============================================================================
