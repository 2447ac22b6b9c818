---------------------------- MODULE RendezvousProofs ----------------------------
(***************************************************************************)
(* The agreement of two clients: why nobody finishes an exchange, or is    *)
(* counted as matched, alone.  The books of the broker and of the server   *)
(* are proved sound in RendezvousBroker and RendezvousService.             *)
(***************************************************************************)
EXTENDS RendezvousService

USE SMTT(40)

\* What a step of client c does to its own record.
MovedLawfully(c) ==
  /\ Begun(c) => Begun(c)' /\ client'[c].device = client[c].device
                           /\ client'[c].reg = client[c].reg
  /\ Taken(c) => Taken(c)'
  /\ \/ client'[c].delivered = client[c].delivered
     \/ \E m \in InFlight(c) :
          /\ m.kind = "Delivery" /\ DeliveryValid(c, m.from)
          /\ client[c].delivered = {} /\ client'[c].delivered = {m.from}
  /\ client[c].committed => client'[c].committed
  /\ client'[c].committed => client[c].committed \/ client[c].delivered # {}
  /\ client'[c].phase = "Done" => client[c].phase = "Done" \/ Complete(c)

\* A client that moves lawfully keeps what was established.
LEMMA MovingIsLawful ==
  ASSUME AgreementSound, NEW c \in Conns,
         \A x \in Conns \ {c} : client'[x] = client[x],
         \A x \in Conns : InFlight(x)' \subseteq InFlight(x),
         MovedLawfully(c),
         NEW kind \in {"DeliveryAck", "CommitAck"},
         kind = "CommitAck" => client'[c].committed,
         acks' \in {acks, [acks EXCEPT ![c] = Append(@, kind)]}
  PROVE  Lawful /\ \A x \in Conns : NewTo(x) = {} /\ (Told(x)' => Told(x))
<1>1. Held
  BY ZenonT(40) DEF MovedLawfully, Held, Begun, Taken
<1>2. acks' = [x \in Conns |-> acks'[x]]
  BY DEF AgreementSound
<1>3. ASSUME NEW x \in Conns
      PROVE  /\ acks'[x] \in Seq({"DeliveryAck", "CommitAck"})
             /\ "CommitAck" \in Elems(acks'[x]) =>
                  "CommitAck" \in Elems(acks[x]) \/ client'[x].committed
  <2>1. acks[x] \in Seq({"DeliveryAck", "CommitAck"})
    BY DEF AgreementSound, EachClientSound, AcksValid
  <2>2. acks'[x] = acks[x] \/ (x = c /\ acks'[x] = Append(acks[x], kind))
    BY DEF AgreementSound
  <2>3. CASE acks'[x] = acks[x]
    BY <2>1, <2>3
  <2>4. CASE x = c /\ acks'[x] = Append(acks[x], kind)
    <3>1. /\ Append(acks[x], kind) \in Seq({"DeliveryAck", "CommitAck"})
          /\ \A e \in Elems(Append(acks[x], kind)) : e \in Elems(acks[x]) \/ e = kind
      BY <2>1, ElemsOfAppend
    <3> QED
      BY ZenonT(40), <2>4, <3>1
  <2> QED
    BY ZenonT(40), <2>2, <2>3, <2>4
<1>4. Lawful
  BY ZenonT(40), <1>1, <1>2, <1>3 DEF Lawful, MovedLawfully
<1>5. \A x \in Conns : Told(x)' => Told(x)
  BY ZenonT(40) DEF Told, MovedLawfully, Complete
<1> QED
  BY <1>4, <1>5 DEF NewTo

\* The steps of the clients.
LEMMA StartingIsLawful ==
  ASSUME ServiceSound, AgreementSound, NEW c \in Conns, ClientStart(c)
  PROVE  Lawful /\ \A x \in Conns : NewTo(x) = {} /\ (Told(x)' => Told(x))
<1>1. DeliveredValid(c) /\ ~ Begun(c) /\ ~ Taken(c)
  BY DEF AgreementSound, EachClientSound, ClientStart, Begun, Taken
<1>2. client[c].delivered = {} /\ ~ client[c].committed
  BY <1>1 DEF DeliveredValid, Unmatched
<1>3. PICK a \in Attempts :
        client' = [client EXCEPT ![c] =
                    [phase |-> "Sent", delivered |-> {}, committed |-> FALSE,
                     device |-> a.device, reg |-> a.reg]]
  BY ZenonT(40) DEF ClientStart
<1>4. /\ client'[c].phase = "Sent" /\ client'[c].delivered = {} /\ ~ client'[c].committed
      /\ \A x \in Conns \ {c} : client'[x] = client[x]
  BY <1>3 DEF ServiceSound, ClientsSound
<1>5. MovedLawfully(c)
  BY ZenonT(40), <1>1, <1>2, <1>4 DEF MovedLawfully
<1>6. (\A x \in Conns : InFlight(x)' \subseteq InFlight(x)) /\ acks' = acks
  BY ZenonT(40) DEF ClientStart, InFlight
<1> QED
  BY ZenonT(40), <1>4, <1>5, <1>6, MovingIsLawful

\* A client that gives up moves lawfully, whatever it held.
LEMMA FailingMoves ==
  ASSUME ServiceSound, NEW c \in Conns, Running(c), Fails(c)
  PROVE  MovedLawfully(c) /\ \A x \in Conns \ {c} : client'[x] = client[x]
<1>1. /\ Attempted(client[c])
      /\ client'[c] = [client[c] EXCEPT !.phase = "Failed"]
      /\ \A x \in Conns \ {c} : client'[x] = client[x]
  BY DEF ServiceSound, ClientsSound, Running, Fails
<1>2. /\ client'[c].phase = "Failed"
      /\ client'[c].delivered = client[c].delivered
      /\ client'[c].committed = client[c].committed
      /\ client'[c].device = client[c].device
      /\ client'[c].reg = client[c].reg
  BY <1>1 DEF Attempted
<1> QED
  BY <1>1, <1>2 DEF MovedLawfully, Begun, Taken

\* ... and nothing reaches anybody by it.
LEMMA FailingIsLawful ==
  ASSUME ServiceSound, AgreementSound, NEW c \in Conns, ClientFail(c)
  PROVE  Lawful /\ \A x \in Conns : NewTo(x) = {} /\ (Told(x)' => Told(x))
<1>1. MovedLawfully(c) /\ \A x \in Conns \ {c} : client'[x] = client[x]
  BY FailingMoves DEF ClientFail
<1>2. (\A x \in Conns : InFlight(x)' \subseteq InFlight(x)) /\ acks' = acks
  BY DEF ClientFail, InFlight
<1> QED
  BY ZenonT(40), <1>1, <1>2, MovingIsLawful

\* A client takes the next record from its connection (exchange_registration).
LEMMA ReceivingIsLawful ==
  ASSUME ServiceSound, AgreementSound, NEW c \in Conns, ClientReceive(c)
  PROVE  Lawful /\ \A x \in Conns : NewTo(x) = {} /\ (Told(x)' => Told(x))
<1> DEFINE m == Head(inbox[c])
<1>1. /\ InboxSound /\ inbox[c] \in Seq(Messages) /\ inbox[c] # <<>> /\ Running(c)
      /\ inbox' = [inbox EXCEPT ![c] = Tail(@)]
  BY DEF ServiceSound, InboxSound, ClientReceive
<1>2. m \in InFlight(c) /\ Elems(Tail(inbox[c])) \subseteq InFlight(c)
  BY <1>1, ElemsOfTail DEF InFlight
<1>3. \A x \in Conns : inbox'[x] = IF x = c THEN Tail(inbox[c]) ELSE inbox[x]
  BY <1>1 DEF InboxSound
<1>4. \A x \in Conns : InFlight(x)' \subseteq InFlight(x)
  BY <1>2, <1>3 DEF InFlight
<1>5. m \in Messages
  BY <1>1, <1>2, FromConns
<1>6. \/ m.kind = "Waiting" /\ OnWaiting(c)
      \/ m.kind = "Delivery" /\ OnDelivery(c, m.from)
      \/ m.kind = "Commit" /\ OnCommit(c)
      \/ m.kind = "Complete" /\ OnComplete(c)
  BY ZenonT(40), <1>5 DEF ClientReceive, Messages
<1> HIDE DEF m
<1>7. /\ Attempted(client[c]) /\ Begun(c) /\ client = [x \in Conns |-> client[x]]
      /\ client[c].phase \in {"Sent", "Served"}
  BY <1>1 DEF Running, ServiceSound, ClientsSound, Begun
<1>8. CASE Fails(c) /\ UNCHANGED acks
  <2>1. MovedLawfully(c) /\ \A x \in Conns \ {c} : client'[x] = client[x]
    BY <1>1, <1>8, FailingMoves
  <2> QED
    BY ZenonT(40), <1>4, <1>8, <2>1, MovingIsLawful
<1>9. CASE UNCHANGED <<client, acks>>
  <2>1. MovedLawfully(c) /\ \A x \in Conns \ {c} : client'[x] = client[x]
    BY <1>9 DEF MovedLawfully, Begun, Taken
  <2> QED
    BY <1>4, <1>9, <2>1, MovingIsLawful
<1>10. CASE /\ m.kind = "Delivery" /\ Acknowledge(c, "DeliveryAck")
            /\ client' = [client EXCEPT ![c].delivered = {m.from}]
            /\ client[c].delivered = {} /\ ~ client[c].committed /\ DeliveryValid(c, m.from)
  <2>1. /\ client'[c] = [client[c] EXCEPT !.delivered = {m.from}]
        /\ \A x \in Conns \ {c} : client'[x] = client[x]
    BY <1>7, <1>10
  <2>2. /\ client'[c].phase = client[c].phase
        /\ client'[c].delivered = {m.from}
        /\ client'[c].committed = client[c].committed
        /\ client'[c].device = client[c].device
        /\ client'[c].reg = client[c].reg
    BY <1>7, <2>1 DEF Attempted
  <2>3. MovedLawfully(c)
    BY <1>2, <1>7, <1>10, <2>2 DEF MovedLawfully, Begun, Taken
  <2>4. acks' \in {acks, [acks EXCEPT ![c] = Append(@, "DeliveryAck")]}
    BY ZenonT(40), <1>10 DEF Acknowledge, AgreementSound
  <2> QED
    BY <1>4, <2>1, <2>3, <2>4, MovingIsLawful
<1>11. CASE /\ Acknowledge(c, "CommitAck")
            /\ client' = [client EXCEPT ![c].committed = TRUE]
            /\ client[c].delivered # {}
  <2>1. /\ client'[c] = [client[c] EXCEPT !.committed = TRUE]
        /\ \A x \in Conns \ {c} : client'[x] = client[x]
    BY <1>7, <1>11
  <2>2. /\ client'[c].phase = client[c].phase
        /\ client'[c].delivered = client[c].delivered
        /\ client'[c].committed
        /\ client'[c].device = client[c].device
        /\ client'[c].reg = client[c].reg
    BY <1>7, <2>1 DEF Attempted
  <2>3. MovedLawfully(c)
    BY <1>7, <1>11, <2>2 DEF MovedLawfully, Begun, Taken
  <2>4. acks' \in {acks, [acks EXCEPT ![c] = Append(@, "CommitAck")]}
    BY ZenonT(40), <1>11 DEF Acknowledge, AgreementSound
  <2> QED
    BY ZenonT(40), <1>4, <2>1, <2>2, <2>3, <2>4, MovingIsLawful
<1>12. CASE /\ m.kind = "Complete" /\ UNCHANGED acks
            /\ client' = [client EXCEPT ![c].phase = "Done"]
  <2>1. /\ client'[c] = [client[c] EXCEPT !.phase = "Done"]
        /\ \A x \in Conns \ {c} : client'[x] = client[x]
    BY <1>7, <1>12
  <2>2. /\ client'[c].phase = "Done"
        /\ client'[c].delivered = client[c].delivered
        /\ client'[c].committed = client[c].committed
        /\ client'[c].device = client[c].device
        /\ client'[c].reg = client[c].reg
    BY <1>7, <2>1 DEF Attempted
  <2>3. MovedLawfully(c)
    BY <1>2, <1>12, <2>2 DEF MovedLawfully, Begun, Taken, Complete
  <2> QED
    BY <1>4, <1>12, <2>1, <2>3, MovingIsLawful
<1> QED
  BY <1>6, <1>8, <1>9, <1>10, <1>11, <1>12
     DEF OnWaiting, OnDelivery, OnCommit, OnComplete

-----------------------------------------------------------------------------
(* The agreement is kept by every step.                                    *)

\* As many pairs at most, for as many matches.
LEMMA PairsWithin ==
  ASSUME PairsCounted, (ToldPairs \cup ConfirmedPair)' \subseteq ToldPairs \cup ConfirmedPair,
         report.matched \in Nat,
         report'.matched + (IF server'.step > Confirming THEN 1 ELSE 0) =
           report.matched + (IF server.step > Confirming THEN 1 ELSE 0)
  PROVE  PairsCounted'
<1> DEFINE S == ToldPairs \cup ConfirmedPair
           T == (ToldPairs \cup ConfirmedPair)'
           n == report.matched + (IF server.step > Confirming THEN 1 ELSE 0)
<1>1. IsFiniteSet(S) /\ Cardinality(S) <= n /\ n \in Int /\ T \subseteq S
  BY DEF PairsCounted
<1>2. n = report'.matched + (IF server'.step > Confirming THEN 1 ELSE 0)
  OBVIOUS
<1> HIDE DEF S, T, n
<1>3. IsFiniteSet(T) /\ Cardinality(T) <= Cardinality(S)
  BY ZenonT(40), <1>1, RemovedCount DEF PairsCounted
<1>4. Cardinality(S) \in Nat /\ Cardinality(T) \in Nat
  BY <1>1, <1>3 DEF PairsCounted, SetsSized, TypeSized
<1>5. Cardinality(T) <= n
  BY <1>1, <1>3, <1>4
<1> QED
  BY <1>2, <1>3, <1>5 DEF PairsCounted, T

\* No pair is added.
LEMMA PairsKept ==
  ASSUME ReportSound, EachClientSound, PairsCounted, Lawful,
         \A x \in Conns : Told(x)' => Told(x),
         report'.matched = report.matched,
         ConfirmedPair' \subseteq ConfirmedPair,
         server'.step > Confirming <=> server.step > Confirming
  PROVE  PairsCounted'
<1>1. ToldPairs' \subseteq ToldPairs \cup {}
  BY PairsStay
<1>2. report.matched \in Nat
  BY DEF ReportSound
<1> QED
  BY <1>1, <1>2, PairsWithin

\* The exchange goes on with the same two clients.
LEMMA ExchangeStays ==
  ASSUME ServerSound, Lawful, ExchangeAgrees, server # Loop,
         server'.caller = server.caller, server'.waiter = server.waiter,
         waiting' \subseteq waiting,
         \A e \in NewTo(server.caller) : e.kind = "Delivery" => e.from = server.waiter,
         \A e \in NewTo(server.waiter) : e.kind = "Delivery" => e.from = server.caller,
         server'.step > CallerCommits =>
           server.step > CallerCommits \/ client[server.caller].committed,
         server'.step > WaiterCommits =>
           server.step > WaiterCommits \/ client[server.waiter].committed
  PROVE  ExchangeAgrees'
<1>1. PICK a \in Conns, b \in Conns : server.caller = a /\ server.waiter = b
  BY DEF ServerSound
<1>2. /\ a # b /\ Taken(a) /\ Taken(b)
      /\ \A w \in waiting : w.conn # a /\ w.conn # b
      /\ OnlyFrom(a, b) /\ OnlyFrom(b, a)
      /\ server.step > CallerCommits => client[a].committed
      /\ server.step > WaiterCommits => client[b].committed
  BY ZenonT(40), <1>1 DEF ExchangeAgrees
<1>3. server'.caller = a /\ server'.waiter = b
  BY <1>1
<1>4. /\ \A e \in NewTo(a) : e.kind = "Delivery" => e.from = b
      /\ \A e \in NewTo(b) : e.kind = "Delivery" => e.from = a
      /\ server'.step > CallerCommits => client[a].committed
      /\ server'.step > WaiterCommits => client[b].committed
  BY ZenonT(40), <1>1, <1>2
<1>5. OnlyFrom(a, b)' /\ OnlyFrom(b, a)'
  BY ZenonT(40), <1>1, <1>2, <1>4, OnlyFromStays DEF NewTo
<1>6. Taken(a)' /\ Taken(b)' /\ (client[a].committed => client'[a].committed)
      /\ (client[b].committed => client'[b].committed)
  BY ZenonT(40), <1>1, <1>2 DEF Lawful, Held
<1> QED
  BY ZenonT(40), <1>2, <1>3, <1>4, <1>5, <1>6 DEF ExchangeAgrees

\* A step that delivers nothing, tells nobody and leaves the exchange where it is.
LEMMA QuietlyAgreed ==
  ASSUME ServiceSound, InboxSound', AgreementSound, Lawful,
         \A x \in Conns : Told(x)' => Told(x),
         \A x \in Conns : \A e \in NewTo(x) : e.kind # "Delivery",
         waiting' \subseteq waiting, UNCHANGED server, report'.matched = report.matched
  PROVE  AgreementSound'
<1>1. EachClientSound'
  BY ClientsStay DEF ServiceSound, AgreementSound
<1>2. WaitersUnmatched'
  <2>1. \A w \in waiting : w.conn \in Conns
    BY ZenonT(40) DEF ServiceSound, WaitersSound
  <2> QED
    BY <2>1, WaitersStay DEF AgreementSound, NewTo
<1>3. ExchangeAgrees'
  <2>1. CASE server = Loop
    BY ZenonT(40), <2>1 DEF ExchangeAgrees
  <2>2. CASE server # Loop
    <3>1. server.caller \in Conns /\ server.waiter \in Conns
      BY ZenonT(40), <2>2 DEF ServiceSound, ServerSound
    <3> QED
      BY <2>2, <3>1, ExchangeStays DEF ServiceSound, AgreementSound
  <2> QED
    BY <2>1, <2>2
<1>4. PairsCounted'
  BY PairsKept DEF ServiceSound, AgreementSound, ConfirmedPair
<1> QED
  BY <1>1, <1>2, <1>3, <1>4 DEF Lawful, AgreementSound

\* The steps of the clients and of the clock, and the closing of a connection.
LEMMA ClientsAgree ==
  ASSUME ServiceSound, ServiceSound', AgreementSound,
         \/ UNCHANGED vars \/ ServiceTick
         \/ \E c \in Conns : ClientStart(c) \/ ClientReceive(c) \/ ClientFail(c) \/ CloseMatched(c)
  PROVE  AgreementSound'
<1>0. InboxSound'
  BY DEF ServiceSound
<1>1. UNCHANGED <<server, waiting, report>>
  BY ZenonT(40) DEF vars, task, ServiceTick, ClientStart, ClientReceive, ClientFail, CloseMatched
<1>2. Lawful /\ \A x \in Conns : NewTo(x) = {} /\ (Told(x)' => Told(x))
  <2>1. CASE UNCHANGED vars \/ ServiceTick \/ \E c \in Conns : CloseMatched(c)
    <3>1. UNCHANGED <<client, inbox, acks>>
      BY <2>1 DEF vars, net, ServiceTick, CloseMatched
    <3> QED
      BY <3>1, StillIsLawful
  <2>2. CASE \E c \in Conns : ClientStart(c) \/ ClientReceive(c) \/ ClientFail(c)
    BY <2>2, StartingIsLawful, ReceivingIsLawful, FailingIsLawful
  <2> QED
    BY <2>1, <2>2
<1> QED
  BY <1>0, <1>1, <1>2, QuietlyAgreed

\* The report's matches are left alone by all but the last step of an exchange.
LEMMA MatchedStays ==
  ASSUME NEW rep \in Reports, NEW n
  PROVE  /\ [rep EXCEPT !.registrations = n].matched = rep.matched
         /\ Rejection(rep).matched = rep.matched
         /\ Rejection([rep EXCEPT !.registrations = n]).matched = rep.matched
BY DEF Reports, Rejection

\* ... a rejection included.
LEMMA RejectionMatched ==
  ASSUME NEW rep \in Reports
  PROVE  Rejection(rep).matched = rep.matched
BY DEF Reports, Rejection

\* The loop's own steps.
LEMMA LoopAgrees ==
  ASSUME ServiceSound, ServiceSound', AgreementSound,
         \/ AdmissionFails \/ WaiterDeadline \/ ServiceTimeout
         \/ \E w \in watchers : WatcherFires(w)
  PROVE  AgreementSound'
<1>0. InboxSound' /\ AtLoop
  BY ZenonT(40) DEF ServiceSound, AdmissionFails, WaiterDeadline, ServiceTimeout, WatcherFires
<1>1. UNCHANGED <<client, inbox, acks, server>> /\ waiting' \subseteq waiting
  BY ZenonT(40) DEF AdmissionFails, WaiterDeadline, ServiceTimeout, WatcherFires, net
<1>2. report'.matched = report.matched
  <2>1. report \in Reports
    BY <1>0, LoopIsIdle
  <2>2. CASE AdmissionFails \/ WaiterDeadline \/ ServiceTimeout
    <3>1. SweptReport.matched = report.matched
      BY ZenonT(40), <1>0, SweptSound
    <3>2. Rejection(report).matched = report.matched
      BY ZenonT(40), <2>1, MatchedStays
    <3> QED
      BY <2>2, <3>1, <3>2 DEF AdmissionFails, WaiterDeadline, ServiceTimeout
  <2>3. ASSUME NEW w \in watchers, WatcherFires(w)
        PROVE  report'.matched = report.matched
    <3>1. \E n : report' = [report EXCEPT !.registrations = n]
      BY ZenonT(40), <2>1, <2>3 DEF WatcherFires, AfterCancel, Reports
    <3> QED
      BY <2>1, <3>1, MatchedStays
  <2> QED
    BY <2>2, <2>3
<1>3. Lawful /\ \A x \in Conns : NewTo(x) = {} /\ (Told(x)' => Told(x))
  BY <1>1, StillIsLawful
<1> QED
  BY ZenonT(40), <1>0, <1>1, <1>2, <1>3, QuietlyAgreed

\* A registration that is refused, or that could not be told to wait.
LEMMA RefusalAgrees ==
  ASSUME ServiceSound, ServiceSound', AgreementSound, NEW c \in Conns,
         AdmitWaiterGone(c) \/ AdmitRefused(c) \/ AdmitWaitingUnsent(c)
  PROVE  AgreementSound'
<1>0. InboxSound' /\ InboxSound /\ ClientsSound /\ Admitted(c) /\ AtLoop
  BY DEF ServiceSound, AdmitWaiterGone, AdmitRefused, AdmitWaitingUnsent, Admitted
<1>1. UNCHANGED <<inbox, acks, server>> /\ waiting' \subseteq waiting
  BY ZenonT(40) DEF AdmitWaiterGone, AdmitRefused, AdmitWaitingUnsent
<1>2. report'.matched = report.matched
  <2>1. SweptReport \in Reports /\ SweptReport.matched = report.matched
    BY ZenonT(40), <1>0, SweptSound
  <2>2. Rejection(SweptReport).matched = report.matched
    BY <2>1, RejectionMatched
  <2>3. CASE AdmitRefused(c) \/ AdmitWaitingUnsent(c)
    BY <2>2, <2>3 DEF AdmitRefused, AdmitWaitingUnsent
  <2>4. CASE AdmitWaiterGone(c)
    <3>1. PICK w : report' = Rejection([SweptReport EXCEPT !.registrations =
                     Released(@, Swept.registrations - Cancelled(Swept, w.device, w.id, now).registrations)])
      BY ZenonT(40), <2>4 DEF AdmitWaiterGone
    <3> DEFINE n == Released(SweptReport.registrations,
                             Swept.registrations - Cancelled(Swept, w.device, w.id, now).registrations)
    <3>2. report' = Rejection([SweptReport EXCEPT !.registrations = n])
      BY ZenonT(40), <3>1
    <3> HIDE DEF n
    <3>3. Rejection([SweptReport EXCEPT !.registrations = n]).matched = SweptReport.matched
      BY <2>1, MatchedStays
    <3> QED
      BY <2>1, <3>2, <3>3
  <2> QED
    BY <2>3, <2>4
<1>3. /\ Lawful /\ \A x \in Conns : Told(x)' => Told(x)
      /\ \A x \in Conns : \A e \in NewTo(x) : e.kind = "Waiting"
  BY ZenonT(40), <1>0, <1>1, AdmittingIsLawful
<1>4. \A x \in Conns : \A e \in NewTo(x) : e.kind # "Delivery"
  BY <1>3
<1> QED
  BY ZenonT(40), <1>0, <1>1, <1>2, <1>3, <1>4, QuietlyAgreed

\* A registration that waits: nothing has been delivered to its client.
LEMMA WaitingAgrees ==
  ASSUME ServiceSound, ServiceSound', AgreementSound, NEW c \in Conns, AdmitWaiting(c)
  PROVE  AgreementSound'
<1>0. /\ InboxSound' /\ InboxSound /\ ClientsSound /\ ReportSound /\ Admitted(c) /\ AtLoop
      /\ EachClientSound /\ WaitersUnmatched /\ PairsCounted
  BY DEF ServiceSound, AgreementSound, AdmitWaiting, Admitted
<1>1. UNCHANGED <<acks, server>> /\ inbox' = Delivered(c, Msg("Waiting", c)) /\ server = Loop
  BY <1>0, LoopIsIdle DEF AdmitWaiting
<1>2. report'.matched = report.matched
  <2>1. SweptReport \in Reports /\ SweptReport.matched = report.matched
    BY ZenonT(40), <1>0, SweptSound
  <2>2. \E n : report' = [SweptReport EXCEPT !.registrations = n]
    BY ZenonT(40), <2>1 DEF AdmitWaiting, Reports
  <2> QED
    BY <2>1, <2>2, MatchedStays
<1>3. /\ Lawful /\ \A x \in Conns : Told(x)' => Told(x)
      /\ \A x \in Conns : \A e \in NewTo(x) : e.kind = "Waiting"
      /\ ~ Taken(c) /\ Taken(c)' /\ Unmatched(c)
  BY ZenonT(40), <1>0, <1>1, AdmittingIsLawful
<1>4. EachClientSound'
  BY <1>0, <1>3, ClientsStay
<1>5. PairsCounted'
  BY ZenonT(40), <1>0, <1>1, <1>2, <1>3, PairsKept DEF ConfirmedPair
<1>6. ExchangeAgrees'
  BY <1>1 DEF ExchangeAgrees
<1>7. WaitersUnmatched'
  <2> DEFINE v == [device |-> Device(c), id |-> Reg(c).id, conn |-> c, expires |-> now + Reg(c).ttl]
  <2>1. v.conn = c /\ \A w \in waiting' : w \in waiting \/ w = v
    BY DEF AdmitWaiting
  <2> HIDE DEF v
  <2>2. \A x \in Conns : Unmatched(x) => Unmatched(x)'
    BY <1>3, UnmatchedStays DEF NewTo
  <2>3. \A x \in Conns : Taken(x) => Taken(x)'
    BY <1>3 DEF Lawful, Held
  <2>4. \A w \in waiting : w.conn \in Conns /\ Taken(w.conn) /\ Unmatched(w.conn)
    BY <1>0 DEF ServiceSound, WaitersSound, WaitersUnmatched
  <2>5. \A w \in waiting' : Taken(w.conn)' /\ Unmatched(w.conn)'
    BY <1>3, <2>1, <2>2, <2>3, <2>4
  <2>6. \A w \in waiting : w.conn # c
    BY <1>3, <2>4
  <2>7. \A w, x \in waiting' : w.conn = x.conn => w = x
    BY <1>0, <2>1, <2>6 DEF WaitersUnmatched
  <2> QED
    BY <2>5, <2>7 DEF WaitersUnmatched
<1> QED
  BY <1>3, <1>4, <1>5, <1>6, <1>7 DEF Lawful, AgreementSound

\* A match: its exchange begins with two clients to which nothing was delivered.
LEMMA MatchAgrees ==
  ASSUME ServiceSound, ServiceSound', AgreementSound, NEW c \in Conns, AdmitMatched(c)
  PROVE  AgreementSound'
<1>0. /\ InboxSound' /\ InboxSound /\ ClientsSound /\ ReportSound /\ Admitted(c) /\ AtLoop
      /\ EachClientSound /\ WaitersUnmatched /\ PairsCounted
      /\ \A w \in waiting : w.conn \in Conns
  BY DEF ServiceSound, WaitersSound, AgreementSound, AdmitMatched, Admitted
<1>1. UNCHANGED <<acks, inbox>> /\ server = Loop
  BY <1>0, LoopIsIdle DEF AdmitMatched
<1>2. /\ Lawful /\ \A x \in Conns : Told(x)' => Told(x)
      /\ ~ Taken(c) /\ Taken(c)' /\ Unmatched(c)
  BY ZenonT(40), <1>0, <1>1, AdmittingIsLawful
<1>3. \A x \in Conns : InFlight(x)' = InFlight(x)
  BY <1>1 DEF InFlight
<1>4. PICK w \in Partners(Cleanup(Swept, now), Device(c), Reg(c)) :
        LET held == {x \in waiting \ ExpiredWaiters : x.device = w.device /\ x.id = w.id}
            counted == [SweptReport EXCEPT !.registrations = @ + 1]
        IN  /\ waiting' = (waiting \ ExpiredWaiters) \ held
            /\ IF held = {}
               THEN /\ \E n : report' = Rejection([counted EXCEPT !.registrations = n])
                    /\ UNCHANGED server
               ELSE /\ report' = counted
                    /\ server' = [step |-> 1, caller |-> c,
                                  waiter |-> (CHOOSE x \in held : TRUE).conn]
  BY ZenonT(40) DEF AdmitMatched
<1> DEFINE held == {x \in waiting \ ExpiredWaiters : x.device = w.device /\ x.id = w.id}
<1>5. SweptReport \in Reports /\ SweptReport.matched = report.matched
  BY ZenonT(40), <1>0, SweptSound
<1>6. report'.matched = report.matched
  <2> DEFINE counted == [SweptReport EXCEPT !.registrations = @ + 1]
  <2>1. counted.matched = SweptReport.matched
    BY <1>5 DEF Reports
  <2>2. \A n : Rejection([counted EXCEPT !.registrations = n]).matched = SweptReport.matched
    BY <1>5 DEF Reports, Rejection
  <2> QED
    BY ZenonT(40), <1>4, <1>5, <2>1, <2>2
<1>7. waiting' = (waiting \ ExpiredWaiters) \ held /\ waiting' \subseteq waiting
  BY ZenonT(40), <1>4
<1>8. \/ UNCHANGED server
      \/ \E v \in held : server' = [step |-> 1, caller |-> c, waiter |-> v.conn]
  BY ZenonT(40), <1>4
<1>9. EachClientSound'
  BY <1>0, <1>2, ClientsStay
<1>10. WaitersUnmatched'
  BY ZenonT(40), <1>0, <1>2, <1>3, <1>7, WaitersStay
<1>11. server'.step \in {0, 1} /\ server.step = 0
  BY <1>1, <1>8 DEF Loop
<1>12. PairsCounted'
  BY <1>0, <1>2, <1>6, <1>11, PairsKept DEF ConfirmedPair, Confirming
<1>13. ExchangeAgrees'
  <2>1. CASE UNCHANGED server
    BY ZenonT(40), <1>1, <2>1 DEF ExchangeAgrees
  <2>2. ASSUME NEW v \in held, server' = [step |-> 1, caller |-> c, waiter |-> v.conn]
        PROVE  ExchangeAgrees'
    <3>1. PICK b \in Conns : b = v.conn
      BY ZenonT(40), <1>0
    <3>2. v \in waiting /\ v \notin waiting'
      BY ZenonT(40), <1>7
    <3>3. b # c /\ Taken(b) /\ Unmatched(b)
      BY ZenonT(40), <1>0, <1>2, <3>1, <3>2 DEF WaitersUnmatched
    <3>4. Taken(b)' /\ Unmatched(b)' /\ Unmatched(c)'
      BY ZenonT(40), <1>2, <1>3, <3>3, UnmatchedStays DEF Lawful, Held
    <3>5. OnlyFrom(b, c)' /\ OnlyFrom(c, b)'
      BY ZenonT(40), <3>4 DEF OnlyFrom, Unmatched
    <3>6. \A x \in waiting' : x.conn # c /\ x.conn # b
      BY ZenonT(40), <1>0, <1>2, <1>7, <3>1, <3>2 DEF WaitersUnmatched
    <3>7. server'.step = 1 /\ server'.caller = c /\ server'.waiter = b
      BY ZenonT(40), <2>2, <3>1
    <3> QED
      BY <1>2, <3>3, <3>4, <3>5, <3>6, <3>7 DEF ExchangeAgrees, CallerCommits, WaiterCommits
  <2> QED
    BY ZenonT(40), <1>8, <2>1, <2>2
<1> QED
  BY ZenonT(40), <1>2, <1>9, <1>10, <1>12, <1>13 DEF Lawful, AgreementSound

-----------------------------------------------------------------------------
(* The exchange keeps the agreement.                                       *)

\* The exchange waits for each client's acknowledgement of its commit.
LEMMA ScriptCommits ==
  /\ Script[CallerCommits] = [op |-> "await", side |-> ToCaller, kind |-> "CommitAck"]
  /\ Script[WaiterCommits] = [op |-> "await", side |-> ToWaiter, kind |-> "CommitAck"]
BY ScriptShape DEF CallerCommits, WaiterCommits

\* The two sides of the exchange.
LEMMA TwoSides ==
  ASSUME ServiceSound, AgreementSound, InExchange
  PROVE  \E a, b \in Conns :
           /\ server \in [step : 1 .. Ending, caller : Conns, waiter : Conns]
           /\ server.caller = a /\ server.waiter = b /\ server # Loop
           /\ a # b /\ Taken(a) /\ Taken(b)
           /\ \A w \in waiting : w.conn # a /\ w.conn # b
           /\ OnlyFrom(a, b) /\ OnlyFrom(b, a)
           /\ server.step > WaiterCommits => Bound(a, b) /\ Bound(b, a)
           /\ (Here = a /\ There = b) \/ (Here = b /\ There = a)
<1>1. server \in [step : 1 .. Ending, caller : Conns, waiter : Conns] /\ server # Loop
  BY ExchangeIsBusy DEF InExchange, Loop
<1>2. PICK a \in Conns, b \in Conns : server.caller = a /\ server.waiter = b
  BY <1>1
<1>3. /\ a # b /\ Taken(a) /\ Taken(b)
      /\ \A w \in waiting : w.conn # a /\ w.conn # b
      /\ OnlyFrom(a, b) /\ OnlyFrom(b, a)
      /\ server.step > CallerCommits => client[a].committed
      /\ server.step > WaiterCommits => client[b].committed
  BY <1>1, <1>2 DEF AgreementSound, ExchangeAgrees
<1>4. ASSUME server.step > WaiterCommits
      PROVE  Bound(a, b) /\ Bound(b, a)
  <2>1. server.step > CallerCommits
    BY <1>1, <1>4 DEF CallerCommits, WaiterCommits
  <2>2. client[a].committed /\ client[b].committed
    BY <1>3, <1>4, <2>1
  <2>3. client[a].delivered # {} /\ client[b].delivered # {}
    BY <2>2 DEF AgreementSound, EachClientSound, DeliveredValid
  <2>4. client[a].delivered = {b} /\ client[b].delivered = {a}
    BY <1>3, <2>3 DEF OnlyFrom
  <2> QED
    BY <2>2, <2>4 DEF Bound
<1>5. (Here = a /\ There = b) \/ (Here = b /\ There = a)
  BY <1>2 DEF Here, There
<1> QED
  BY ZenonT(40), <1>1, <1>2, <1>3, <1>4, <1>5

\* A record of the exchange goes to one of its two clients.
LEMMA SentAgrees ==
  ASSUME ServiceSound, InboxSound', AgreementSound, InExchange, UNCHANGED <<client, acks>>,
         NEW kind \in {"Delivery", "Commit", "Complete"},
         kind = "Complete" => server.step > WaiterCommits,
         inbox' \in {inbox, Delivered(Here, Msg(kind, There))},
         waiting' \subseteq waiting
  PROVE  /\ Lawful /\ EachClientSound' /\ WaitersUnmatched'
         /\ \A e \in NewTo(server.caller) : e.kind = "Delivery" => e.from = server.waiter
         /\ \A e \in NewTo(server.waiter) : e.kind = "Delivery" => e.from = server.caller
         /\ kind # "Complete" => \A x \in Conns : Told(x)' => Told(x)
         /\ \A x \in Conns :
              Told(x)' => Told(x) \/ {x} \cup client'[x].delivered \in {{server.caller, server.waiter}}
<1>1. PICK a, b \in Conns :
           /\ server.caller = a /\ server.waiter = b
           /\ a # b /\ Taken(a) /\ Taken(b)
           /\ \A w \in waiting : w.conn # a /\ w.conn # b
           /\ server.step > WaiterCommits => Bound(a, b) /\ Bound(b, a)
           /\ (Here = a /\ There = b) \/ (Here = b /\ There = a)
  BY ZenonT(40), TwoSides
<1>2. PICK h, t \in Conns :
        /\ Here = h /\ There = t /\ {h, t} = {a, b} /\ h # t /\ Taken(h) /\ Taken(t)
        /\ server.step > WaiterCommits => Bound(h, t)
        /\ (h = a /\ t = b) \/ (h = b /\ t = a)
  BY ZenonT(40), <1>1
<1>3. PICK m : m = Msg(kind, t)
  OBVIOUS
<1>4. m \in Messages /\ m.kind = kind /\ m.from = t
  BY <1>3 DEF Msg, Messages
<1>5. inbox' \in {inbox, Delivered(h, m)}
  BY <1>2, <1>3
<1>6. \A x \in Conns : \A e \in NewTo(x) : x = h /\ e = m
  BY <1>4, <1>5, DeliveredIsFresh DEF ServiceSound
<1>7. Lawful
  <2>1. Begun(m.from) /\ (m.kind = "Complete" => Bound(h, m.from))
    BY <1>2, <1>4 DEF Taken, Begun
  <2> QED
    BY ZenonT(40), <1>2, <1>4, <1>5, <2>1, SendingIsLawful DEF ServiceSound
<1>8. EachClientSound'
  BY <1>7, ClientsStay DEF ServiceSound, AgreementSound
<1>9. WaitersUnmatched'
  <2>1. \A w \in waiting : w.conn \in Conns /\ w.conn # h
    BY ZenonT(40), <1>1, <1>2 DEF ServiceSound, WaitersSound
  <2>2. \A w \in waiting' : \A e \in InFlight(w.conn)' : e \in InFlight(w.conn)
    BY <1>6, <2>1 DEF NewTo
  <2> QED
    BY <1>7, <2>1, <2>2, WaitersStay DEF AgreementSound
<1>10. /\ \A e \in NewTo(server.caller) : e.kind = "Delivery" => e.from = server.waiter
       /\ \A e \in NewTo(server.waiter) : e.kind = "Delivery" => e.from = server.caller
  BY ZenonT(40), <1>1, <1>2, <1>4, <1>6
<1>11. \A x \in Conns : Told(x)' => Told(x) \/ (x = h /\ kind = "Complete")
  BY ZenonT(40), <1>4, <1>6 DEF Told, NewTo
<1>12. kind = "Complete" => {h} \cup client'[h].delivered = {a, b}
  BY ZenonT(40), <1>2 DEF Bound
<1> QED
  BY ZenonT(40), <1>1, <1>7, <1>8, <1>9, <1>10, <1>11, <1>12

\* The exchange goes on: whoever's commit it waited for has committed.
LEMMA AdvanceAgrees ==
  ASSUME ServiceSound, AgreementSound, InExchange, Advance, Lawful, waiting' \subseteq waiting,
         \A e \in NewTo(server.caller) : e.kind = "Delivery" => e.from = server.waiter,
         \A e \in NewTo(server.waiter) : e.kind = "Delivery" => e.from = server.caller,
         server.step = CallerCommits => client[server.caller].committed,
         server.step = WaiterCommits => client[server.waiter].committed
  PROVE  /\ ExchangeAgrees'
         /\ server'.step = server.step + 1 /\ server.step \in 1 .. Ending
         /\ server'.caller = server.caller /\ server'.waiter = server.waiter
<1>1. server \in [step : 1 .. Ending, caller : Conns, waiter : Conns] /\ server # Loop
  BY ExchangeIsBusy DEF InExchange, Loop
<1>2. /\ server'.step = server.step + 1 /\ server.step \in 1 .. Ending
      /\ server'.caller = server.caller /\ server'.waiter = server.waiter
  BY <1>1 DEF Advance
<1>3. /\ server'.step > CallerCommits => server.step > CallerCommits \/ server.step = CallerCommits
      /\ server'.step > WaiterCommits => server.step > WaiterCommits \/ server.step = WaiterCommits
  BY <1>2 DEF CallerCommits, WaiterCommits, Ending
<1>4. ExchangeAgrees'
  BY <1>1, <1>2, <1>3, ExchangeStays DEF ServiceSound, AgreementSound
<1> QED
  BY ZenonT(40), <1>2, <1>4

\* What the steps of the exchange wait for, and where they stand.
LEMMA CommitsAwaited ==
  ASSUME ServiceSound, InExchange
  PROVE  /\ Entry.op # "await" => server.step # CallerCommits /\ server.step # WaiterCommits
         /\ server.step = CallerCommits => Here = server.caller /\ Entry.kind = "CommitAck"
         /\ server.step = WaiterCommits => Here = server.waiter /\ Entry.kind = "CommitAck"
<1>1. server.step = CallerCommits =>
        /\ Entry.op = "await" /\ Entry.side = ToCaller /\ Entry.kind = "CommitAck"
  BY ScriptCommits DEF Entry
<1>2. server.step = WaiterCommits =>
        /\ Entry.op = "await" /\ Entry.side = ToWaiter /\ Entry.kind = "CommitAck"
  BY ScriptCommits DEF Entry
<1> QED
  BY <1>1, <1>2 DEF Here, ToCaller, ToWaiter

\* The exchange sends, or looks for stray records.
LEMMA SendAgrees ==
  ASSUME ServiceSound, ServiceSound', AgreementSound, ExchangeSend \/ ExchangeQuiet
  PROVE  AgreementSound'
<1>0. /\ InExchange /\ Advance /\ InboxSound' /\ Entry.op \in {"send", "quiet"}
      /\ UNCHANGED <<client, acks, waiting, report>>
  BY ZenonT(40) DEF ExchangeSend, ExchangeQuiet, net, ServiceSound
<1>1. server.step \in 1 .. Ending
  BY ZenonT(40), <1>0, ExchangeIsBusy
<1>2. server.step < Confirming
  BY <1>0, <1>1, EntryShape DEF Confirming, Ending
<1>3. PICK kind \in {"Delivery", "Commit"} : inbox' \in {inbox, Delivered(Here, Msg(kind, There))}
  <2>1. CASE ExchangeSend
    <3>1. Entry.kind \in {"Delivery", "Commit"}
      BY ZenonT(40), <1>1, <2>1, ScriptShape DEF ExchangeSend, Entry
    <3> QED
      BY <2>1, <3>1 DEF ExchangeSend
  <2>2. CASE ExchangeQuiet
    BY <2>2 DEF ExchangeQuiet, net
  <2> QED
    BY <2>1, <2>2
<1>4. /\ Lawful /\ EachClientSound' /\ WaitersUnmatched'
      /\ \A e \in NewTo(server.caller) : e.kind = "Delivery" => e.from = server.waiter
      /\ \A e \in NewTo(server.waiter) : e.kind = "Delivery" => e.from = server.caller
      /\ \A x \in Conns : Told(x)' => Told(x)
  BY ZenonT(40), <1>0, <1>3, SentAgrees
<1>5. server.step # CallerCommits /\ server.step # WaiterCommits
  BY <1>0, CommitsAwaited
<1>6. ExchangeAgrees' /\ server'.step = server.step + 1
  BY ZenonT(40), <1>0, <1>4, <1>5, AdvanceAgrees
<1>7. ~ (server'.step > Confirming) /\ ~ (server.step > Confirming)
  BY <1>1, <1>2, <1>6 DEF Confirming, Ending
<1>8. PairsCounted'
  BY ZenonT(40), <1>0, <1>4, <1>7, PairsKept DEF ServiceSound, AgreementSound, ConfirmedPair
<1> QED
  BY <1>4, <1>6, <1>8 DEF Lawful, AgreementSound

\* The exchange takes an acknowledgement: of a commit only from who has committed.
LEMMA AwaitAgrees ==
  ASSUME ServiceSound, ServiceSound', AgreementSound, ExchangeAwait
  PROVE  AgreementSound'
<1>0. /\ InExchange /\ Advance /\ InboxSound' /\ Entry.op = "await"
      /\ UNCHANGED <<client, inbox, waiting, report>>
      /\ acks[Here] # <<>> /\ Head(acks[Here]) = Entry.kind
      /\ acks' = [acks EXCEPT ![Here] = IF @ = <<>> THEN @ ELSE Tail(@)]
  BY DEF ExchangeAwait, AckArrived, ServiceSound
<1>1. PICK h \in Conns : h = Here
  BY <1>0, ExchangeIsBusy
<1>2. server.step \in 1 .. Ending /\ server.caller \in Conns /\ server.waiter \in Conns
  BY <1>0, ExchangeIsBusy
<1>3. server.step < Confirming
  BY <1>0, <1>2, EntryShape DEF Confirming, Ending
<1>4. Lawful /\ \A x \in Conns : NewTo(x) = {} /\ (Told(x)' => Told(x))
  BY ZenonT(40), <1>0, <1>1, TakingIsLawful
<1>5. Entry.kind = "CommitAck" => client[h].committed
  <2>1. acks[h] \in Seq({"DeliveryAck", "CommitAck"}) /\ acks[h] # <<>>
    BY <1>0, <1>1 DEF AgreementSound, EachClientSound, AcksValid
  <2>2. Head(acks[h]) \in Elems(acks[h])
    BY <2>1, ElemsOfTail
  <2> QED
    BY <1>0, <1>1, <2>2 DEF AgreementSound, EachClientSound, AcksValid
<1>6. /\ server.step = CallerCommits => client[server.caller].committed
      /\ server.step = WaiterCommits => client[server.waiter].committed
  BY <1>0, <1>1, <1>5, CommitsAwaited
<1>7. ExchangeAgrees' /\ server'.step = server.step + 1
  BY ZenonT(40), <1>0, <1>2, <1>4, <1>6, AdvanceAgrees
<1>8. ~ (server'.step > Confirming) /\ ~ (server.step > Confirming)
  BY <1>2, <1>3, <1>7 DEF Confirming, Ending
<1>9. PairsCounted'
  BY <1>0, <1>4, <1>8, PairsKept DEF ServiceSound, AgreementSound, ConfirmedPair
<1>10. EachClientSound'
  BY <1>0, <1>4, ClientsStay DEF ServiceSound, AgreementSound
<1>11. WaitersUnmatched'
  <2>1. \A w \in waiting : w.conn \in Conns
    BY DEF ServiceSound, WaitersSound
  <2>2. \A w \in waiting' : \A e \in InFlight(w.conn)' : e \in InFlight(w.conn)
    BY <1>0, <1>4, <2>1 DEF NewTo
  <2> QED
    BY <1>0, <1>4, <2>1, <2>2, WaitersStay DEF AgreementSound
<1> QED
  BY ZenonT(40), <1>4, <1>7, <1>9, <1>10, <1>11 DEF Lawful, AgreementSound

\* The broker confirms the match: one more pair, one more match.
LEMMA ConfirmAgrees ==
  ASSUME ServiceSound, ServiceSound', AgreementSound, ExchangeConfirm
  PROVE  AgreementSound'
<1>0. /\ InExchange /\ Advance /\ InboxSound' /\ Entry.op = "confirm"
      /\ UNCHANGED <<client, inbox, acks, waiting, report>>
  BY DEF ExchangeConfirm, net, ServiceSound
<1>1. server.step = Confirming /\ server.caller \in Conns /\ server.waiter \in Conns
  BY ZenonT(40), <1>0, ExchangeIsBusy, EntryShape
<1>2. Lawful /\ \A x \in Conns : NewTo(x) = {} /\ (Told(x)' => Told(x))
  BY <1>0, StillIsLawful
<1>3. server.step # CallerCommits /\ server.step # WaiterCommits
  BY <1>0, CommitsAwaited
<1>4. ExchangeAgrees' /\ server'.step = server.step + 1
  BY ZenonT(40), <1>0, <1>1, <1>2, <1>3, AdvanceAgrees
<1>5. EachClientSound'
  BY <1>0, <1>2, ClientsStay DEF ServiceSound, AgreementSound
<1>6. WaitersUnmatched'
  <2>1. \A w \in waiting : w.conn \in Conns
    BY DEF ServiceSound, WaitersSound
  <2>2. \A w \in waiting' : \A e \in InFlight(w.conn)' : e \in InFlight(w.conn)
    BY <1>0, <1>2, <2>1 DEF NewTo
  <2> QED
    BY <1>0, <1>2, <2>1, <2>2, WaitersStay DEF AgreementSound
<1>7. PairsCounted'
  <2>1. server.step = 11 /\ server'.step = 12
    BY <1>1, <1>4 DEF Confirming
  <2>2. /\ (IF server.step > Confirming THEN 1 ELSE 0) = 0 /\ ConfirmedPair = {}
        /\ (IF server'.step > Confirming THEN 1 ELSE 0) = 1
        /\ ConfirmedPair' = {{server'.caller, server'.waiter}}
    BY <2>1 DEF Confirming, ConfirmedPair
  <2>3. ToldPairs' \subseteq ToldPairs \cup {}
    BY <1>2, PairsStay DEF AgreementSound
  <2>4. PICK x : x = {server'.caller, server'.waiter}
    BY ZenonT(40)
  <2> DEFINE S == ToldPairs \cup ConfirmedPair
             T == (ToldPairs \cup ConfirmedPair)'
  <2>5. T \subseteq S \cup {x}
    BY <2>2, <2>3, <2>4
  <2>6. IsFiniteSet(S) /\ Cardinality(S) <= report.matched + 0 /\ report.matched \in Nat
    BY <2>2 DEF AgreementSound, PairsCounted, ServiceSound, ReportSound
  <2> HIDE DEF S, T
  <2>7. IsFiniteSet(S \cup {x}) /\ Cardinality(S) \in Nat
        /\ (Cardinality(S \cup {x}) = Cardinality(S) \/ Cardinality(S \cup {x}) = Cardinality(S) + 1)
    BY <2>6 DEF AgreementSound, PairsCounted, SetsSized, AddSized, TypeSized
  <2>8. IsFiniteSet(T) /\ Cardinality(T) <= Cardinality(S \cup {x})
    BY ZenonT(40), <2>5, <2>7, RemovedCount DEF AgreementSound, PairsCounted
  <2>9. Cardinality(T) \in Nat
    BY <2>8 DEF AgreementSound, PairsCounted, SetsSized, TypeSized
  <2>10. Cardinality(T) <= report.matched + 1
    BY <2>6, <2>7, <2>8, <2>9
  <2> QED
    BY <1>0, <2>2, <2>8, <2>10 DEF AgreementSound, PairsCounted, T
<1> QED
  BY ZenonT(40), <1>2, <1>4, <1>5, <1>6, <1>7 DEF Lawful, AgreementSound

\* The clients are told of a match that both have committed to and that is confirmed.
LEMMA TellAgrees ==
  ASSUME ServiceSound, ServiceSound', AgreementSound, ExchangeTell
  PROVE  AgreementSound'
<1>0. /\ InExchange /\ InboxSound' /\ Entry.op = "tell"
      /\ UNCHANGED <<client, acks>> /\ waiting' \subseteq waiting
      /\ inbox' \in {inbox, Delivered(Here, Msg("Complete", There))}
  BY DEF ExchangeTell, ServiceSound
<1>1. /\ server.step \in 1 .. Ending /\ server.step > Confirming
      /\ server.caller \in Conns /\ server.waiter \in Conns /\ report \in Reports
  BY ZenonT(40), <1>0, ExchangeIsBusy, EntryShape
<1>2. server.step > WaiterCommits /\ server.step # CallerCommits /\ server.step # WaiterCommits
  BY <1>1 DEF Ending, Confirming, CallerCommits, WaiterCommits
<1>3. /\ Lawful /\ EachClientSound' /\ WaitersUnmatched'
      /\ \A e \in NewTo(server.caller) : e.kind = "Delivery" => e.from = server.waiter
      /\ \A e \in NewTo(server.waiter) : e.kind = "Delivery" => e.from = server.caller
      /\ \A x \in Conns :
           Told(x)' => Told(x) \/ {x} \cup client'[x].delivered \in {{server.caller, server.waiter}}
  BY ZenonT(40), <1>0, <1>2, SentAgrees
<1>4. ToldPairs' \subseteq ToldPairs \cup {{server.caller, server.waiter}}
  BY ZenonT(40), <1>3, PairsStay DEF AgreementSound
<1>5. ConfirmedPair = {{server.caller, server.waiter}} /\ report.matched \in Nat
  BY <1>1 DEF ConfirmedPair, Reports
<1>6. PairsCounted /\ (IF server.step > Confirming THEN 1 ELSE 0) = 1
  BY <1>1 DEF AgreementSound
<1>7. CASE server.step < Len(Script)
  <2>1. Advance /\ report' = report
    BY <1>7 DEF ExchangeTell
  <2>2. /\ ExchangeAgrees' /\ server'.step = server.step + 1
        /\ server'.caller = server.caller /\ server'.waiter = server.waiter
    BY ZenonT(40), <1>0, <1>2, <1>3, <2>1, AdvanceAgrees
  <2>3. server'.step > Confirming
    BY <1>1, <2>2 DEF Confirming, Ending
  <2>4. (ToldPairs \cup ConfirmedPair)' \subseteq ToldPairs \cup ConfirmedPair
    BY ZenonT(40), <1>4, <1>5, <2>2, <2>3 DEF ConfirmedPair
  <2>5. PairsCounted'
    BY ZenonT(40), <1>5, <1>6, <2>1, <2>3, <2>4, PairsWithin
  <2> QED
    BY ZenonT(40), <1>3, <2>2, <2>5 DEF Lawful, AgreementSound
<1>8. CASE ~ (server.step < Len(Script))
  <2>1. server' = Loop /\ report' = [report EXCEPT !.matched = report.matched + 1]
    BY <1>8 DEF ExchangeTell
  <2>2. report'.matched = report.matched + 1
    BY <1>1, <2>1 DEF Reports
  <2>3. (IF server'.step > Confirming THEN 1 ELSE 0) = 0 /\ ConfirmedPair' = {}
    BY <2>1 DEF Loop, Confirming, ConfirmedPair
  <2>4. (ToldPairs \cup ConfirmedPair)' \subseteq ToldPairs \cup ConfirmedPair
    BY <1>4, <1>5, <2>3
  <2>5. PairsCounted'
    BY <1>5, <1>6, <2>2, <2>3, <2>4, PairsWithin
  <2>6. ExchangeAgrees'
    BY <2>1 DEF ExchangeAgrees
  <2> QED
    BY ZenonT(40), <1>3, <2>5, <2>6 DEF Lawful, AgreementSound
<1> QED
  BY <1>7, <1>8

\* The exchange fails before the match is confirmed: nobody has been told.
LEMMA FailAgrees ==
  ASSUME ServiceSound, ServiceSound', AgreementSound, ExchangeFails
  PROVE  AgreementSound'
<1>0. /\ InExchange /\ InboxSound' /\ CanFail /\ server' = Loop
      /\ UNCHANGED <<client, acks, waiting>>
  BY ZenonT(40) DEF ExchangeFails, ServiceSound
<1>1. server.step \in 1 .. Ending /\ report \in Reports /\ ~ (server.step > Confirming)
  BY ZenonT(40), <1>0, ExchangeIsBusy, EntryShape DEF CanFail
<1>2. PICK kind \in {"Delivery", "Commit"} : inbox' \in {inbox, Delivered(Here, Msg(kind, There))}
  <2>1. Entry.op = "send" => Entry.kind \in {"Delivery", "Commit"}
    BY <1>1, ScriptShape DEF Entry
  <2>2. inbox' = inbox \/ (Entry.op = "send" /\ inbox' = Delivered(Here, Msg(Entry.kind, There)))
    BY ZenonT(40) DEF ExchangeFails
  <2> QED
    BY <2>1, <2>2
<1>3. /\ Lawful /\ EachClientSound' /\ WaitersUnmatched'
      /\ \A x \in Conns : Told(x)' => Told(x)
  BY <1>0, <1>2, SentAgrees
<1>4. report'.matched = report.matched
  BY <1>1 DEF ExchangeFails, AbortReport, Rejection, Reports
<1>5. ~ (server'.step > Confirming)
  BY <1>0 DEF Loop, Confirming
<1>6. PairsCounted'
  BY <1>1, <1>3, <1>4, <1>5, PairsKept DEF ServiceSound, AgreementSound, ConfirmedPair
<1>7. ExchangeAgrees'
  BY ZenonT(40), <1>0 DEF ExchangeAgrees
<1> QED
  BY <1>3, <1>6, <1>7 DEF Lawful, AgreementSound

\* Every step of the service keeps the agreement.
LEMMA AgreementStep ==
  ASSUME ServiceSound, ServiceSound', AgreementSound, [Next]_vars
  PROVE  AgreementSound'
<1>1. CASE UNCHANGED vars
  BY <1>1, ClientsAgree
<1>2. CASE Next
  <2>1. CASE ServiceTick
    BY <2>1, ClientsAgree
  <2>2. CASE \E c \in Conns : ClientStart(c) \/ ClientReceive(c) \/ ClientFail(c) \/ CloseMatched(c)
    BY <2>2, ClientsAgree
  <2>3. CASE \E c \in Conns : Admit(c)
    BY <2>3, RefusalAgrees, WaitingAgrees, MatchAgrees DEF Admit
  <2>4. CASE AdmissionFails \/ WaiterDeadline \/ ServiceTimeout \/ \E w \in watchers : WatcherFires(w)
    BY <2>4, LoopAgrees
  <2>5. CASE Exchange
    BY <2>5, SendAgrees, AwaitAgrees, ConfirmAgrees, TellAgrees, FailAgrees DEF Exchange
  <2> QED
    BY <1>2, <2>1, <2>2, <2>3, <2>4, <2>5 DEF Next
<1> QED
  BY <1>1, <1>2

\* The clients begin with nothing delivered.
LEMMA AgreementBegins ==
  ASSUME SetsSized, ServiceInit
  PROVE  AgreementSound
<1>1. \A c \in Conns : client[c] = IdleClient /\ inbox[c] = <<>> /\ acks[c] = <<>>
  BY DEF ServiceInit
<1>2. \A c \in Conns : /\ client[c].phase = "Idle" /\ client[c].delivered = {}
                       /\ ~ client[c].committed /\ InFlight(c) = {} /\ Elems(acks[c]) = {}
  BY <1>1 DEF IdleClient, InFlight, Elems
<1>3. EachClientSound
  <2>1. <<>> \in Seq({"DeliveryAck", "CommitAck"})
    OBVIOUS
  <2> QED
    BY ZenonT(40), <1>1, <1>2, <2>1
       DEF EachClientSound, DeliveredValid, InFlightValid, DoneBound, AcksValid, Unmatched
<1>4. WaitersUnmatched /\ ExchangeAgrees
  BY ZenonT(40) DEF ServiceInit, WaitersUnmatched, ExchangeAgrees
<1>5. server.step = 0 /\ report.matched = 0
  BY DEF ServiceInit, Loop
<1>6. ToldPairs = {} /\ ConfirmedPair = {}
  BY <1>2, <1>5 DEF ToldPairs, Told, ConfirmedPair, Confirming
<1>7. PairsCounted
  BY <1>5, <1>6 DEF PairsCounted, SetsSized, EmptySized, Confirming
<1>8. acks = [c \in Conns |-> acks[c]]
  BY DEF ServiceInit
<1> QED
  BY <1>3, <1>4, <1>7, <1>8 DEF AgreementSound

\* What the invariants say of the clients that are done.
LEMMA SoundIsAgreed ==
  ASSUME ServiceSound, AgreementSound
  PROVE  DoneIsAgreed
<1>1. DoneIsTwoSided
  <2> SUFFICES ASSUME NEW c \in Conns, client[c].phase = "Done", NEW p \in client[c].delivered
               PROVE  /\ Device(p) = Reg(c).peer /\ Reg(p).peer = Device(c)
                      /\ client[p].delivered = {c}
                      /\ client[p].committed
    BY DEF DoneIsTwoSided
  <2>1. DeliveryValid(c, p)
    BY DEF AgreementSound, EachClientSound, DeliveredValid
  <2>2. Bound(c, p)
    BY DEF AgreementSound, EachClientSound, DoneBound, Bound
  <2> QED
    BY ZenonT(40), <2>1, <2>2 DEF DeliveryValid, Bound
<1>2. DoneIsConfirmed
  <2> DEFINE D == {{c} \cup client[c].delivered : c \in {x \in Conns : client[x].phase = "Done"}}
             S == ToldPairs \cup ConfirmedPair
  <2>1. D \subseteq S
    BY DEF ToldPairs, Told
  <2>2. IsFiniteSet(S) /\ Cardinality(S) <= broker.matches
    BY DEF AgreementSound, PairsCounted, ServiceSound, ReportSound
  <2>3. broker.matches \in Int
    BY DEF ServiceSound, ReportSound
  <2> HIDE DEF D, S
  <2>4. IsFiniteSet(D) /\ Cardinality(D) <= Cardinality(S)
    BY ZenonT(40), <2>1, <2>2, RemovedCount DEF AgreementSound, PairsCounted
  <2>5. Cardinality(D) \in Nat /\ Cardinality(S) \in Nat
    BY <2>2, <2>4 DEF AgreementSound, PairsCounted, SetsSized, TypeSized
  <2>6. Cardinality(D) <= broker.matches
    BY <2>2, <2>3, <2>4, <2>5
  <2> QED
    BY <2>6 DEF DoneIsConfirmed, D
<1> QED
  BY <1>1, <1>2 DEF DoneIsAgreed

-----------------------------------------------------------------------------
(* The laws of the sizes of finite sets, and the theorems.                  *)

Sets == INSTANCE FiniteSetTheorems

\* The library counts as the broker does.
LEMMA SameSizes == \A S : (Sets!IsFiniteSet(S) <=> IsFiniteSet(S)) /\ Sets!Cardinality(S) = Cardinality(S)
<1>1. \A S : Sets!IsFiniteSet(S) <=> IsFiniteSet(S)
  BY DEF Sets!IsFiniteSet, IsFiniteSet
<1>2. \A S : Sets!Cardinality(S) = Cardinality(S)
  BY DEF Sets!Cardinality, Cardinality
<1> QED
  BY ZenonT(40), <1>1, <1>2

\* The sizes of finite sets are as the library proves them.
LEMMA SetsAreSized == SetsSized
<1>1. TypeSized
  BY ZenonT(40), SameSizes, Sets!FS_CardinalityType DEF TypeSized
<1>2. EmptySized
  BY ZenonT(40), SameSizes, Sets!FS_EmptySet DEF EmptySized
<1>3. SingletonSized
  BY ZenonT(40), SameSizes, Sets!FS_Singleton DEF SingletonSized
<1>4. AddSized
  <2> SUFFICES ASSUME NEW S, NEW x, IsFiniteSet(S)
               PROVE  /\ IsFiniteSet(S \cup {x})
                      /\ Cardinality(S \cup {x}) = IF x \in S THEN Cardinality(S) ELSE Cardinality(S) + 1
    BY ZenonT(40) DEF AddSized
  <2> QED
    BY ZenonT(40), SameSizes, Sets!FS_AddElement
<1>5. RemoveSized
  <2> SUFFICES ASSUME NEW S, NEW x, IsFiniteSet(S), x \in S
               PROVE  Cardinality(S \ {x}) = Cardinality(S) - 1
    BY ZenonT(40) DEF RemoveSized
  <2> QED
    BY ZenonT(40), SameSizes, Sets!FS_RemoveElement
<1>6. SubsetSized
  <2> SUFFICES ASSUME NEW S, IsFiniteSet(S), NEW T \in SUBSET S
               PROVE  /\ IsFiniteSet(T) /\ Cardinality(T) <= Cardinality(S)
                      /\ IsFiniteSet(S \ T)
                      /\ Cardinality(S \ T) = Cardinality(S) - Cardinality(T)
    BY ZenonT(40) DEF SubsetSized
  <2>1. IsFiniteSet(T) /\ Cardinality(T) <= Cardinality(S)
    BY ZenonT(40), SameSizes, Sets!FS_Subset
  <2>2. S \cap T = T
    OBVIOUS
  <2>3. /\ IsFiniteSet(S \ T)
        /\ Cardinality(S \ T) = Cardinality(S) - Cardinality(S \cap T)
    BY ZenonT(40), SameSizes, Sets!FS_Difference
  <2> QED
    BY <2>1, <2>2, <2>3
<1>7. UnionSized
  <2> SUFFICES ASSUME NEW S, NEW T, IsFiniteSet(S), IsFiniteSet(T)
               PROVE  /\ IsFiniteSet(S \cup T)
                      /\ Cardinality(S \cup T) <= Cardinality(S) + Cardinality(T)
    BY ZenonT(40) DEF UnionSized
  <2>1. /\ IsFiniteSet(S \cup T)
        /\ Cardinality(S \cup T) = Cardinality(S) + Cardinality(T) - Cardinality(S \cap T)
    BY ZenonT(40), SameSizes, Sets!FS_Union
  <2>2. /\ Cardinality(S) \in Nat /\ Cardinality(T) \in Nat /\ Cardinality(S \cap T) \in Nat
    BY ZenonT(40), <1>1, SameSizes, Sets!FS_Intersection DEF TypeSized
  <2> QED
    BY <2>1, <2>2
<1>8. ImageSized
  <2> SUFFICES ASSUME NEW S, NEW T, NEW f \in [S -> T], IsFiniteSet(S),
                      \A y \in T : \E x \in S : f[x] = y
               PROVE  IsFiniteSet(T) /\ Cardinality(T) <= Cardinality(S)
    BY ZenonT(40) DEF ImageSized
  <2>1. f \in Sets!Surjection(S, T)
    BY ZenonT(40) DEF Sets!Surjection
  <2> QED
    BY ZenonT(40), <2>1, SameSizes, Sets!FS_Surjection
<1>9. IntoSized
  <2> SUFFICES ASSUME NEW S, NEW T, NEW f \in [S -> T], IsFiniteSet(T),
                      \A x, y \in S : f[x] = f[y] => x = y
               PROVE  IsFiniteSet(S)
    BY ZenonT(40) DEF IntoSized
  <2>1. f \in Sets!Injection(S, T)
    BY DEF Sets!Injection, Sets!IsInjective
  <2> QED
    BY ZenonT(40), <2>1, SameSizes, Sets!FS_Injection
<1> QED
  BY ZenonT(40), <1>1, <1>2, <1>3, <1>4, <1>5, <1>6, <1>7, <1>8, <1>9 DEF SetsSized

\* For any devices, ids and limits, and whatever the order of the calls: the broker's
\* tables and counters agree, and the limits hold, that of the used ids included,
\* which only register checks and which expiry, cancel and abort fill.
THEOREM BrokerIsSound == BrokerSpec => []BrokerInv
<1>1. BrokerInit => SoundBroker(broker) /\ ClockOK
  BY ZenonT(40), SetsAreSized, BrokerBegins
<1>2. SoundBroker(broker) /\ ClockOK /\ [BrokerNext]_brokerVars
        => SoundBroker(broker)' /\ ClockOK'
  BY BrokerStep DEF Kept
<1>3. SoundBroker(broker) /\ ClockOK => BrokerInv
  BY SoundIsInv DEF ClockOK
<1> QED
  BY <1>1, <1>2, <1>3, PTL DEF BrokerSpec

\* ... and an id that is waiting, reserved or protected is never forgotten.
THEOREM BrokerRemembers == BrokerSpec => ReplayProtected
<1>1. BrokerInit => SoundBroker(broker) /\ ClockOK
  BY ZenonT(40), SetsAreSized, BrokerBegins
<1>2. SoundBroker(broker) /\ ClockOK /\ [BrokerNext]_brokerVars
        => SoundBroker(broker)' /\ ClockOK' /\ NotForgotten
  BY BrokerStep, KeptRemembers DEF Kept
<1> QED
  BY <1>1, <1>2, PTL DEF BrokerSpec, ReplayProtected

\* For any devices, attempts, connections and limits: whatever the clients do, whatever
\* is lost, times out or is rolled back, the broker stays sound under the server's
\* chained calls, whenever the loop looks for work its report and the connections it
\* holds are those of the broker's registrations, and a client that returns a match has
\* one that the other side committed to and that the broker confirmed (serve_matches
\* and exchange_registration).
THEOREM ServiceIsSound == ServiceSpec => []ServiceInv
<1>1. ServiceInit => ServiceSound /\ AgreementSound
  BY ZenonT(40), SetsAreSized, ServiceBegins, AgreementBegins
<1>2. ServiceSound /\ AgreementSound /\ [Next]_vars => (ServiceSound /\ AgreementSound)'
  BY ServiceStep, AgreementStep DEF Advanced
<1>3. ServiceSound /\ AgreementSound => ServiceInv
  BY SoundBooks, SoundIsAgreed DEF ServiceInv
<1> QED
  BY <1>1, <1>2, <1>3, PTL DEF ServiceSpec

\* ... and no step of the server, however many calls it makes of the broker, forgets
\* an id that is waiting, reserved or protected.
THEOREM ServiceRemembers == ServiceSpec => ReplayProtected
<1>1. ServiceInit => ServiceSound
  BY ZenonT(40), SetsAreSized, ServiceBegins
<1>2. ServiceSound /\ [Next]_vars => ServiceSound' /\ NotForgotten
  BY ServiceStep, KeptRemembers DEF Advanced
<1> QED
  BY <1>1, <1>2, PTL DEF ServiceSpec, ReplayProtected

=============================================================================
