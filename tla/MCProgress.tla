------------------------------ MODULE MCProgress ------------------------------
(***************************************************************************)
(* What must eventually happen, under the fairness the programs give: in     *)
(* the congestion controller, the rendezvous server, the route sets and the  *)
(* secure sessions.                                                          *)
(***************************************************************************)
EXTENDS CongestionController, Sequences, FiniteSets

VARIABLES part,
  broker, clock, peers, open, inbox, acks, server, waiting, watchers, report, outcome,
  session, set, armed, firing, expired, stream, input,
  host, client, conns, restarts

brokerVars == <<broker, peers, open, inbox, acks, server, waiting, watchers, report, outcome>>
setVars == <<session, set, armed, firing, expired, stream, input>>
secureVars == <<host, client, conns, restarts>>

-------------------------------------------------------------------------------
(* Samples at the thresholds, three units above one of them, four units, and  *)
(* one with a heavy loss.                                                     *)

SampleOf(r, l, j) == [rtt |-> r, loss |-> l, jitter |-> j]
MCSamples == {SampleOf(4, 1, 1), SampleOf(11, 8, 0), SampleOf(12, 0, 0), SampleOf(3, 12, 0)}

(* A reciprocal pair of registrations.                                        *)

Attempt(d, i, p, r, t) ==
  [device |-> d,
   reg |-> [id |-> i, peer |-> p, role |-> r, generation |-> 1, ttl |-> t]]

FewAttempts ==
  {Attempt("a", "m", "b", "Initiator", 1), Attempt("b", "m", "a", "Responder", 2)}

B == INSTANCE RendezvousService WITH
       now <- clock, client <- peers, Devices <- {"a", "b"}, Matches <- {"m"},
       Generations <- {1}, Ttls <- {1, 2}, MaxTtl <- 2, MaxPending <- 2,
       MaxPendingPerDevice <- 2, MaxRegistrations <- 2, MaxMatches <- 1, MaxTime <- 2,
       MaxRejections <- 2, Conns <- {1, 2}, Attempts <- FewAttempts

Ends == {"host", "client"}

\* Route sets that meet every fault, and route sets that meet none.
F == INSTANCE RouteSet WITH
       Peers <- Ends, Initiators <- Ends, OneAtATime <- TRUE, MaxEpoch <- 2,
       Faults <- {"loss", "cancel", "expiry"}
G == INSTANCE RouteSet WITH
       Peers <- Ends, Initiators <- {"host"}, OneAtATime <- TRUE, MaxEpoch <- 3, Faults <- {}

S == INSTANCE SecureSessions WITH
       Ids <- {1}, MaxSessions <- 2, SessionCount <- 2, MaxReconnects <- 1, Budget <- 3,
       MaxRestarts <- 0, Faults <- {"loss", "limit"}

Parts == {"congestion", "rendezvous", "faulty", "driven", "secure"}

ProgressInit ==
  /\ part \in Parts
  /\ Init /\ B!ServiceInit /\ F!Init /\ S!Init

-------------------------------------------------------------------------------
CongestionStep ==
  /\ part = "congestion" /\ Next
  /\ UNCHANGED <<clock, brokerVars, setVars, secureVars>>

BrokerStep ==
  /\ part = "rendezvous" /\ B!Next
  /\ UNCHANGED <<vars, setVars, secureVars>>

SetStep ==
  /\ \/ part = "faulty" /\ F!Next
     \/ part = "driven" /\ G!Next
  /\ UNCHANGED <<clock, vars, brokerVars, secureVars>>

SecureStep ==
  /\ part = "secure" /\ S!Next
  /\ UNCHANGED <<clock, vars, brokerVars, setVars>>

ProgressNext ==
  /\ UNCHANGED part
  /\ CongestionStep \/ BrokerStep \/ SetStep \/ SecureStep

\* What is said of the rates is said while feedback keeps arriving.
CongestionFairness == WF_vars(part = "congestion" /\ Feedback)

\* The clock advances, and the server's task runs: each of its awaits is bounded
\* by a timeout, and the sleep of its select is always polled.
BrokerFairness ==
  /\ WF_<<clock, brokerVars>>(part = "rendezvous" /\ B!ServiceTick)
  /\ WF_brokerVars(part = "rendezvous" /\ B!Exchange)
  /\ WF_brokerVars(part = "rendezvous" /\ B!ServiceTimeout)

\* With faults: the timer task runs, and a step that waits for nothing is taken.
\* Without: both applications run the protocol.
SetFairness ==
  \A p \in Ends :
    /\ WF_setVars(part = "faulty" /\ F!Timer(p))
    /\ WF_setVars(part = "faulty" /\ F!Unhindered(p))
    /\ WF_setVars(part = "driven" /\ G!Initiate(p))
    /\ WF_setVars(part = "driven" /\ G!Respond(p))

\* Every task of the two programs that can go on does, and the transport's timers
\* run out.  Nothing says that the media loop sends rather than reads the status
\* first, so each of its ways to end is fair by itself.
SecureFairness ==
  /\ WF_secureVars(part = "secure" /\ S!Notices)
  /\ WF_secureVars(part = "secure" /\ S!ListenerStep)
  /\ WF_secureVars(part = "secure" /\ S!ClientStep)
  /\ WF_secureVars(part = "secure" /\ S!StreamStatus)
  /\ WF_secureVars(part = "secure" /\ S!StreamBroken)
  /\ WF_secureVars(part = "secure" /\ \E ok \in BOOLEAN : S!WorkerOpens(ok) \/ S!WorkerReleases(ok))
  /\ WF_secureVars(part = "secure" /\ (S!WorkerAcks \/ S!WorkerStops))

ProgressSpec ==
  /\ ProgressInit
  /\ [][ProgressNext]_<<part, clock, vars, brokerVars, setVars, secureVars>>
  /\ CongestionFairness /\ BrokerFairness /\ SetFairness /\ SecureFairness

-------------------------------------------------------------------------------
\* Once the samples settle at the thresholds or below them the targets climb to
\* their maxima, and once they settle four units or more above a threshold the
\* bitrate falls to its floor; up to three units above, the integer smoothing never
\* feels them (on_sample).
RateConverges ==
  /\ part = "congestion" => Recovers /\ BacksOff
  /\ [][part = "congestion" => SlightlyAbove]_vars

\* serve_matches returns, by the deadlines of what it waits for, whatever the
\* clients do or leave undone.
DeadlinesEnd == part = "rendezvous" => B!ServiceEnds

\* Every route transition ends, confirmed or with the peer closed, whatever is lost
\* or cancelled on the way; and with no fault it ends with both peers serving the
\* next epoch (ProductRouteSet; the first is said of one of two peers that are alike).
\* The secure Host and the Client both end: no session, cleanup or retry waits for
\* ever (serve_sessions, run_session_sequence).
SessionsEnd ==
  /\ part = "faulty" => F!TransitionEnds("host")
  /\ part = "driven" => G!PromotionCompletes
  /\ part = "secure" => S!BothEnd
===============================================================================
