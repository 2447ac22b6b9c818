------------------------------- MODULE MCRoutes -------------------------------
(***************************************************************************)
(* Moving the application to another route: one peer's transition            *)
(* controller; the two peers' route sets with every fault and with input on  *)
(* the way; the route sets again, with applications that start or answer a   *)
(* transition before they have confirmed the last one; and one peer's choice *)
(* between direct paths and the relay.                                       *)
(***************************************************************************)
EXTENDS RouteTransition, Sequences, TLC

CONSTANTS direct, relay, wildcard, digest1, digest2, server, client

VARIABLES part,   \* "controller", "set", "again", "overlap" or "router"
  session, set, armed, firing, expired, stream, input, router, clock, passed

setVars == <<session, set, armed, firing, expired, stream, input>>
routerVars == <<router, clock, passed>>

TwoPaths == {direct, relay}
OneInvalid == {wildcard}
TwoDigests == {digest1, digest2}
BothEnds == {server, client}

W == INSTANCE RouteSet WITH
       Peers <- BothEnds, Initiators <- BothEnds, OneAtATime <- TRUE, MaxEpoch <- 2,
       Faults <- {"loss", "cancel", "expiry", "input"}

A == INSTANCE RouteSet WITH
       Peers <- BothEnds, Initiators <- BothEnds, OneAtATime <- TRUE, MaxEpoch <- 3,
       Faults <- {"loss", "cancel", "expiry"}

V == INSTANCE RouteSet WITH
       Peers <- BothEnds, Initiators <- BothEnds, OneAtATime <- FALSE, MaxEpoch <- 3,
       Faults <- {"expiry", "input"}

R == INSTANCE ConnectionRouter WITH
       MaxCandidates <- 3, CheckTimeout <- 2, ProbeInterval <- 1, LastTime <- 3

RoutesInit ==
  /\ part \in {"controller", "set", "again", "overlap", "router"}
  /\ Init
  /\ W!Init
  /\ R!RouterInit
  /\ part # "router" => router.controlling
  /\ part # "controller" => active = direct /\ digest = digest1

RoutesNext ==
  /\ UNCHANGED part
  /\ \/ part = "controller" /\ Next /\ UNCHANGED <<setVars, routerVars>>
     \/ part = "set" /\ W!Next /\ UNCHANGED <<vars, routerVars>>
     \/ part = "again" /\ A!Next /\ UNCHANGED <<vars, routerVars>>
     \/ part = "overlap" /\ V!Next /\ UNCHANGED <<vars, routerVars>>
     \/ part = "router" /\ R!RouterNext /\ UNCHANGED <<vars, setVars>>

RoutesSpec == RoutesInit /\ [][RoutesNext]_<<part, vars, setVars, routerVars>>

RoutesSymmetry == Permutations(BothEnds)

-------------------------------------------------------------------------------
\* In the controller a route epoch names one route for ever, the pending token is the
\* newest one and belongs to the current epoch, and the active route was verified for
\* the very connection in use (begin, peer_prepared, commit, settle_committed).  In the
\* route sets, at every point of a promotion or rollback, a peer has authority on its
\* active route only, the peers are at most one epoch apart, two that serve outside the
\* activation barrier serve on the same route, and an unfinished transition is timed
\* unless it was started before the last one was confirmed (ProductRouteSet).  The
\* router uses a path of its current candidates, gives up a failed one where there is a
\* relay, and probes the direct pairs in fair rotation (ConnectionRouter).
OneAuthority ==
  /\ part = "controller" => TransitionInv
  /\ part \in {"set", "again", "overlap"} =>
       A!RouteTypeOK /\ A!OneAuthority /\ A!EpochsTogether /\ A!ServeTogether
  /\ part \in {"set", "again"} => A!TransitionTimed
  /\ part = "router" => R!RouterSound

\* Input sent before a promotion is never applied after it, and authority is gained
\* only by activating another route in a newer epoch (next_input,
\* activate_prepared_route).
InputFenced == [][W!InputOfThisEpoch /\ W!GainedByActivation]_setVars

\* Once the timer has revoked both routes none of them has authority again
\* (arm_transition_timeout).
ExpiryRevokes == W!ExpiryRevokes
===============================================================================
