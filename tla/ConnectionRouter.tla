--------------------------- MODULE ConnectionRouter ---------------------------
(***************************************************************************)
(* The choice between direct paths and the relay (session/src/nat.rs):       *)
(* gathering candidates, pairing them by priority, choosing the first path,  *)
(* moving up to a direct path or down to the relay on check results, and     *)
(* probing the direct pairs in rotation while the relay is in use.           *)
(*                                                                         *)
(* A priority is exact up to the component, a pair's priority is the triple  *)
(* <<min, max, bit>> whose lexicographic order is that of the 64-bit number. *)
(* Round-trip times and the statistics are left out.                         *)
(***************************************************************************)
EXTENDS Integers, Sequences, FiniteSets, SequencesExt

CONSTANTS
  MaxCandidates,   \* MAX_CANDIDATES
  CheckTimeout,    \* direct_check_timeout_ns
  ProbeInterval,   \* probe_interval_ns
  LastTime         \* bound on the clock

VARIABLES
  router,   \* the ConnectionRouter
  clock,    \* the caller's monotonic clock
  passed    \* history: for each pair, the pairs waiting for a probe since its last one

routerVars == <<router, clock, passed>>

None == [kind |-> "none"]

-------------------------------------------------------------------------------
(* Candidates.  An address is <<family, host>>. *)

TypePreference == [host |-> 126, srflx |-> 100, relayed |-> 0]
Priority(kind, preference) == TypePreference[kind] * 65536 + preference

Candidate(kind, address, component, preference) ==
  [kind |-> kind, address |-> address, component |-> component,
   priority |-> Priority(kind, preference)]

\* The positions 1 .. n in the order of a stable sort by descending key.
Descending(n, Above(_, _)) ==
  SortSeq([i \in 1 .. n |-> i],
          LAMBDA i, j : Above(i, j) \/ (~Above(j, i) /\ i < j))

FinishGathering(list) ==
  LET order == Descending(Len(list), LAMBDA i, j : list[i].priority > list[j].priority)
  IN [k \in DOMAIN list |-> list[order[k]]]

\* No candidates stand for an error.
Exchange(local, mapped) ==
  LET host == Candidate("host", local, 1, 65535)
      srflx == Candidate("srflx", mapped, 1, 65535)
  IN IF mapped # <<>> /\ mapped[1] # local[1] THEN <<>>
     ELSE FinishGathering(<<host>> \o (IF mapped \in {<<>>, local} THEN <<>> ELSE <<srflx>>))

Relayed == Candidate("relayed", <<4, "relay">>, 1, 1)

\* The candidates of both sides a caller may set: with and without a relay, with two
\* interfaces of one priority, with another component, and none at all.
Offers ==
  LET peer == Exchange(<<4, "peer">>, <<4, "peer">>)
      own == Exchange(<<4, "own">>, <<4, "mapped">>)
  IN {[local |-> FinishGathering(<<Relayed, Candidate("host", <<4, "second">>, 1, 65535)>> \o own),
       remote |-> peer],
      [local |-> Exchange(<<4, "own">>, <<>>) \o <<Relayed>>,
       remote |-> Exchange(<<4, "peer">>, <<4, "reflexive">>)],
      [local |-> own, remote |-> peer \o <<Candidate("host", <<4, "peer">>, 2, 65535)>>],
      [local |-> own, remote |-> Exchange(<<4, "peer">>, <<6, "peer">>)]}

-------------------------------------------------------------------------------
(* Pairs and paths *)

PairPriority(local, remote, controlling) ==
  LET g == IF controlling THEN local.priority ELSE remote.priority
      d == IF controlling THEN remote.priority ELSE local.priority
  IN IF g > d THEN <<d, g, 1>> ELSE <<g, d, 0>>

HigherPriority(a, b) ==
  \E n \in 1 .. 3 : a[n] > b[n] /\ \A m \in 1 .. n - 1 : a[m] = b[m]

IsDirect(pair) == pair.local.kind # "relayed" /\ pair.remote.kind # "relayed"

NewPairs(local, remote, controlling) ==
  LET crossed == [k \in 1 .. Len(local) * Len(remote) |->
                    <<local[(k - 1) \div Len(remote) + 1], remote[((k - 1) % Len(remote)) + 1]>>]
      fitting == SelectSeq(crossed, LAMBDA c : c[1].component = c[2].component)
      rank(k) == PairPriority(fitting[k][1], fitting[k][2], controlling)
      order == Descending(Len(fitting), LAMBDA i, j : HigherPriority(rank(i), rank(j)))
  IN [k \in DOMAIN fitting |->
        [local |-> fitting[order[k]][1], remote |-> fitting[order[k]][2],
         priority |-> rank(order[k]), state |-> "Waiting"]]

DirectPath(pair) ==
  [kind |-> "direct", local |-> pair.local.address, remote |-> pair.remote.address,
   priority |-> pair.priority]

IsUsingRelay(r) == r.active.kind = "relay"

\* The first direct pair in one of these states, 0 if there is none.
FirstDirect(r, states) ==
  SelectInSeq(r.pairs, LAMBDA p : IsDirect(p) /\ p.state \in states)

-------------------------------------------------------------------------------
(* The operations *)

New(controlling) ==
  [controlling |-> controlling, started |-> -1, lastProbe |-> 0, cursor |-> 1,
   pairs |-> <<>>, active |-> None, fallback |-> None]

WithCandidates(r, offer, session) ==
  [r EXCEPT !.started = -1, !.lastProbe = 0, !.cursor = 1, !.active = None,
            !.pairs = NewPairs(offer.local, offer.remote, r.controlling),
            !.fallback = IF session # 0 /\ \E i \in DOMAIN offer.local : offer.local[i].kind = "relayed"
                         THEN [kind |-> "relay", session |-> session] ELSE None]

\* Faulty: the path chosen among the former candidates stays in use.
SetCandidatesKeepsPath(offer, session) ==
  /\ Len(offer.local) \in 1 .. MaxCandidates /\ Len(offer.remote) \in 1 .. MaxCandidates
  /\ router' = [WithCandidates(router, offer, session) EXCEPT !.active = router.active]
  /\ passed' = [i \in DOMAIN router'.pairs |-> {}]
  /\ UNCHANGED clock

SetCandidates(offer, session) ==
  /\ Len(offer.local) \in 1 .. MaxCandidates /\ Len(offer.remote) \in 1 .. MaxCandidates
  /\ router' = WithCandidates(router, offer, session)
  /\ passed' = [i \in DOMAIN router'.pairs |-> {}]
  /\ UNCHANGED clock

\* The router after select_initial_path and the path it returns (None: NoValidPath).
Selected(r, now) ==
  LET good == FirstDirect(r, {"Succeeded"})
      fresh == FirstDirect(r, {"Waiting"})
      running == FirstDirect(r, {"InProgress"})
      begun == [r EXCEPT !.started = IF @ = -1 THEN now ELSE @]
      inTime == now - begun.started < CheckTimeout
      failed == [begun EXCEPT !.pairs =
                   [i \in DOMAIN r.pairs |->
                      IF IsDirect(r.pairs[i]) /\ r.pairs[i].state = "InProgress"
                      THEN [r.pairs[i] EXCEPT !.state = "Failed"] ELSE r.pairs[i]]]
  IN CASE r.active # None -> [router |-> r, path |-> r.active]
       [] r.active = None /\ good # 0 ->
            [router |-> [r EXCEPT !.active = DirectPath(r.pairs[good])],
             path |-> DirectPath(r.pairs[good])]
       [] r.active = None /\ good = 0 /\ inTime /\ fresh # 0 ->
            [router |-> [begun EXCEPT !.pairs[fresh].state = "InProgress"],
             path |-> DirectPath(r.pairs[fresh])]
       [] r.active = None /\ good = 0 /\ inTime /\ fresh = 0 /\ running # 0 ->
            [router |-> begun, path |-> DirectPath(r.pairs[running])]
       [] OTHER ->
            [router |-> [failed EXCEPT !.active = r.fallback], path |-> r.fallback]

\* The router after record_check_result for an existing pair.
Recorded(r, i, success) ==
  LET known == [r EXCEPT !.pairs[i].state = IF success THEN "Succeeded" ELSE "Failed"]
      upgrade == success /\ IsDirect(r.pairs[i]) /\ IsUsingRelay(r)
      downgrade == /\ ~success /\ r.active.kind = "direct"
                   /\ r.active.priority = r.pairs[i].priority /\ r.fallback # None
  IN [known EXCEPT !.active = IF upgrade THEN DirectPath(r.pairs[i])
                              ELSE IF downgrade THEN r.fallback ELSE @]

Eligible(pair) == IsDirect(pair) /\ pair.state \notin {"Succeeded", "InProgress"}

\* Faulty: the search for a pair to probe begins with the highest priority.
NextProbeFromFirst(r) == SelectInSeq(r.pairs, Eligible)

\* The pair to probe next, counted from the cursor and around; 0 if there is none.
NextProbe(r) ==
  LET count == Len(r.pairs)
      at(offset) == ((r.cursor - 1 + offset) % count) + 1
      offsets == {o \in 0 .. count - 1 : Eligible(r.pairs[at(o)])}
  IN IF offsets = {} THEN 0 ELSE at(Min(offsets))

\* A pair is passed over while it stays eligible and another one is probed.
StillWaiting(pairs) ==
  [i \in DOMAIN pairs |-> {j \in passed[i] : Eligible(pairs[j])}]

SelectInitialPath ==
  /\ router' = Selected(router, clock).router
  /\ passed' = StillWaiting(router'.pairs)
  /\ UNCHANGED clock

RecordCheckResult(i, success) ==
  /\ router' = Recorded(router, i, success)
  /\ passed' = StillWaiting(router'.pairs)
  /\ UNCHANGED clock

TickBackgroundProbing ==
  LET i == NextProbe(router)
  IN /\ IsUsingRelay(router)
     /\ clock - router.lastProbe >= ProbeInterval
     /\ i # 0
     /\ router' = [router EXCEPT !.pairs[i].state = "InProgress", !.lastProbe = clock,
                                 !.cursor = (i % Len(router.pairs)) + 1]
     /\ passed' = [StillWaiting(router'.pairs) EXCEPT
                     ![i] = {j \in DOMAIN router'.pairs : Eligible(router'.pairs[j])}]
     /\ UNCHANGED clock

PassTime == clock < LastTime /\ clock' = clock + 1 /\ UNCHANGED <<router, passed>>

RouterInit ==
  /\ router \in {New(c) : c \in BOOLEAN}
  /\ clock = 0
  /\ passed = <<>>

RouterNext ==
  \/ \E offer \in Offers, session \in {0, 1} : SetCandidates(offer, session)
  \/ SelectInitialPath
  \/ \E i \in DOMAIN router.pairs, success \in BOOLEAN : RecordCheckResult(i, success)
  \/ TickBackgroundProbing
  \/ PassTime

RouterSpec == RouterInit /\ [][RouterNext]_routerVars

-------------------------------------------------------------------------------
\* Once new candidates are set no path of the old ones is in use: the active path is
\* the relay of this generation or a pair of it.  A direct path whose check has failed
\* stays only where there is no relay to go to (set_candidates, record_check_result).
ActiveIsCurrent ==
  /\ IsUsingRelay(router) => router.active = router.fallback
  /\ router.active.kind = "direct" =>
       \E i \in DOMAIN router.pairs :
         /\ DirectPath(router.pairs[i]) = router.active
         /\ router.pairs[i].state = "Succeeded" \/ router.fallback = None

\* Whenever the path is asked for, a session with a relay gets one, and the direct path
\* returned is not one whose check has failed, unless it is the path already in use
\* ("rather than accidentally resurrecting a failed higher-priority pair").
AnswerUsable ==
  LET answer == Selected(router, clock)
  IN /\ router.fallback # None => answer.path # None
     /\ answer.path.kind = "direct" =>
          \/ answer.path = router.active
          \/ \E i \in DOMAIN router.pairs :
               /\ DirectPath(router.pairs[i]) = answer.path
               /\ answer.router.pairs[i].state \in {"InProgress", "Succeeded"}

\* A pair that is probed again has left no other pair waiting since its last probe:
\* one failing pair of high priority cannot starve the others (tick_background_probing).
RotationFair ==
  LET i == NextProbe(router)
  IN i # 0 => passed[i] = {}

RouterSound == ActiveIsCurrent /\ AnswerUsable /\ RotationFair
===============================================================================
