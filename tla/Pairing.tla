------------------------------- MODULE Pairing -------------------------------
(***************************************************************************)
(* PairingCoordinator (crates/session/src/pairing.rs): non-resumable        *)
(* pairing attempts that share the platform's store of peer pins.  The      *)
(* store is a trait; it is modelled as the coordinator uses it: any call    *)
(* may fail, and a failing write may or may not have taken effect.          *)
(*                                                                         *)
(* A short authentication string is the digest of the evidence: a code      *)
(* drawn when the attempt begins.  Two attempts may draw the same code.     *)
(***************************************************************************)
EXTENDS Integers

CONSTANTS
  Attempts, Aliases, Peers, Codes,
  MaxAttempts,   \* DEFAULT_MAX_SAS_ATTEMPTS
  MaxTtl,        \* MAX_PAIRING_TTL_NS
  LastTime,      \* bound on the clock
  NoPin

VARIABLES
  attempt,   \* per coordinator: state and, from begin on, the pending pairing
  pins,      \* the store
  now,
  wrong      \* history: mismatching codes presented while pending

vars == <<attempt, pins, now, wrong>>

States == {"Pending", "Accepted", "Closed"}
Pendings == [state : States, alias : Aliases, peer : Peers, code : Codes,
             expires : 0 .. LastTime + MaxTtl + 1, local : BOOLEAN, acknowledged : BOOLEAN,
             remaining : 0 .. MaxAttempts]

Unused == [state |-> "Idle"]

Init ==
  /\ attempt = [a \in Attempts |-> Unused]
  /\ pins = [x \in Aliases |-> NoPin]
  /\ now = 0
  /\ wrong = [a \in Attempts |-> 0]

Closed(p) == [p EXCEPT !.state = "Closed"]

\* What begin does with the pin the store returns for the alias.
Decided(p, pin) ==
  IF pin = NoPin THEN p
  ELSE IF pin = p.peer THEN [p EXCEPT !.state = "Accepted"]
  ELSE Closed(p)

\* The pairing begin builds, or refuses.
Started(alias, peer, code, expires, valid, stored) ==
  LET p == [state |-> "Pending", alias |-> alias, peer |-> peer, code |-> code,
            expires |-> expires, local |-> FALSE, acknowledged |-> FALSE,
            remaining |-> MaxAttempts]
  IN  IF valid /\ stored /\ expires > now /\ expires - now <= MaxTtl
      THEN Decided(p, pins[alias]) ELSE Closed(p)

\* begin.  `valid` is the outcome of the checks on the evidence that do not
\* depend on the time; `stored` says whether the store could be read.
Begin(a, alias, peer, code, expires, valid, stored) ==
  /\ attempt[a].state = "Idle"
  /\ attempt' = [attempt EXCEPT ![a] = Started(alias, peer, code, expires, valid, stored)]
  /\ UNCHANGED <<pins, now, wrong>>

\* Faulty: either confirmation is enough.
CompleteEither(p) == p.local \/ p.acknowledged

Complete(p) == p.local /\ p.acknowledged

\* The second half of progress_or_accept: pin the peer, then accept.
Accept(a, p, stores, fails) ==
  /\ attempt' = [attempt EXCEPT ![a] = IF fails THEN Closed(p) ELSE [p EXCEPT !.state = "Accepted"]]
  /\ pins' = IF stores THEN [pins EXCEPT ![p.alias] = p.peer] ELSE pins

\* progress_or_accept on the pending pairing p
Progress(a, p, stores, fails) ==
  IF Complete(p) THEN Accept(a, p, stores, fails)
  ELSE attempt' = [attempt EXCEPT ![a] = p] /\ UNCHANGED pins

Expired(p) == p.expires <= now

\* pending_mut closes a pairing that is found expired.
Expire(a) ==
  /\ attempt' = [attempt EXCEPT ![a] = Closed(attempt[a])]
  /\ UNCHANGED pins

\* A store write that does not fail has taken effect.
Outcome(stores, fails) == stores \/ fails

ConfirmLocal(a, stores, fails) ==
  /\ attempt[a].state = "Pending"
  /\ Outcome(stores, fails)
  /\ IF Expired(attempt[a]) THEN Expire(a)
     ELSE Progress(a, [attempt[a] EXCEPT !.local = TRUE], stores, fails)
  /\ UNCHANGED <<now, wrong>>

\* Faulty: the last mismatch does not close the pairing.
MismatchedOpen(p) == [p EXCEPT !.remaining = IF @ = 0 THEN 0 ELSE @ - 1]

\* A mismatching code costs an attempt; the last one closes the pairing.
Mismatched(p) ==
  LET q == [p EXCEPT !.remaining = IF @ = 0 THEN 0 ELSE @ - 1]
  IN  IF q.remaining = 0 THEN Closed(q) ELSE q

ConfirmPeer(a, code, stores, fails) ==
  LET p == attempt[a] IN
  /\ p.state = "Pending"
  /\ Outcome(stores, fails)
  /\ IF Expired(p) THEN Expire(a) /\ UNCHANGED wrong
     ELSE IF code = p.code
     THEN Progress(a, [p EXCEPT !.acknowledged = TRUE], stores, fails) /\ UNCHANGED wrong
     ELSE /\ attempt' = [attempt EXCEPT ![a] = Mismatched(p)]
          /\ wrong' = [wrong EXCEPT ![a] = @ + 1]
          /\ UNCHANGED pins
  /\ UNCHANGED now

Tick == now < LastTime /\ now' = now + 1 /\ UNCHANGED <<attempt, pins, wrong>>

Next ==
  \/ \E a \in Attempts :
       \/ \E alias \in Aliases, peer \in Peers, code \in Codes,
             expires \in 0 .. LastTime + MaxTtl + 1, valid, stored \in BOOLEAN :
            Begin(a, alias, peer, code, expires, valid, stored)
       \/ \E stores, fails \in BOOLEAN : ConfirmLocal(a, stores, fails)
       \/ \E code \in Codes, stores, fails \in BOOLEAN : ConfirmPeer(a, code, stores, fails)
  \/ Tick

Spec == Init /\ [][Next]_vars

-----------------------------------------------------------------------------
PairingTypeOK ==
  /\ attempt \in [Attempts -> Pendings \cup {Unused}]
  /\ pins \in [Aliases -> Peers \cup {NoPin}]
  /\ now \in 0 .. LastTime
  /\ wrong \in [Attempts -> 0 .. MaxAttempts]

\* At most MaxAttempts codes are tried against one attempt, however they
\* interleave with right ones and with the local approval, and the last wrong
\* one closes it (confirm_peer).
GuessesBounded ==
  \A a \in Attempts :
    attempt[a].state = "Pending" => wrong[a] + attempt[a].remaining = MaxAttempts
                                    /\ attempt[a].remaining > 0

\* A session is accepted in a step that finds the peer pinned for the alias, or
\* that pins it after both confirmations and in time (begin, progress_or_accept).
EarnedSession(a) ==
  LET p == attempt'[a] IN
  (attempt[a].state # "Accepted" /\ p.state = "Accepted") =>
    /\ pins'[p.alias] = p.peer
    /\ p.expires > now
    /\ pins[p.alias] = p.peer \/ (p.local /\ p.acknowledged /\ attempt[a].state = "Pending")

\* A pin is written only by an attempt for that alias and peer to which both
\* sides agreed, and which is over with that step (progress_or_accept).
PinByConsent(x) ==
  pins'[x] # pins[x] =>
    \E a \in Attempts :
      /\ attempt[a].state = "Pending" /\ attempt'[a].state \in {"Accepted", "Closed"}
      /\ attempt'[a].alias = x /\ attempt'[a].peer = pins'[x]
      /\ attempt'[a].local /\ attempt'[a].acknowledged

\* The attempt is not resumable: accepted or closed, it stays as it is.
Final(a) == attempt[a].state \in {"Accepted", "Closed"} => attempt'[a] = attempt[a]
=============================================================================
