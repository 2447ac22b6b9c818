----------------------------- MODULE AccessProofs -----------------------------
(***************************************************************************)
(* Proofs about who may use the Host, and for how long, for any sets of    *)
(* devices, attempts, codes and tokens and any bounds.  The lemmas about   *)
(* the steps of each part come first, the theorems last.                   *)
(***************************************************************************)
EXTENDS MCAccess, TLAPS

USE SMTT(40)

-------------------------------------------------------------------------------
(* The access policy.  IInv is inductive. *)

\* A policy with its pins and nothing under way satisfies the invariant.
LEMMA InitIInv == Init => IInv
BY BoundsAssumption DEF Present, None, Idle, Pairings, Connections, Requests, Grants, Init, IInv, TypeOK, GrantNamesConnection, PairingExcludesSession,
   ApprovalCanPin, EpochsIssued, GrantIsFirst, OneGrantPerEpoch

\* Every step keeps the types.
LEMMA StepTypeOK == IInv /\ [Next]_vars => TypeOK'
<1> SUFFICES ASSUME IInv, [Next]_vars PROVE TypeOK'
  OBVIOUS
<1> USE DEF Present, None, Idle, Pairings, Connections, Requests, Grants, CapabilitySets,
            PairingLapsed, PairingNow, SessionLapsed, SessionNow, ConnectionNow, PendingNow
<1> USE BoundsAssumption DEF IInv, TypeOK
<1>1. CASE Tick
  BY <1>1 DEF Tick
<1>2. CASE ExpirePairing
  BY <1>2 DEF ExpirePairing
<1>3. CASE ActiveGrant
  BY <1>3 DEF ActiveGrant, ExpireActive
<1>4. ASSUME NEW d \in Devices, NEW ttl \in 0..(MaxPairingTtl + 1), NEW rng \in BOOLEAN,
             BeginPairing(d, ttl, rng)
      PROVE  TypeOK'
  BY <1>4 DEF BeginPairing, CanBeginPairing, ExpireActive
<1>5. ASSUME NEW proof \in Handles, NEW rng \in BOOLEAN, ConfirmPairing(proof, rng)
      PROVE  TypeOK'
  BY <1>5 DEF ConfirmPairing
<1>6. ASSUME NEW handle \in Handles, ApprovePairing(handle) PROVE TypeOK'
  BY <1>6 DEF ApprovePairing, Pin
<1>7. ASSUME NEW handle \in Handles, RejectPairing(handle) PROVE TypeOK'
  BY <1>7 DEF RejectPairing
<1>8. ASSUME NEW handle \in Handles, CancelPairing(handle) PROVE TypeOK'
  BY <1>8 DEF CancelPairing
<1>9. ASSUME NEW d \in Devices, NEW rng \in BOOLEAN, RegisterConnection(d, rng)
      PROVE  TypeOK'
  BY <1>9 DEF RegisterConnection, ExpireActive, EpochAfter, EpochAvailable
<1>10. ASSUME NEW context \in 1..MaxEpoch, CloseConnection(context) PROVE TypeOK'
  BY <1>10 DEF CloseConnection
<1>11. ASSUME NEW context \in 1..MaxEpoch, NEW caps \in CapabilitySets, NEW rng \in BOOLEAN,
              RequestSession(context, caps, rng)
       PROVE  TypeOK'
  BY <1>11 DEF RequestSession
<1>12. ASSUME NEW handle \in Handles, NEW caps \in CapabilitySets,
              NEW ttl \in 0..(MaxSessionTtl + 1), ApproveSession(handle, caps, ttl)
       PROVE  TypeOK'
  BY <1>12 DEF ApproveSession, Grant, RequestCurrent, WithinRequest
<1>13. ASSUME NEW handle \in Handles, RejectSession(handle) PROVE TypeOK'
  BY <1>13 DEF RejectSession
<1>14. CASE RevokeActive
  BY <1>14 DEF RevokeActive
<1>15. ASSUME NEW d \in Devices, RevokeDevice(d) PROVE TypeOK'
  BY <1>15 DEF RevokeDevice, Without, SessionWithout
<1>16. CASE UNCHANGED vars
  BY <1>16 DEF vars
<1> QED
  BY ZenonT(40), <1>1, <1>2, <1>3, <1>4, <1>5, <1>6, <1>7, <1>8, <1>9, <1>10, <1>11, <1>12, <1>13,
     <1>14, <1>15, <1>16 DEF Next

\* Every step keeps request, grant and connection together, and pairing apart from them.
LEMMA StepConsistent == IInv /\ [Next]_vars => (GrantNamesConnection /\ PairingExcludesSession)'
<1> SUFFICES ASSUME IInv, [Next]_vars PROVE (GrantNamesConnection /\ PairingExcludesSession)'
  OBVIOUS
<1> USE DEF Present, None, Idle, Pairings, Connections, Requests, Grants, CapabilitySets,
            PairingLapsed, PairingNow, SessionLapsed, SessionNow, ConnectionNow, PendingNow
<1> USE DEF IInv, TypeOK, GrantNamesConnection, PairingExcludesSession
<1>1. CASE Tick
  BY <1>1 DEF Tick
<1>2. CASE ExpirePairing
  BY <1>2 DEF ExpirePairing
<1>3. CASE ActiveGrant
  BY <1>3 DEF ActiveGrant, ExpireActive
<1>4. ASSUME NEW d \in Devices, NEW ttl \in 0..(MaxPairingTtl + 1), NEW rng \in BOOLEAN,
             BeginPairing(d, ttl, rng)
      PROVE  (GrantNamesConnection /\ PairingExcludesSession)'
  BY <1>4 DEF BeginPairing, CanBeginPairing, ExpireActive
<1>5. ASSUME NEW proof \in Handles, NEW rng \in BOOLEAN,
             ConfirmPairing(proof, rng)
      PROVE  (GrantNamesConnection /\ PairingExcludesSession)'
  BY <1>5 DEF ConfirmPairing
<1>6. ASSUME NEW handle \in Handles,
             ApprovePairing(handle)
      PROVE  (GrantNamesConnection /\ PairingExcludesSession)'
  BY <1>6 DEF ApprovePairing, Pin
<1>7. ASSUME NEW handle \in Handles,
             RejectPairing(handle)
      PROVE  (GrantNamesConnection /\ PairingExcludesSession)'
  BY <1>7 DEF RejectPairing
<1>8. ASSUME NEW handle \in Handles,
             CancelPairing(handle)
      PROVE  (GrantNamesConnection /\ PairingExcludesSession)'
  BY <1>8 DEF CancelPairing
<1>9. ASSUME NEW d \in Devices, NEW rng \in BOOLEAN,
             RegisterConnection(d, rng)
      PROVE  (GrantNamesConnection /\ PairingExcludesSession)'
  BY <1>9 DEF RegisterConnection, ExpireActive, EpochAfter, EpochAvailable
<1>10. ASSUME NEW context \in 1..MaxEpoch,
             CloseConnection(context)
      PROVE  (GrantNamesConnection /\ PairingExcludesSession)'
  BY <1>10 DEF CloseConnection
<1>11. ASSUME NEW context \in 1..MaxEpoch, NEW caps \in CapabilitySets, NEW rng \in BOOLEAN,
             RequestSession(context, caps, rng)
      PROVE  (GrantNamesConnection /\ PairingExcludesSession)'
  BY <1>11 DEF RequestSession
<1>12. ASSUME NEW handle \in Handles, NEW caps \in CapabilitySets,
              NEW ttl \in 0..(MaxSessionTtl + 1),
             ApproveSession(handle, caps, ttl)
      PROVE  (GrantNamesConnection /\ PairingExcludesSession)'
  BY <1>12 DEF ApproveSession, Grant, RequestCurrent, WithinRequest
<1>13. ASSUME NEW handle \in Handles,
             RejectSession(handle)
      PROVE  (GrantNamesConnection /\ PairingExcludesSession)'
  BY <1>13 DEF RejectSession
<1>14. CASE RevokeActive
  BY <1>14 DEF RevokeActive
<1>15. ASSUME NEW d \in Devices,
             RevokeDevice(d)
      PROVE  (GrantNamesConnection /\ PairingExcludesSession)'
  BY <1>15 DEF RevokeDevice, Without, SessionWithout
<1>16. CASE UNCHANGED vars
  BY <1>16 DEF vars
<1> QED
  BY ZenonT(40), <1>1, <1>2, <1>3, <1>4, <1>5, <1>6, <1>7, <1>8, <1>9, <1>10, <1>11, <1>12, <1>13,
     <1>14, <1>15, <1>16 DEF Next

\* Every step keeps epochs fresh and grants unique.
LEMMA StepFresh == IInv /\ [Next]_vars => (EpochsIssued /\ GrantIsFirst /\ OneGrantPerEpoch)'
<1> SUFFICES ASSUME IInv, [Next]_vars PROVE (EpochsIssued /\ GrantIsFirst /\ OneGrantPerEpoch)'
  OBVIOUS
<1> USE DEF Present, None, Idle, Pairings, Connections, Requests, Grants, CapabilitySets,
            PairingLapsed, PairingNow, SessionLapsed, SessionNow, ConnectionNow, PendingNow
<1> USE BoundsAssumption DEF IInv, TypeOK, GrantNamesConnection, EpochsIssued, GrantIsFirst, OneGrantPerEpoch
<1>1. CASE Tick
  BY <1>1 DEF Tick
<1>2. CASE ExpirePairing
  BY <1>2 DEF ExpirePairing
<1>3. CASE ActiveGrant
  BY <1>3 DEF ActiveGrant, ExpireActive
<1>4. ASSUME NEW d \in Devices, NEW ttl \in 0..(MaxPairingTtl + 1), NEW rng \in BOOLEAN,
             BeginPairing(d, ttl, rng)
      PROVE  (EpochsIssued /\ GrantIsFirst /\ OneGrantPerEpoch)'
  BY <1>4 DEF BeginPairing, CanBeginPairing, ExpireActive
<1>5. ASSUME NEW proof \in Handles, NEW rng \in BOOLEAN,
             ConfirmPairing(proof, rng)
      PROVE  (EpochsIssued /\ GrantIsFirst /\ OneGrantPerEpoch)'
  BY <1>5 DEF ConfirmPairing
<1>6. ASSUME NEW handle \in Handles,
             ApprovePairing(handle)
      PROVE  (EpochsIssued /\ GrantIsFirst /\ OneGrantPerEpoch)'
  BY <1>6 DEF ApprovePairing, Pin
<1>7. ASSUME NEW handle \in Handles,
             RejectPairing(handle)
      PROVE  (EpochsIssued /\ GrantIsFirst /\ OneGrantPerEpoch)'
  BY <1>7 DEF RejectPairing
<1>8. ASSUME NEW handle \in Handles,
             CancelPairing(handle)
      PROVE  (EpochsIssued /\ GrantIsFirst /\ OneGrantPerEpoch)'
  BY <1>8 DEF CancelPairing
<1>9. ASSUME NEW d \in Devices, NEW rng \in BOOLEAN,
             RegisterConnection(d, rng)
      PROVE  (EpochsIssued /\ GrantIsFirst /\ OneGrantPerEpoch)'
  BY <1>9 DEF RegisterConnection, ExpireActive, EpochAfter, EpochAvailable
<1>10. ASSUME NEW context \in 1..MaxEpoch,
             CloseConnection(context)
      PROVE  (EpochsIssued /\ GrantIsFirst /\ OneGrantPerEpoch)'
  BY <1>10 DEF CloseConnection
<1>11. ASSUME NEW context \in 1..MaxEpoch, NEW caps \in CapabilitySets, NEW rng \in BOOLEAN,
             RequestSession(context, caps, rng)
      PROVE  (EpochsIssued /\ GrantIsFirst /\ OneGrantPerEpoch)'
  BY <1>11 DEF RequestSession
<1>12. ASSUME NEW handle \in Handles, NEW caps \in CapabilitySets,
              NEW ttl \in 0..(MaxSessionTtl + 1),
             ApproveSession(handle, caps, ttl)
      PROVE  (EpochsIssued /\ GrantIsFirst /\ OneGrantPerEpoch)'
  BY <1>12 DEF ApproveSession, Grant, RequestCurrent, WithinRequest
<1>13. ASSUME NEW handle \in Handles,
             RejectSession(handle)
      PROVE  (EpochsIssued /\ GrantIsFirst /\ OneGrantPerEpoch)'
  BY <1>13 DEF RejectSession
<1>14. CASE RevokeActive
  BY <1>14 DEF RevokeActive
<1>15. ASSUME NEW d \in Devices,
             RevokeDevice(d)
      PROVE  (EpochsIssued /\ GrantIsFirst /\ OneGrantPerEpoch)'
  BY <1>15 DEF RevokeDevice, Without, SessionWithout
<1>16. CASE UNCHANGED vars
  BY <1>16 DEF vars
<1> HIDE DEF IInv, TypeOK, GrantNamesConnection, EpochsIssued, GrantIsFirst, OneGrantPerEpoch
<1> QED
  BY <1>1, <1>2, <1>3, <1>4, <1>5, <1>6, <1>7, <1>8, <1>9, <1>10, <1>11, <1>12, <1>13,
     <1>14, <1>15, <1>16 DEF Next

\* Only approve_pairing pins a device, within the lifetime of its own pairing.
LEMMA StepApproves == IInv /\ [Next]_vars => PinIsApproved
<1> SUFFICES ASSUME IInv, [Next]_vars, NEW d \in pinned', d \notin pinned
             PROVE  /\ pairing.phase = "AwaitingHostApproval"
                    /\ pairing.device = d
                    /\ now < pairing.expires
  BY DEF PinIsApproved
<1> USE DEF Present, None, Idle, Pairings, Connections, Requests, Grants, CapabilitySets,
            PairingLapsed, PairingNow, SessionLapsed, SessionNow, ConnectionNow, PendingNow
<1>1. PICK handle \in Handles : ApprovePairing(handle)
  BY ZenonT(40) DEF Next, Tick, ExpirePairing, ActiveGrant, ExpireActive, BeginPairing, ConfirmPairing,
         RejectPairing, CancelPairing, RegisterConnection, CloseConnection,
         RequestSession, ApproveSession, RejectSession, RevokeActive, RevokeDevice, vars
<1> QED
  BY <1>1 DEF ApprovePairing, ApprovalTimely, Pin, IInv, TypeOK

\* Pins are counted by a natural, and taking one away leaves one less: a law of finite sets
\* that PinsAreCounted, below, takes from the library.
PinsCounted ==
  \A S \in SUBSET Devices :
    Cardinality(S) \in Nat /\ \A d \in S : Cardinality(S \ {d}) = Cardinality(S) - 1

\* Every step keeps the checks of begin_pairing true until the approval.
LEMMA StepCanPin == PinsCounted /\ IInv /\ [Next]_vars => ApprovalCanPin'
<1> SUFFICES ASSUME PinsCounted, IInv, [Next]_vars PROVE ApprovalCanPin'
  OBVIOUS
<1>0. /\ Cardinality(pinned) \in Nat
      /\ \A d \in pinned : Cardinality(pinned \ {d}) = Cardinality(pinned) - 1
  BY DEF PinsCounted, IInv, TypeOK
<1> USE DEF Present, None, Idle, Pairings, Connections, Requests, Grants, CapabilitySets,
            PairingLapsed, PairingNow, SessionLapsed, SessionNow, ConnectionNow, PendingNow
<1> USE DEF IInv, TypeOK, ApprovalCanPin
<1>1. CASE Tick
  BY <1>1 DEF Tick
<1>2. CASE ExpirePairing
  BY <1>2 DEF ExpirePairing
<1>3. CASE ActiveGrant
  BY <1>3 DEF ActiveGrant, ExpireActive
<1>4. ASSUME NEW d \in Devices, NEW ttl \in 0..(MaxPairingTtl + 1), NEW rng \in BOOLEAN,
             BeginPairing(d, ttl, rng)
      PROVE  ApprovalCanPin'
  BY <1>4 DEF BeginPairing, CanBeginPairing, ExpireActive
<1>5. ASSUME NEW proof \in Handles, NEW rng \in BOOLEAN,
             ConfirmPairing(proof, rng)
      PROVE  ApprovalCanPin'
  BY <1>5 DEF ConfirmPairing
<1>6. ASSUME NEW handle \in Handles, ApprovePairing(handle) PROVE ApprovalCanPin'
  BY <1>6 DEF ApprovePairing, Pin
<1>7. ASSUME NEW handle \in Handles, RejectPairing(handle) PROVE ApprovalCanPin'
  BY <1>7 DEF RejectPairing
<1>8. ASSUME NEW handle \in Handles, CancelPairing(handle) PROVE ApprovalCanPin'
  BY <1>8 DEF CancelPairing
<1>9. ASSUME NEW d \in Devices, NEW rng \in BOOLEAN,
             RegisterConnection(d, rng)
      PROVE  ApprovalCanPin'
  BY <1>9 DEF RegisterConnection, ExpireActive, EpochAfter, EpochAvailable
<1>10. ASSUME NEW context \in 1..MaxEpoch, CloseConnection(context) PROVE ApprovalCanPin'
  BY <1>10 DEF CloseConnection
<1>11. ASSUME NEW context \in 1..MaxEpoch, NEW caps \in CapabilitySets, NEW rng \in BOOLEAN,
             RequestSession(context, caps, rng)
      PROVE  ApprovalCanPin'
  BY ZenonT(40), <1>11 DEF RequestSession
<1>12. ASSUME NEW handle \in Handles, NEW caps \in CapabilitySets,
              NEW ttl \in 0..(MaxSessionTtl + 1),
             ApproveSession(handle, caps, ttl)
      PROVE  ApprovalCanPin'
  BY ZenonT(40), <1>12 DEF ApproveSession, Grant, RequestCurrent, WithinRequest
<1>13. ASSUME NEW handle \in Handles, RejectSession(handle) PROVE ApprovalCanPin'
  BY <1>13 DEF RejectSession
<1>14. CASE RevokeActive
  BY <1>14 DEF RevokeActive
<1>15. ASSUME NEW d \in Devices, RevokeDevice(d) PROVE ApprovalCanPin'
  <2>1. Cardinality(pinned \ {d}) = Cardinality(pinned) - 1
    BY <1>0, <1>15 DEF RevokeDevice
  <2> QED
    BY <1>15, <2>1, <1>0, BoundsAssumption DEF RevokeDevice
<1>16. CASE UNCHANGED vars
  BY <1>16 DEF vars
<1> HIDE DEF IInv, TypeOK, ApprovalCanPin
<1> QED
  BY ZenonT(40), <1>1, <1>2, <1>3, <1>4, <1>5, <1>6, <1>7, <1>8, <1>9, <1>10, <1>11, <1>12, <1>13,
     <1>14, <1>15, <1>16 DEF Next

\* What is_authorized accepts is live.
LEMMA AcceptedIsLive == IInv => AuthorizedIsLive
BY DEF IInv, TypeOK, GrantNamesConnection, AuthorizedIsLive, IsAuthorized, Present, None,
       Grants, Connections, SessionLapsed, SessionNow

\* No step brings a dropped grant back.
LEMMA StepRevoked == IInv /\ [Next]_vars => [StaysRevoked]_vars
<1> SUFFICES ASSUME IInv, Next, NEW g \in grants, session # g PROVE session' # g
  BY DEF StaysRevoked
<1> USE DEF IInv, TypeOK
<1> USE DEF Present, None, Idle, Pairings, Connections, Requests, Grants, CapabilitySets,
            PairingLapsed, PairingNow, SessionLapsed, SessionNow, ConnectionNow, PendingNow
<1>1. g.epoch # 0
  OBVIOUS
<1>2. CASE session' = session
  BY <1>2
<1>3. CASE session' = None
  BY <1>1, <1>3
<1>4. ASSUME NEW handle \in Handles, NEW caps \in CapabilitySets,
             NEW ttl \in 0..(MaxSessionTtl + 1), ApproveSession(handle, caps, ttl),
             session' = Grant(caps, ttl), Present(PendingNow)
      PROVE  session' # g
  BY <1>4 DEF Grant, GrantNamesConnection, GrantIsFirst
<1>5. session' \in {session, None} \/
      \E handle \in Handles, caps \in CapabilitySets, ttl \in 0..(MaxSessionTtl + 1) :
        ApproveSession(handle, caps, ttl) /\ session' = Grant(caps, ttl) /\ Present(PendingNow)
  BY ZenonT(40) DEF Next, Tick, ExpirePairing, ActiveGrant, ExpireActive, BeginPairing, ConfirmPairing,
         ApprovePairing, RejectPairing, CancelPairing, RegisterConnection, CloseConnection,
         RequestSession, ApproveSession, RejectSession, RevokeActive, RevokeDevice,
         Without, SessionWithout
<1> QED
  BY <1>2, <1>3, <1>4, <1>5

-------------------------------------------------------------------------------
(* Proofs, for any sets of attempts, aliases, peers and codes *)

\* The strengthening GuessesBounded needs: nothing was tried before the attempt began.
PairingInv ==
  /\ P!PairingTypeOK /\ P!GuessesBounded
  /\ \A a \in Attempts : attempt[a].state = "Idle" => wrong[a] = 0

\* A coordinator begins idle (PairingCoordinator::new).
LEMMA InitPairing == P!Init => PairingInv
BY AccessBounds DEF P!Init, PairingInv, P!PairingTypeOK, P!GuessesBounded, P!Unused

\* An attempt that takes one step keeps the invariant if its new record does.
LEMMA OneAttempt ==
  ASSUME PairingInv, NEW a \in Attempts, NEW p \in P!Pendings,
         NEW w \in 0 .. MaxGuesses,
         p.state = "Pending" => w + p.remaining = MaxGuesses /\ p.remaining > 0,
         attempt' = [attempt EXCEPT ![a] = p], wrong' = [wrong EXCEPT ![a] = w],
         pins' \in [Aliases -> Peers \cup {NoPin}], pairingNow' = pairingNow
  PROVE  PairingInv'
<1> USE DEF PairingInv
<1>1. P!PairingTypeOK'
  BY DEF P!PairingTypeOK
<1>2. \A b \in Attempts : b # a => attempt'[b] = attempt[b] /\ wrong'[b] = wrong[b]
  BY DEF P!PairingTypeOK
<1>3. attempt'[a] = p /\ wrong'[a] = w
  BY DEF P!PairingTypeOK
<1>4. p.state # "Idle"
  BY DEF P!Pendings, P!States
<1> QED
  BY <1>1, <1>2, <1>3, <1>4 DEF P!GuessesBounded

\* What progress_or_accept makes of a pending pairing.
LEMMA ProgressKeeps ==
  ASSUME PairingInv, NEW a \in Attempts, attempt[a].state = "Pending",
         NEW p \in P!Pendings, p.state = "Pending", p.remaining = attempt[a].remaining,
         NEW stores \in BOOLEAN, NEW fails \in BOOLEAN, P!Progress(a, p, stores, fails),
         UNCHANGED <<pairingNow, wrong>>
  PROVE  PairingInv'
<1> USE DEF PairingInv
<1>1. /\ wrong[a] \in 0 .. MaxGuesses /\ wrong' = [wrong EXCEPT ![a] = wrong[a]]
      /\ wrong[a] + p.remaining = MaxGuesses /\ p.remaining > 0
  BY DEF P!PairingTypeOK, P!GuessesBounded
<1>2. CASE P!Complete(p)
  <2> DEFINE q == IF fails THEN P!Closed(p) ELSE [p EXCEPT !.state = "Accepted"]
  <2>1. q \in P!Pendings /\ q.state # "Pending"
    BY DEF P!Closed, P!Pendings, P!States
  <2>2. attempt' = [attempt EXCEPT ![a] = q] /\ pins' \in [Aliases -> Peers \cup {NoPin}]
    BY <1>2 DEF P!Progress, P!Accept, P!PairingTypeOK, P!Pendings
  <2> HIDE DEF q
  <2> QED
    BY ZenonT(40), <1>1, <2>1, <2>2, OneAttempt
<1>3. CASE ~P!Complete(p)
  <2>1. attempt' = [attempt EXCEPT ![a] = p] /\ pins' \in [Aliases -> Peers \cup {NoPin}]
    BY <1>3 DEF P!Progress, P!PairingTypeOK
  <2> QED
    BY ZenonT(40), <1>1, <2>1, OneAttempt
<1> QED
  BY <1>2, <1>3

\* Every call of a coordinator preserves the invariant (begin, confirm_local, confirm_peer).
LEMMA StepPairing == PairingInv /\ [P!Next]_P!vars => PairingInv'
<1> SUFFICES ASSUME PairingInv, [P!Next]_P!vars PROVE PairingInv'
  OBVIOUS
<1>0. ASSUME NEW a \in Attempts, attempt[a].state = "Pending"
      PROVE  /\ attempt[a] \in P!Pendings /\ wrong[a] \in 0 .. MaxGuesses
             /\ wrong' = wrong => wrong' = [wrong EXCEPT ![a] = wrong[a]]
             /\ pins \in [Aliases -> Peers \cup {NoPin}]
             /\ wrong[a] + attempt[a].remaining = MaxGuesses /\ attempt[a].remaining > 0
  BY <1>0 DEF PairingInv, P!PairingTypeOK, P!GuessesBounded, P!Unused
<1>1. ASSUME NEW a \in Attempts, NEW alias \in Aliases, NEW peer \in Peers, NEW code \in Codes,
             NEW expires \in 0 .. PairingEnd + PairingTtl + 1, NEW valid \in BOOLEAN,
             NEW stored \in BOOLEAN, P!Begin(a, alias, peer, code, expires, valid, stored)
      PROVE  PairingInv'
  <2> DEFINE p == [state |-> "Pending", alias |-> alias, peer |-> peer, code |-> code,
                   expires |-> expires, local |-> FALSE, acknowledged |-> FALSE,
                   remaining |-> MaxGuesses]
             q == P!Started(alias, peer, code, expires, valid, stored)
  <2>1. p \in P!Pendings /\ p.remaining = MaxGuesses
    BY AccessBounds DEF P!Pendings, P!States
  <2>2. /\ q \in {p, P!Closed(p), [p EXCEPT !.state = "Accepted"]}
        /\ attempt' = [attempt EXCEPT ![a] = q]
    BY <1>1 DEF P!Begin, P!Started, P!Decided
  <2> HIDE DEF p, q
  <2>3. q \in P!Pendings /\ q.remaining = MaxGuesses
    BY <2>1, <2>2 DEF P!Closed, P!Pendings, P!States
  <2>4. /\ wrong[a] = 0 /\ wrong' = [wrong EXCEPT ![a] = 0] /\ pairingNow' = pairingNow
        /\ pins' \in [Aliases -> Peers \cup {NoPin}]
    BY <1>1 DEF P!Begin, PairingInv, P!PairingTypeOK
  <2>5. 0 \in 0 .. MaxGuesses /\ 0 + q.remaining = MaxGuesses /\ q.remaining > 0
    BY AccessBounds, <2>3
  <2> QED
    BY ZenonT(40), <2>2, <2>3, <2>4, <2>5, OneAttempt
<1>2. ASSUME NEW a \in Attempts, attempt[a].state = "Pending", P!Expire(a), UNCHANGED <<pairingNow, wrong>>
      PROVE  PairingInv'
  <2>1. P!Closed(attempt[a]) \in P!Pendings /\ P!Closed(attempt[a]).state # "Pending"
    BY <1>0, <1>2 DEF P!Closed, P!Pendings, P!States
  <2> QED
    BY ZenonT(40), <1>0, <1>2, <2>1, OneAttempt DEF P!Expire
<1>3. ASSUME NEW a \in Attempts, NEW stores \in BOOLEAN, NEW fails \in BOOLEAN,
             P!ConfirmLocal(a, stores, fails)
      PROVE  PairingInv'
  <2> DEFINE p == [attempt[a] EXCEPT !.local = TRUE]
  <2>1. attempt[a].state = "Pending" /\ attempt[a] \in P!Pendings
    BY <1>0, <1>3 DEF P!ConfirmLocal
  <2>2. p \in P!Pendings /\ p.state = "Pending" /\ p.remaining = attempt[a].remaining
    BY ZenonT(40), <2>1 DEF P!Pendings
  <2> HIDE DEF p
  <2>3. P!Expire(a) \/ P!Progress(a, p, stores, fails)
    BY <1>3 DEF P!ConfirmLocal, p
  <2> QED
    BY <1>2, <1>3, <2>1, <2>2, <2>3, ProgressKeeps DEF P!ConfirmLocal
<1>4. ASSUME NEW a \in Attempts, NEW code \in Codes, NEW stores \in BOOLEAN,
             NEW fails \in BOOLEAN, P!ConfirmPeer(a, code, stores, fails)
      PROVE  PairingInv'
  <2> DEFINE p == [attempt[a] EXCEPT !.acknowledged = TRUE]
             q == P!Mismatched(attempt[a])
  <2>1. attempt[a].state = "Pending" /\ attempt[a] \in P!Pendings
    BY <1>0, <1>4 DEF P!ConfirmPeer
  <2>2. CASE P!Expire(a) /\ UNCHANGED wrong
    BY <1>2, <1>4, <2>1, <2>2 DEF P!ConfirmPeer
  <2>3. CASE P!Progress(a, p, stores, fails) /\ UNCHANGED wrong
    <3>1. p \in P!Pendings /\ p.state = "Pending" /\ p.remaining = attempt[a].remaining
      BY ZenonT(40), <2>1 DEF P!Pendings
    <3> HIDE DEF p
    <3> QED
      BY <1>4, <2>1, <2>3, <3>1, ProgressKeeps DEF P!ConfirmPeer
  <2>4. CASE /\ attempt' = [attempt EXCEPT ![a] = q]
             /\ wrong' = [wrong EXCEPT ![a] = @ + 1] /\ UNCHANGED pins
    <3> DEFINE less == [attempt[a] EXCEPT !.remaining = IF @ = 0 THEN 0 ELSE @ - 1]
    <3>0. /\ wrong[a] \in 0 .. MaxGuesses /\ attempt[a].remaining > 0
          /\ wrong[a] + attempt[a].remaining = MaxGuesses
          /\ attempt[a].remaining \in 0 .. MaxGuesses
      BY <1>0, <2>1 DEF P!Pendings
    <3>1. /\ less \in P!Pendings /\ less.remaining = attempt[a].remaining - 1
          /\ less.state = "Pending"
      BY AccessBounds, <2>1, <3>0 DEF P!Pendings
    <3>2. q = IF less.remaining = 0 THEN P!Closed(less) ELSE less
      BY DEF P!Mismatched
    <3> HIDE DEF less, q
    <3>3. /\ q \in P!Pendings
          /\ q.state = "Pending" => q.remaining = attempt[a].remaining - 1 /\ q.remaining # 0
      BY ZenonT(40), <3>1, <3>2 DEF P!Closed, P!Pendings, P!States
    <3>4. /\ wrong[a] + 1 \in 0 .. MaxGuesses
          /\ q.state = "Pending" => wrong[a] + 1 + q.remaining = MaxGuesses /\ q.remaining > 0
      BY AccessBounds, <3>0, <3>3
    <3>5. /\ wrong' = [wrong EXCEPT ![a] = wrong[a] + 1] /\ pairingNow' = pairingNow
          /\ pins' \in [Aliases -> Peers \cup {NoPin}]
      BY ZenonT(40), <1>0, <1>4, <2>1, <2>4 DEF P!ConfirmPeer
    <3> QED
      BY ZenonT(40), <2>4, <3>3, <3>4, <3>5, OneAttempt
  <2> QED
    BY <1>4, <2>2, <2>3, <2>4 DEF P!ConfirmPeer
<1>5. CASE P!Tick
  <2>1. pairingNow' \in 0 .. PairingEnd
    BY AccessBounds, <1>5 DEF P!Tick, PairingInv, P!PairingTypeOK
  <2> QED
    BY <1>5, <2>1 DEF P!Tick, PairingInv, P!PairingTypeOK, P!GuessesBounded
<1>6. CASE UNCHANGED P!vars
  BY <1>6 DEF P!vars, PairingInv, P!PairingTypeOK, P!GuessesBounded
<1> QED
  BY <1>1, <1>3, <1>4, <1>5, <1>6 DEF P!Next

\* However codes, approvals and deadlines interleave, and whatever the store does, at
\* most MaxAttempts wrong codes are tried against an attempt (confirm_peer).
THEOREM PairingGuesses ==
  P!Spec => [](P!PairingTypeOK /\ P!GuessesBounded)
<1>1. PairingInv => P!PairingTypeOK /\ P!GuessesBounded
  BY DEF PairingInv
<1> QED
  BY <1>1, InitPairing, StepPairing, PTL DEF P!Spec

\* What one call may do to the pins and to a finished attempt.
Earned ==
  /\ \A a \in Attempts : P!EarnedSession(a) /\ P!Final(a)
  /\ \A x \in Aliases : P!PinByConsent(x)

\* A call that moves only attempt a and leaves the pins: what is left to show of it.
LEMMA OneMoves ==
  ASSUME PairingInv, NEW a \in Attempts, NEW p \in P!Pendings,
         attempt' = [attempt EXCEPT ![a] = p], pins' = pins,
         attempt[a].state \in {"Idle", "Pending"},
         p.state = "Accepted" => pins[p.alias] = p.peer /\ p.expires > pairingNow
  PROVE  Earned
<1>1. \A b \in Attempts : b # a => attempt'[b] = attempt[b]
  BY DEF PairingInv, P!PairingTypeOK
<1>2. attempt'[a] = p
  BY DEF PairingInv, P!PairingTypeOK
<1> QED
  BY <1>1, <1>2 DEF Earned, P!EarnedSession, P!Final, P!PinByConsent

\* progress_or_accept writes the pin and accepts only after both confirmations, in time.
LEMMA ProgressEarned ==
  ASSUME PairingInv, NEW a \in Attempts, attempt[a].state = "Pending",
         NEW p \in P!Pendings, p.state = "Pending", ~P!Expired(p),
         NEW stores \in BOOLEAN, NEW fails \in BOOLEAN, P!Outcome(stores, fails),
         P!Progress(a, p, stores, fails), pairingNow \in Nat
  PROVE  Earned
<1>0. p.expires \in Int /\ p.alias \in Aliases /\ p.expires > pairingNow
  BY DEF P!Pendings, P!Expired
<1>1. CASE ~P!Complete(p)
  BY <1>1, OneMoves DEF P!Progress
<1>2. CASE P!Complete(p)
  <2> DEFINE q == IF fails THEN P!Closed(p) ELSE [p EXCEPT !.state = "Accepted"]
  <2>1. /\ q.state \in {"Accepted", "Closed"} /\ q.alias = p.alias /\ q.peer = p.peer
        /\ q.expires = p.expires /\ q.local /\ q.acknowledged
        /\ q.state = "Accepted" => ~fails
    BY <1>2 DEF P!Closed, P!Pendings, P!Complete
  <2>2. /\ attempt' = [attempt EXCEPT ![a] = q]
        /\ pins' = IF stores THEN [pins EXCEPT ![p.alias] = p.peer] ELSE pins
    BY <1>2 DEF P!Progress, P!Accept
  <2> HIDE DEF q
  <2>3. attempt'[a] = q /\ \A b \in Attempts : b # a => attempt'[b] = attempt[b]
    BY <2>2 DEF PairingInv, P!PairingTypeOK
  <2>4. /\ \A x \in Aliases : x # p.alias => pins'[x] = pins[x]
        /\ stores => pins'[p.alias] = p.peer
        /\ ~stores => pins' = pins
    BY <1>0, <2>2 DEF PairingInv, P!PairingTypeOK
  <2>5. \A b \in Attempts : P!EarnedSession(b) /\ P!Final(b)
    BY <1>0, <2>1, <2>3, <2>4 DEF P!EarnedSession, P!Final, P!Outcome
  <2>6. \A x \in Aliases : P!PinByConsent(x)
    BY <2>1, <2>3, <2>4 DEF P!PinByConsent
  <2> QED
    BY <2>5, <2>6 DEF Earned
<1> QED
  BY <1>1, <1>2

\* Every step is lawful.
LEMMA StepEarned == PairingInv /\ [P!Next]_P!vars => Earned
<1> SUFFICES ASSUME PairingInv, [P!Next]_P!vars PROVE Earned
  OBVIOUS
<1>0. pairingNow \in Nat
  BY AccessBounds DEF PairingInv, P!PairingTypeOK
<1>1. ASSUME NEW a \in Attempts, NEW alias \in Aliases, NEW peer \in Peers, NEW code \in Codes,
             NEW expires \in 0 .. PairingEnd + PairingTtl + 1, NEW valid \in BOOLEAN,
             NEW stored \in BOOLEAN, P!Begin(a, alias, peer, code, expires, valid, stored)
      PROVE  Earned
  <2> DEFINE p == [state |-> "Pending", alias |-> alias, peer |-> peer, code |-> code,
                   expires |-> expires, local |-> FALSE, acknowledged |-> FALSE,
                   remaining |-> MaxGuesses]
             q == P!Started(alias, peer, code, expires, valid, stored)
  <2>1. /\ p \in P!Pendings /\ p.state = "Pending" /\ p.alias = alias /\ p.peer = peer
        /\ p.expires = expires
    BY AccessBounds DEF P!Pendings, P!States
  <2>2. /\ \/ q \in {p, P!Closed(p)}
           \/ q = [p EXCEPT !.state = "Accepted"] /\ pins[alias] = p.peer /\ expires > pairingNow
        /\ attempt' = [attempt EXCEPT ![a] = q] /\ pins' = pins
    BY <1>1 DEF P!Begin, P!Started, P!Decided
  <2> HIDE DEF p, q
  <2>3. q \in P!Pendings /\ (q.state = "Accepted" => pins[q.alias] = q.peer /\ q.expires > pairingNow)
    BY <2>1, <2>2 DEF P!Closed, P!Pendings, P!States
  <2> QED
    BY ZenonT(40), <1>1, <2>2, <2>3, OneMoves DEF P!Begin
<1>2. ASSUME NEW a \in Attempts, attempt[a].state = "Pending", P!Expire(a) PROVE Earned
  <2>1. attempt[a] \in P!Pendings
    BY <1>2 DEF PairingInv, P!PairingTypeOK, P!Unused
  <2>2. P!Closed(attempt[a]) \in P!Pendings /\ P!Closed(attempt[a]).state # "Accepted"
    BY <2>1 DEF P!Closed, P!Pendings, P!States
  <2> QED
    BY ZenonT(40), <1>2, <2>2, OneMoves DEF P!Expire
<1>3. ASSUME NEW a \in Attempts, NEW stores \in BOOLEAN, NEW fails \in BOOLEAN,
             P!ConfirmLocal(a, stores, fails)
      PROVE  Earned
  <2> DEFINE p == [attempt[a] EXCEPT !.local = TRUE]
  <2>1. attempt[a].state = "Pending" /\ attempt[a] \in P!Pendings
    BY <1>3 DEF P!ConfirmLocal, PairingInv, P!PairingTypeOK, P!Unused
  <2>2. p \in P!Pendings /\ p.state = "Pending" /\ p.expires = attempt[a].expires
    BY ZenonT(40), <2>1 DEF P!Pendings
  <2> HIDE DEF p
  <2>3. CASE P!Expired(attempt[a])
    BY <1>2, <1>3, <2>1, <2>3 DEF P!ConfirmLocal
  <2>4. CASE ~P!Expired(attempt[a])
    <3>1. ~P!Expired(p) /\ P!Progress(a, p, stores, fails) /\ P!Outcome(stores, fails)
      BY <1>3, <2>2, <2>4 DEF P!ConfirmLocal, P!Expired, p
    <3> QED
      BY <1>0, <2>1, <2>2, <3>1, ProgressEarned
  <2> QED
    BY <2>3, <2>4
<1>4. ASSUME NEW a \in Attempts, NEW code \in Codes, NEW stores \in BOOLEAN,
             NEW fails \in BOOLEAN, P!ConfirmPeer(a, code, stores, fails)
      PROVE  Earned
  <2> DEFINE p == [attempt[a] EXCEPT !.acknowledged = TRUE]
             q == P!Mismatched(attempt[a])
  <2>1. attempt[a].state = "Pending" /\ attempt[a] \in P!Pendings
    BY <1>4 DEF P!ConfirmPeer, PairingInv, P!PairingTypeOK, P!Unused
  <2>2. p \in P!Pendings /\ p.state = "Pending" /\ p.expires = attempt[a].expires
    BY ZenonT(40), <2>1 DEF P!Pendings
  <2>3. q \in P!Pendings /\ q.state # "Accepted"
    <3> DEFINE less == [attempt[a] EXCEPT !.remaining = IF @ = 0 THEN 0 ELSE @ - 1]
    <3>1. less \in P!Pendings /\ less.state = "Pending"
      BY AccessBounds, <2>1 DEF P!Pendings
    <3>2. q = IF less.remaining = 0 THEN P!Closed(less) ELSE less
      BY DEF P!Mismatched
    <3> HIDE DEF less, q
    <3> QED
      BY <3>1, <3>2 DEF P!Closed, P!Pendings, P!States
  <2> HIDE DEF p, q
  <2>4. CASE P!Expired(attempt[a])
    BY <1>2, <1>4, <2>1, <2>4 DEF P!ConfirmPeer
  <2>5. CASE ~P!Expired(attempt[a]) /\ code = attempt[a].code
    <3>1. ~P!Expired(p) /\ P!Progress(a, p, stores, fails) /\ P!Outcome(stores, fails)
      BY <1>4, <2>2, <2>5 DEF P!ConfirmPeer, P!Expired, p
    <3> QED
      BY <1>0, <2>1, <2>2, <3>1, ProgressEarned
  <2>6. CASE ~P!Expired(attempt[a]) /\ code # attempt[a].code
    <3>1. attempt' = [attempt EXCEPT ![a] = q] /\ pins' = pins
      BY <1>4, <2>6 DEF P!ConfirmPeer, q
    <3> QED
      BY ZenonT(40), <2>1, <2>3, <3>1, OneMoves
  <2> QED
    BY <2>4, <2>5, <2>6
<1>5. CASE UNCHANGED <<attempt, pins>>
  BY <1>5 DEF Earned, P!EarnedSession, P!Final, P!PinByConsent
<1> QED
  BY <1>1, <1>3, <1>4, <1>5 DEF P!Next, P!Tick, P!vars

\* For any number of attempts, and whatever the store does: a session is accepted only on
\* a pin or on both confirmations in time, a pin is written only by such an attempt, and a
\* finished attempt never moves again (begin, progress_or_accept).
THEOREM PairingEarned ==
  P!Spec => [][Earned]_<<attempt, pins>>
<1>1. PairingInv /\ [P!Next]_P!vars => [Earned]_<<attempt, pins>>
  BY StepEarned
<1> QED
  BY <1>1, InitPairing, StepPairing, PTL DEF P!Spec

-------------------------------------------------------------------------------
(* Proofs, for any set of ends and any number of sessions *)

\* An end has given up a session when it is ending it or past it.
GaveUp(f, s) ==
  \/ controller[f].session > s
  \/ controller[f].session = s /\ controller[f].state # "Connected"

\* Why RemoteCloseMeant holds: a message on the wire is one its sender meant, and a
\* session that a message closed is closed.
DisconnectInv ==
  /\ D!DisconnectTypeOK
  /\ \A w \in wires : \E f \in Attempts \ {w.to} : GaveUp(f, w.session)
  /\ \A e \in Attempts : cause[e] = "remote" =>
       \E f \in Attempts \ {e} : GaveUp(f, controller[e].session)

\* An end that changes only to give its session up, or to a later one, keeps what it
\* gave up before.
LEMMA GivenUpKept ==
  ASSUME D!DisconnectTypeOK, NEW e \in Attempts,
         NEW c \in D!Controllers, controller' = [controller EXCEPT ![e] = c],
         c.session = controller[e].session => c.state # "Connected",
         c.session >= controller[e].session
  PROVE  \A f \in Attempts, s \in Nat : GaveUp(f, s) => GaveUp(f, s)'
BY DEF D!DisconnectTypeOK, GaveUp, D!Controllers

\* Two ends begin connected in session one.
LEMMA InitDisconnect == D!Init => DisconnectInv
<1> SUFFICES ASSUME D!Init PROVE DisconnectInv
  OBVIOUS
<1>1. D!New(1) \in D!Controllers
  BY AccessBounds DEF D!New, D!States, D!Controllers
<1>2. D!DisconnectTypeOK
  BY AccessBounds, <1>1 DEF D!Init, D!DisconnectTypeOK
<1> QED
  BY <1>2 DEF D!Init, DisconnectInv

\* Every operation at either end, and every delivery of a message, keeps the invariant.
LEMMA StepDisconnect == DisconnectInv /\ [D!Next]_D!vars => DisconnectInv'
<1> SUFFICES ASSUME DisconnectInv, [D!Next]_D!vars PROVE DisconnectInv'
  OBVIOUS
<1> USE DEF DisconnectInv
<1>0. /\ \A e \in Attempts : controller[e] \in D!Controllers /\ controller[e].session \in Nat
      /\ \A w \in wires : w.to \in Attempts /\ w.session \in Nat
  BY DEF D!DisconnectTypeOK, D!Controllers
<1>1. ASSUME NEW e \in Attempts, D!Traffic(e) \/ D!Drain(e) PROVE DisconnectInv'
  <2>1. D!DisconnectTypeOK' /\ UNCHANGED <<controller, wires, cause>>
    BY ZenonT(40), <1>1 DEF D!Traffic, D!Drain, D!DisconnectTypeOK
  <2> QED
    BY <2>1 DEF GaveUp
<1>2. ASSUME NEW e \in Attempts, D!InitiateDisconnect(e) PROVE DisconnectInv'
  <2> DEFINE d == D!SaturatingAdd(disconnectNow, DrainTimeout)
             c == [controller[e] EXCEPT !.state = "Closing", !.deadline = d]
  <2>1. d \in 0 .. DisconnectEnd
    BY AccessBounds DEF D!SaturatingAdd, D!DisconnectTypeOK
  <2>2. controller' = [controller EXCEPT ![e] = c]
    BY ZenonT(40), <1>2 DEF D!InitiateDisconnect, D!DisconnectTypeOK
  <2> HIDE DEF d
  <2>3. c \in D!Controllers /\ c.session = controller[e].session /\ c.state = "Closing"
    BY ZenonT(40), <1>0, <2>1 DEF D!States, D!Controllers
  <2> HIDE DEF c
  <2>6. c.session >= controller[e].session
    BY <1>0, <2>3
  <2>4. \A f \in Attempts, s \in Nat : GaveUp(f, s) => GaveUp(f, s)'
    BY ZenonT(40), <1>0, <2>2, <2>3, <2>6, GivenUpKept
  <2>5. /\ wires' = wires \cup {[to |-> f, session |-> controller[e].session] : f \in Attempts \ {e}}
        /\ cause' = [cause EXCEPT ![e] = "local"] /\ UNCHANGED <<undrained, disconnectNow>>
    BY <1>2 DEF D!InitiateDisconnect
  <2>7. D!DisconnectTypeOK'
    <3>1. controller[e].session \in 1 .. MaxSession
      BY <1>0 DEF D!Controllers
    <3> QED
      BY <2>2, <2>3, <2>5, <3>1 DEF D!DisconnectTypeOK
  <2>8. \A w \in wires' : \E f \in Attempts \ {w.to} : GaveUp(f, w.session)'
    <3> SUFFICES ASSUME NEW w \in wires' PROVE \E f \in Attempts \ {w.to} : GaveUp(f, w.session)'
      OBVIOUS
    <3>1. CASE w \in wires
      BY <1>0, <2>4, <3>1
    <3>2. CASE w \notin wires
      <4>1. PICK f \in Attempts \ {e} : w = [to |-> f, session |-> controller[e].session]
        BY ZenonT(40), <2>5, <3>2
      <4>2. e \in Attempts \ {w.to} /\ w.session = controller[e].session
        BY <4>1
      <4>3. GaveUp(e, w.session)'
        BY <2>2, <2>3, <4>2 DEF GaveUp, D!DisconnectTypeOK
      <4> QED
        BY <4>2, <4>3
    <3> QED
      BY <3>1, <3>2
  <2>9. \A f \in Attempts : cause'[f] = "remote" =>
          f # e /\ cause[f] = "remote" /\ controller'[f] = controller[f]
    BY ZenonT(40), <2>2, <2>5 DEF D!DisconnectTypeOK
  <2> QED
    BY <1>0, <2>4, <2>7, <2>8, <2>9
<1>3. ASSUME NEW e \in Attempts, NEW w \in wires, D!HandleRemoteDisconnect(e, w) PROVE DisconnectInv'
  <2> DEFINE c == [controller[e] EXCEPT !.state = "Closed"]
  <2>1. controller' = [controller EXCEPT ![e] = c]
    BY <1>3 DEF D!HandleRemoteDisconnect, D!DisconnectTypeOK
  <2>2. /\ c \in D!Controllers /\ c.session = controller[e].session /\ c.state = "Closed"
        /\ c.session >= controller[e].session
    BY <1>0 DEF D!States, D!Controllers
  <2> HIDE DEF c
  <2>3. \A f \in Attempts, s \in Nat : GaveUp(f, s) => GaveUp(f, s)'
    BY ZenonT(40), <1>0, <2>1, <2>2, GivenUpKept
  <2>4. /\ cause' = [cause EXCEPT ![e] = IF @ = "none" THEN "remote" ELSE @]
        /\ UNCHANGED <<undrained, wires, disconnectNow>> /\ w.to = e /\ w.session = controller[e].session
    BY <1>3 DEF D!HandleRemoteDisconnect, D!MeantFor
  <2>5. D!DisconnectTypeOK'
    BY <2>1, <2>2, <2>4 DEF D!DisconnectTypeOK
  <2>6. \A f \in Attempts : controller'[f].session = controller[f].session
    BY <1>0, <2>1, <2>2 DEF D!DisconnectTypeOK
  <2>7. \A f \in Attempts : cause'[f] = "remote" =>
          \E g \in Attempts \ {f} : GaveUp(g, controller[f].session)
    BY ZenonT(40), <2>4 DEF D!DisconnectTypeOK
  <2> QED
    BY <1>0, <2>3, <2>4, <2>5, <2>6, <2>7
<1>4. ASSUME NEW e \in Attempts, D!CheckDrain(e) \/ D!ForceClose(e) PROVE DisconnectInv'
  <2> DEFINE c == [controller[e] EXCEPT !.state = "Closed"]
  <2>1. controller' = [controller EXCEPT ![e] = c]
    BY <1>4 DEF D!CheckDrain, D!ForceClose, D!DisconnectTypeOK
  <2>2. /\ c \in D!Controllers /\ c.session = controller[e].session /\ c.state = "Closed"
        /\ c.session >= controller[e].session
    BY <1>0 DEF D!States, D!Controllers
  <2> HIDE DEF c
  <2>3. \A f \in Attempts, s \in Nat : GaveUp(f, s) => GaveUp(f, s)'
    BY ZenonT(40), <1>0, <2>1, <2>2, GivenUpKept
  <2>4. /\ UNCHANGED <<undrained, wires, disconnectNow>>
        /\ cause' = cause \/ cause' = [cause EXCEPT ![e] = "local"]
    BY <1>4 DEF D!CheckDrain, D!ForceClose
  <2>5. D!DisconnectTypeOK'
    BY <2>1, <2>2, <2>4 DEF D!DisconnectTypeOK
  <2>6. \A f \in Attempts : /\ controller'[f].session = controller[f].session
                            /\ cause'[f] = "remote" => cause[f] = "remote"
    BY ZenonT(40), <1>0, <2>1, <2>2, <2>4 DEF D!DisconnectTypeOK
  <2>7. \A w \in wires' : \E f \in Attempts \ {w.to} : GaveUp(f, w.session)'
    BY <1>0, <2>3, <2>4
  <2>8. \A f \in Attempts : cause'[f] = "remote" =>
          \E g \in Attempts \ {f} : GaveUp(g, controller[f].session)'
    <3> SUFFICES ASSUME NEW f \in Attempts, cause'[f] = "remote"
                 PROVE  \E g \in Attempts \ {f} : GaveUp(g, controller[f].session)'
      OBVIOUS
    <3>1. PICK g \in Attempts \ {f} : GaveUp(g, controller[f].session)
      BY <2>6
    <3> QED
      BY ZenonT(40), <1>0, <2>3, <2>6, <3>1
  <2> QED
    BY <2>5, <2>6, <2>7, <2>8
<1>5. ASSUME NEW e \in Attempts, D!Successor(e) PROVE DisconnectInv'
  <2> DEFINE c == D!New(controller[e].session + 1)
  <2>1. /\ controller' = [controller EXCEPT ![e] = c] /\ controller[e].session < MaxSession
        /\ undrained' = [undrained EXCEPT ![e] = FALSE] /\ cause' = [cause EXCEPT ![e] = "none"]
        /\ UNCHANGED <<wires, disconnectNow>>
    BY <1>5 DEF D!Successor, D!DisconnectTypeOK
  <2>2. /\ c \in D!Controllers /\ c.session = controller[e].session + 1
        /\ c.session >= controller[e].session /\ c.session # controller[e].session
    BY AccessBounds, <1>0, <2>1 DEF D!States, D!New, D!Controllers
  <2> HIDE DEF c
  <2>3. \A f \in Attempts, s \in Nat : GaveUp(f, s) => GaveUp(f, s)'
    BY ZenonT(40), <1>0, <2>1, <2>2, GivenUpKept
  <2>4. D!DisconnectTypeOK'
    BY <2>1, <2>2 DEF D!DisconnectTypeOK
  <2>5. \A f \in Attempts : cause'[f] = "remote" =>
          f # e /\ cause[f] = "remote" /\ controller'[f] = controller[f]
    BY <2>1 DEF D!DisconnectTypeOK
  <2> QED
    BY <1>0, <2>1, <2>3, <2>4, <2>5
<1>6. CASE D!Tick
  <2>1. disconnectNow' \in 0 .. DisconnectEnd
    BY AccessBounds, <1>6 DEF D!Tick, D!DisconnectTypeOK
  <2> QED
    BY <1>6, <2>1 DEF D!Tick, D!DisconnectTypeOK, GaveUp
<1>7. CASE UNCHANGED D!vars
  BY ZenonT(40), <1>7 DEF D!vars, D!DisconnectTypeOK, GaveUp
<1> QED
  BY ZenonT(40), <1>1, <1>2, <1>3, <1>4, <1>5, <1>6, <1>7 DEF D!Next

\* The invariant says what a remote close means.
LEMMA MeantIsClosed == DisconnectInv => D!RemoteCloseMeant
BY DEF DisconnectInv, D!RemoteCloseMeant, GaveUp

\* For any number of sessions and any loss, repetition or delay of messages: an end that
\* the peer disconnected has a peer that gave up that very session
\* (handle_remote_disconnect).
THEOREM DisconnectMeant ==
  D!Spec => []D!RemoteCloseMeant
BY MeantIsClosed, InitDisconnect, StepDisconnect, PTL DEF D!Spec

\* No step opens a session again that began to end (can_process_traffic).
LEMMA StepCloses ==
  DisconnectInv /\ [D!Next]_D!vars => \A e \in Attempts : D!StaysClosed(e)
<1> SUFFICES ASSUME DisconnectInv, [D!Next]_D!vars, NEW e \in Attempts,
                    controller[e].state # "Connected",
                    controller'[e].session = controller[e].session
             PROVE  controller'[e].state # "Connected"
  BY DEF D!StaysClosed
<1>0. \A f \in Attempts : controller[f] \in D!Controllers
  BY DEF DisconnectInv, D!DisconnectTypeOK
<1>1. CASE UNCHANGED controller
  BY <1>1
<1>2. ASSUME NEW f \in Attempts, D!InitiateDisconnect(f) \/ D!CheckDrain(f) \/ D!ForceClose(f)
                             \/ \E w \in wires : D!HandleRemoteDisconnect(f, w)
      PROVE  controller'[e].state # "Connected"
  BY <1>0, <1>2 DEF DisconnectInv, D!DisconnectTypeOK, D!InitiateDisconnect, D!CheckDrain,
     D!ForceClose, D!HandleRemoteDisconnect, D!Controllers
<1>3. ASSUME NEW f \in Attempts, D!Successor(f) PROVE controller'[e].state # "Connected"
  <2>1. f # e
    <3>1. f = e => controller'[e].session = controller[e].session + 1
      BY <1>3 DEF D!Successor, D!New, DisconnectInv, D!DisconnectTypeOK
    <3>2. controller[e].session \in Nat
      BY <1>0 DEF D!Controllers
    <3> QED
      BY <3>1, <3>2
  <2> QED
    BY <1>3, <2>1 DEF D!Successor, DisconnectInv, D!DisconnectTypeOK
<1> QED
  BY ZenonT(40), <1>1, <1>2, <1>3 DEF D!Next, D!Traffic, D!Drain, D!Tick, D!vars

\* For any number of sessions, and however often disconnects are initiated or repeated: a
\* session that began to end carries no traffic again (can_process_traffic).
THEOREM DisconnectFailsClosed ==
  D!Spec => [][\A e \in Attempts : D!StaysClosed(e)]_D!vars
<1>1. DisconnectInv /\ [D!Next]_D!vars => [\A e \in Attempts : D!StaysClosed(e)]_D!vars
  BY StepCloses
<1> QED
  BY <1>1, InitDisconnect, StepDisconnect, PTL DEF D!Spec

-------------------------------------------------------------------------------
(* Unattended tokens, for any sets of identifiers, devices and secrets *)

\* Record i is the one a lookup of the identifier finds.
Leads(i, id) ==
  /\ i \in 1 .. Len(tokens) /\ tokens[i].id = id
  /\ \A j \in 1 .. Len(tokens) : tokens[j].id = id => i <= j

\* Why the grants are lawful: the sessions counted in a record are those it granted, a
\* lifetime left is at most the longest one, a revoked device's records are revoked, and
\* of a revoked identifier the record that a lookup finds is revoked.
TokensInv ==
  /\ T!TokensTypeOK
  /\ \A i \in 1 .. Len(tokens) :
       /\ tokens[i].used = IF granted[i] > LastUse THEN LastUse ELSE granted[i]
       /\ tokens[i].expires <= tokensNow + TokenTtl
       /\ i \in swept => tokens[i].revoked
  /\ \A id \in revokedIds : \E i \in 1 .. Len(tokens) : Leads(i, id) /\ tokens[i].revoked

\* One element of a sequence is replaced.
LEMMA Replaced ==
  ASSUME NEW S, NEW q \in Seq(S), NEW k \in 1 .. Len(q), NEW x \in S
  PROVE  /\ [q EXCEPT ![k] = x] \in Seq(S) /\ Len([q EXCEPT ![k] = x]) = Len(q)
         /\ \A i \in 1 .. Len(q) : [q EXCEPT ![k] = x][i] = IF i = k THEN x ELSE q[i]
OBVIOUS

\* One element is appended to a sequence.
LEMMA Appended ==
  ASSUME NEW S, NEW q \in Seq(S), NEW x \in S
  PROVE  /\ Append(q, x) \in Seq(S) /\ Len(Append(q, x)) = Len(q) + 1
         /\ \A i \in 1 .. Len(q) : Append(q, x)[i] = q[i]
         /\ Append(q, x)[Len(q) + 1] = x
OBVIOUS

\* A scan of the records finds the first one of its identifier when there is one.
Finds == \A id \in Attempts : T!Matching(id) # {} => Leads(T!First(id), id)

\* The lists begin empty (UnattendedTokenManager::new).
LEMMA InitTokens == T!Init => TokensInv
BY AccessBounds DEF T!Init, TokensInv, T!TokensTypeOK

\* A step that changes records in place keeps the invariant when it keeps identifiers and
\* lifetimes, takes no revocation back and counts what it grants.
LEMMA TokensKept ==
  ASSUME TokensInv, tokens' \in Seq(T!Tokens), Len(tokens') = Len(tokens),
         granted' \in Seq(Nat), Len(granted') = Len(tokens), UNCHANGED <<enabled, tokensNow>>,
         \A i \in 1 .. Len(tokens) :
           /\ tokens'[i].id = tokens[i].id /\ tokens'[i].expires = tokens[i].expires
           /\ tokens[i].revoked => tokens'[i].revoked
           /\ tokens'[i].used = IF granted'[i] > LastUse THEN LastUse ELSE granted'[i],
         swept' \subseteq 1 .. Len(tokens), \A i \in swept' : i \in swept \/ tokens'[i].revoked,
         revokedIds' \subseteq Attempts,
         \A id \in revokedIds' : id \in revokedIds
                                 \/ \E i \in 1 .. Len(tokens) : Leads(i, id) /\ tokens'[i].revoked
  PROVE  TokensInv'
<1> USE DEF TokensInv
<1>1. T!TokensTypeOK'
  BY DEF T!TokensTypeOK
<1>2. \A i \in 1 .. Len(tokens), id \in Attempts : Leads(i, id) => Leads(i, id)'
  BY ZenonT(40) DEF Leads
<1>3. \A id \in revokedIds' : \E i \in 1 .. Len(tokens') : Leads(i, id)' /\ tokens'[i].revoked
  BY ZenonT(40), <1>2
<1>4. \A i \in swept' : tokens'[i].revoked
  OBVIOUS
<1> QED
  BY ZenonT(40), <1>1, <1>3, <1>4

\* Every call of the manager preserves the invariant.
LEMMA StepTokens == TokensInv /\ Finds /\ [T!Next]_T!vars => TokensInv'
<1> SUFFICES ASSUME TokensInv, Finds, [T!Next]_T!vars PROVE TokensInv'
  OBVIOUS
<1>0. /\ tokens \in Seq(T!Tokens) /\ granted \in Seq(Nat) /\ Len(granted) = Len(tokens)
      /\ swept \subseteq 1 .. Len(tokens) /\ revokedIds \subseteq Attempts
      /\ \A i \in 1 .. Len(tokens) :
           /\ tokens[i] \in T!Tokens /\ granted[i] \in Nat
           /\ tokens[i].used = IF granted[i] > LastUse THEN LastUse ELSE granted[i]
  BY DEF TokensInv, T!TokensTypeOK
<1>1. ASSUME NEW value \in BOOLEAN, T!SetUnattendedEnabled(value) PROVE TokensInv'
  BY <1>1 DEF T!SetUnattendedEnabled, TokensInv, T!TokensTypeOK, Leads
<1>2. ASSUME NEW id \in Attempts, NEW device \in Peers, NEW allowed \in SUBSET {"View"},
             NEW ttl \in 0 .. TokenTtl + 1, NEW limit \in SessionLimits \cup {Unlimited},
             NEW secret \in Codes, T!IssueToken(id, device, allowed, ttl, limit, secret)
      PROVE  TokensInv'
  <2> DEFINE t == [id |-> id, device |-> device, allowed |-> allowed,
                   expires |-> T!SaturatingAdd(tokensNow, ttl, TokensEnd),
                   secret |-> secret, max |-> limit, used |-> 0, revoked |-> FALSE]
             n == Len(tokens)
  <2>1. /\ T!SaturatingAdd(tokensNow, ttl, TokensEnd) \in 0 .. TokensEnd
        /\ T!SaturatingAdd(tokensNow, ttl, TokensEnd) <= tokensNow + TokenTtl
    BY <1>2, AccessBounds DEF T!IssueToken, T!SaturatingAdd, TokensInv, T!TokensTypeOK
  <2>2. /\ t \in T!Tokens /\ t.used = 0 /\ t.expires <= tokensNow + TokenTtl
    BY <2>1, AccessBounds DEF T!Tokens
  <2>3. /\ tokens' = Append(tokens, t) /\ granted' = Append(granted, 0) /\ n < MaxTokens
        /\ UNCHANGED <<enabled, tokensNow, revokedIds, swept>>
    BY <1>2 DEF T!IssueToken, T!Room
  <2> HIDE DEF t
  <2>4. /\ tokens' \in Seq(T!Tokens) /\ Len(tokens') = n + 1 /\ tokens'[n + 1] = t
        /\ \A i \in 1 .. n : tokens'[i] = tokens[i]
    BY <1>0, <2>2, <2>3, Appended
  <2>5. /\ granted' \in Seq(Nat) /\ Len(granted') = n + 1 /\ granted'[n + 1] = 0
        /\ \A i \in 1 .. n : granted'[i] = granted[i]
    BY <1>0, <2>3, Appended
  <2>6. n \in Nat /\ n + 1 <= MaxTokens
    BY <1>0, <2>3, AccessBounds
  <2> HIDE DEF n
  <2>7. T!TokensTypeOK'
    BY <1>0, <2>3, <2>4, <2>5, <2>6 DEF T!TokensTypeOK, TokensInv
  <2>8. \A i \in 1 .. n + 1 :
          /\ tokens'[i].used = IF granted'[i] > LastUse THEN LastUse ELSE granted'[i]
          /\ tokens'[i].expires <= tokensNow + TokenTtl
          /\ i \in swept => tokens'[i].revoked
    <3>1. \A i \in 1 .. n + 1 : i \in 1 .. n \/ i = n + 1
      BY <2>6
    <3>2. n + 1 \notin swept /\ ~ (0 > LastUse)
      BY <1>0, <2>6, AccessBounds DEF n
    <3>3. ASSUME NEW i \in 1 .. n
          PROVE  /\ tokens'[i].used = IF granted'[i] > LastUse THEN LastUse ELSE granted'[i]
                 /\ tokens'[i].expires <= tokensNow + TokenTtl
                 /\ i \in swept => tokens'[i].revoked
      <4>1. tokens'[i] = tokens[i] /\ granted'[i] = granted[i] /\ i \in 1 .. Len(tokens)
        BY ZenonT(40), <2>4, <2>5 DEF n
      <4> QED
        BY ZenonT(40), <4>1 DEF TokensInv
    <3> QED
      BY <2>2, <2>4, <2>5, <3>1, <3>2, <3>3
  <2>9. \A i \in 1 .. n, x \in Attempts : Leads(i, x) => Leads(i, x)'
    <3> SUFFICES ASSUME NEW i \in 1 .. n, NEW x \in Attempts, Leads(i, x) PROVE Leads(i, x)'
      OBVIOUS
    <3>1. i \in 1 .. n + 1 /\ tokens'[i].id = x
      BY <2>4, <2>6 DEF Leads
    <3>2. ASSUME NEW j \in 1 .. n + 1, tokens'[j].id = x PROVE i <= j
      <4>1. CASE j \in 1 .. n
        BY <2>4, <3>2, <4>1 DEF Leads, n
      <4>2. CASE j = n + 1
        BY <2>6, <3>1, <4>2
      <4> QED
        BY <2>6, <4>1, <4>2
    <3> QED
      BY ZenonT(40), <2>4, <3>1, <3>2 DEF Leads
  <2>10. \A x \in revokedIds' : \E i \in 1 .. Len(tokens') : Leads(i, x)' /\ tokens'[i].revoked
    <3> SUFFICES ASSUME NEW x \in revokedIds
                 PROVE  \E i \in 1 .. n + 1 : Leads(i, x)' /\ tokens'[i].revoked
      BY ZenonT(40), <2>3, <2>4
    <3>1. PICK i \in 1 .. n : Leads(i, x) /\ tokens[i].revoked
      BY DEF TokensInv, n
    <3>2. i \in 1 .. n + 1 /\ x \in Attempts
      BY <1>0, <2>6
    <3> QED
      BY ZenonT(40), <2>4, <2>9, <3>1, <3>2
  <2> QED
    BY ZenonT(40), <2>3, <2>4, <2>7, <2>8, <2>10 DEF TokensInv
<1>3. ASSUME NEW id \in Attempts, NEW secret \in Codes, NEW device \in Peers,
             NEW requested \in SUBSET {"View"}, T!ValidateToken(id, secret, device, requested)
      PROVE  TokensInv'
  <2> DEFINE k == T!First(id)
             t == [tokens[k] EXCEPT !.used = T!SaturatingAdd(@, 1, LastUse)]
             g == T!SaturatingAdd(granted[k], 1, LastUse + 1)
  <2>1. Leads(k, id)
    BY <1>3, Finds DEF Finds, T!ValidateToken
  <2>2. /\ tokens' = [tokens EXCEPT ![k] = t] /\ granted' = [granted EXCEPT ![k] = g]
        /\ UNCHANGED <<enabled, tokensNow, revokedIds, swept>>
    BY <1>0, <1>3, <2>1 DEF T!ValidateToken, Leads
  <2> HIDE DEF k
  <2>3. /\ k \in 1 .. Len(tokens) /\ tokens[k] \in T!Tokens /\ granted[k] \in Nat
        /\ tokens[k].used = IF granted[k] > LastUse THEN LastUse ELSE granted[k]
    BY ZenonT(40), <1>0, <2>1 DEF Leads
  <2>4. /\ g \in Nat
        /\ T!SaturatingAdd(tokens[k].used, 1, LastUse) = IF g > LastUse THEN LastUse ELSE g
        /\ T!SaturatingAdd(tokens[k].used, 1, LastUse) \in 0 .. LastUse
    BY <2>3, AccessBounds DEF T!SaturatingAdd
  <2>5. /\ t \in T!Tokens /\ t.id = tokens[k].id /\ t.expires = tokens[k].expires
        /\ t.revoked = tokens[k].revoked /\ t.used = IF g > LastUse THEN LastUse ELSE g
    BY <2>3, <2>4 DEF T!Tokens
  <2> HIDE DEF t, g
  <2>6. /\ tokens' \in Seq(T!Tokens) /\ Len(tokens') = Len(tokens)
        /\ \A i \in 1 .. Len(tokens) : tokens'[i] = IF i = k THEN t ELSE tokens[i]
    BY <1>0, <2>2, <2>3, <2>5, Replaced
  <2>7. /\ granted' \in Seq(Nat) /\ Len(granted') = Len(tokens)
        /\ \A i \in 1 .. Len(tokens) : granted'[i] = IF i = k THEN g ELSE granted[i]
    BY <1>0, <2>2, <2>3, <2>4, Replaced
  <2>8. \A i \in 1 .. Len(tokens) :
           /\ tokens'[i].id = tokens[i].id /\ tokens'[i].expires = tokens[i].expires
           /\ tokens[i].revoked => tokens'[i].revoked
           /\ tokens'[i].used = IF granted'[i] > LastUse THEN LastUse ELSE granted'[i]
    BY ZenonT(40), <1>0, <2>5, <2>6, <2>7
  <2> QED
    BY ZenonT(40), <1>0, <2>2, <2>6, <2>7, <2>8, TokensKept
<1>4. ASSUME NEW id \in Attempts, T!RevokeToken(id) PROVE TokensInv'
  <2> DEFINE k == T!First(id)
             t == [tokens[k] EXCEPT !.revoked = TRUE]
  <2>1. Leads(k, id)
    BY <1>4, Finds DEF Finds, T!RevokeToken
  <2>2. /\ tokens' = [tokens EXCEPT ![k] = t] /\ revokedIds' = revokedIds \cup {id}
        /\ UNCHANGED <<enabled, tokensNow, granted, swept>>
    BY <1>0, <1>4, <2>1 DEF T!RevokeToken, Leads
  <2> HIDE DEF k
  <2>3. k \in 1 .. Len(tokens) /\ tokens[k] \in T!Tokens
    BY ZenonT(40), <1>0, <2>1 DEF Leads
  <2>4. /\ t \in T!Tokens /\ t.id = tokens[k].id /\ t.expires = tokens[k].expires
        /\ t.revoked /\ t.used = tokens[k].used
    BY ZenonT(40), <2>3 DEF T!Tokens
  <2> HIDE DEF t
  <2>5. /\ tokens' \in Seq(T!Tokens) /\ Len(tokens') = Len(tokens)
        /\ \A i \in 1 .. Len(tokens) : tokens'[i] = IF i = k THEN t ELSE tokens[i]
    BY <1>0, <2>2, <2>3, <2>4, Replaced
  <2>6. \A i \in 1 .. Len(tokens) :
           /\ tokens'[i].id = tokens[i].id /\ tokens'[i].expires = tokens[i].expires
           /\ tokens[i].revoked => tokens'[i].revoked
           /\ tokens'[i].used = IF granted'[i] > LastUse THEN LastUse ELSE granted'[i]
    BY ZenonT(40), <1>0, <2>2, <2>4, <2>5
  <2>7. \A x \in revokedIds' : x \in revokedIds
                                \/ \E i \in 1 .. Len(tokens) : Leads(i, x) /\ tokens'[i].revoked
    BY <2>1, <2>2, <2>3, <2>4, <2>5
  <2> QED
    BY ZenonT(40), <1>0, <2>2, <2>5, <2>6, <2>7, TokensKept
<1>5. ASSUME NEW device \in Peers, T!RevokeAllForDevice(device) PROVE TokensInv'
  <2>1. /\ tokens' = T!RevokedFor(device) /\ UNCHANGED <<enabled, tokensNow, granted, revokedIds>>
        /\ swept' = swept \cup {i \in 1 .. Len(tokens) : tokens[i].device = device}
    BY <1>0, <1>5 DEF T!RevokeAllForDevice
  <2>2. ASSUME NEW i \in 1 .. Len(tokens)
        PROVE  /\ tokens'[i] \in T!Tokens /\ tokens'[i].id = tokens[i].id
               /\ tokens'[i].expires = tokens[i].expires /\ tokens'[i].used = tokens[i].used
               /\ tokens[i].revoked \/ tokens[i].device = device => tokens'[i].revoked
    <3> DEFINE t == tokens[i]
    <3>1. t \in T!Tokens
      BY <1>0
    <3>2. tokens'[i] = IF t.device = device THEN [t EXCEPT !.revoked = TRUE] ELSE t
      <4>1. DOMAIN tokens = 1 .. Len(tokens)
        BY <1>0
      <4> QED
        BY ZenonT(40), <2>1, <4>1 DEF T!RevokedFor
    <3> HIDE DEF t
    <3>3. /\ tokens'[i] \in T!Tokens /\ tokens'[i].id = t.id
          /\ tokens'[i].expires = t.expires /\ tokens'[i].used = t.used
          /\ t.revoked \/ t.device = device => tokens'[i].revoked
      BY ZenonT(40), <3>1, <3>2 DEF T!Tokens
    <3> QED
      BY ZenonT(40), <3>3 DEF t
  <2>3. tokens' \in Seq(T!Tokens) /\ Len(tokens') = Len(tokens)
    <3>0. tokens' = [i \in 1 .. Len(tokens) |-> tokens'[i]]
      BY <1>0, <2>1 DEF T!RevokedFor
    <3>1. tokens' \in [1 .. Len(tokens) -> T!Tokens]
      BY <2>2, <3>0
    <3> QED
      BY <1>0, <3>1
  <2>4. \A i \in 1 .. Len(tokens) :
           /\ tokens'[i].id = tokens[i].id /\ tokens'[i].expires = tokens[i].expires
           /\ tokens[i].revoked => tokens'[i].revoked
           /\ tokens'[i].used = IF granted'[i] > LastUse THEN LastUse ELSE granted'[i]
    BY ZenonT(40), <1>0, <2>1, <2>2
  <2>5. swept' \subseteq 1 .. Len(tokens) /\ \A i \in swept' : i \in swept \/ tokens'[i].revoked
    BY ZenonT(40), <1>0, <2>1, <2>2
  <2> QED
    BY ZenonT(40), <1>0, <2>1, <2>3, <2>4, <2>5, TokensKept
<1>6. CASE T!Tick
  <2>1. tokensNow' \in 0 .. TokensEnd /\ tokensNow' = tokensNow + 1
    BY <1>6, AccessBounds DEF T!Tick, TokensInv, T!TokensTypeOK
  <2>2. \A i \in 1 .. Len(tokens) : tokens[i].expires \in Int
    BY <1>0, AccessBounds DEF T!Tokens
  <2>3. \A i \in 1 .. Len(tokens) : tokens[i].expires <= tokensNow' + TokenTtl
    BY <2>1, <2>2, AccessBounds DEF TokensInv, T!TokensTypeOK
  <2>4. UNCHANGED <<enabled, tokens, granted, revokedIds, swept>>
    BY ZenonT(40), <1>6 DEF T!Tick
  <2>5. T!TokensTypeOK'
    BY <2>1, <2>4 DEF TokensInv, T!TokensTypeOK
  <2>6. \A id \in revokedIds : \E i \in 1 .. Len(tokens) : Leads(i, id)' /\ tokens[i].revoked
    BY ZenonT(40), <2>4 DEF TokensInv, Leads
  <2> QED
    BY ZenonT(40), <2>3, <2>4, <2>5, <2>6 DEF TokensInv
<1>7. CASE UNCHANGED T!vars
  BY <1>7 DEF T!vars, TokensInv, T!TokensTypeOK, Leads
<1> QED
  BY <1>1, <1>2, <1>3, <1>4, <1>5, <1>6, <1>7 DEF T!Next

\* What a step may grant.
GrantsLawful == \A i \in DOMAIN tokens : T!GrantBounded(i) /\ T!GrantUnrevoked(i) /\ T!GrantInTime(i)

\* Only validate_token grants, and only what the record it finds allows.
LEMMA StepGrants == TokensInv /\ Finds /\ [T!Next]_T!vars => GrantsLawful
<1> SUFFICES ASSUME TokensInv, Finds, [T!Next]_T!vars PROVE GrantsLawful
  OBVIOUS
<1>0. /\ tokens \in Seq(T!Tokens) /\ granted \in Seq(Nat) /\ Len(granted) = Len(tokens)
      /\ DOMAIN tokens = 1 .. Len(tokens)
  BY DEF TokensInv, T!TokensTypeOK
<1> SUFFICES ASSUME NEW i \in 1 .. Len(tokens), granted'[i] # granted[i]
             PROVE  /\ tokens[i].max # Unlimited => granted'[i] <= tokens[i].max
                    /\ tokens[i].id \notin revokedIds /\ i \notin swept
                    /\ enabled /\ tokensNow < tokens[i].expires
                    /\ tokens[i].expires <= tokensNow + TokenTtl
  BY ZenonT(40), <1>0 DEF GrantsLawful, T!GrantBounded, T!GrantUnrevoked, T!GrantInTime, T!Grants
<1>1. ~ UNCHANGED granted
  OBVIOUS
<1>2. ~ (\E x : granted' = Append(granted, x))
  BY <1>0
<1>3. PICK id \in Attempts, secret \in Codes, device \in Peers, requested \in SUBSET {"View"} :
        T!ValidateToken(id, secret, device, requested)
  BY ZenonT(40), <1>1, <1>2 DEF T!Next, T!vars, T!SetUnattendedEnabled, T!IssueToken, T!RevokeToken,
     T!RevokeAllForDevice, T!Tick
<1> DEFINE k == T!First(id)
<1>4. Leads(k, id)
  BY <1>3, Finds DEF Finds, T!ValidateToken
<1>5. /\ granted' = [granted EXCEPT ![k] = T!SaturatingAdd(granted[k], 1, LastUse + 1)]
      /\ enabled /\ T!Usable(tokens[k], secret, device, requested)
  BY <1>0, <1>3, <1>4 DEF T!ValidateToken, Leads
<1> HIDE DEF k
<1>6. i = k /\ granted'[i] = T!SaturatingAdd(granted[i], 1, LastUse + 1)
  BY <1>0, <1>4, <1>5 DEF Leads
<1>7. tokens[i].max # Unlimited => granted'[i] <= tokens[i].max
  <2> SUFFICES ASSUME tokens[i].max # Unlimited PROVE granted'[i] <= tokens[i].max
    OBVIOUS
  <2>1. tokens[i].max \in 0 .. LastUse /\ tokens[i].used \in 0 .. LastUse /\ granted[i] \in Nat
    <3>1. tokens[i] \in T!Tokens /\ granted[i] \in Nat
      BY <1>0
    <3> QED
      BY ZenonT(40), <3>1, AccessBounds DEF T!Tokens
  <2>2. ~ (tokens[i].used >= tokens[i].max)
    BY <1>5, <1>6 DEF T!Usable, T!Spent
  <2>3. tokens[i].used = IF granted[i] > LastUse THEN LastUse ELSE granted[i]
    BY ZenonT(40) DEF TokensInv
  <2> QED
    BY <1>6, <2>1, <2>2, <2>3, AccessBounds DEF T!SaturatingAdd
<1>8. \A j \in 1 .. Len(tokens) : Leads(j, id) => j = k
  BY <1>4 DEF Leads
<1>9. tokens[i].id = id /\ ~tokens[i].revoked /\ tokensNow < tokens[i].expires
  BY <1>4, <1>5, <1>6 DEF Leads, T!Usable
<1> QED
  BY ZenonT(40), <1>5, <1>6, <1>7, <1>8, <1>9 DEF TokensInv

-------------------------------------------------------------------------------
(* What counting the pins and finding the first record rest on *)

Sets == INSTANCE FiniteSetTheorems

\* Removing a pin from the device's pins lowers their number by one.
LEMMA PinsAreCounted == PinsCounted
<1>1. \A S : Sets!IsFiniteSet(S) <=> IsFiniteSet(S)
  BY DEF Sets!IsFiniteSet, IsFiniteSet
<1>2. \A S : Sets!Cardinality(S) = Cardinality(S)
  BY DEF Sets!Cardinality, Cardinality
<1> SUFFICES ASSUME NEW S \in SUBSET Devices
             PROVE  /\ Cardinality(S) \in Nat
                    /\ \A d \in S : Cardinality(S \ {d}) = Cardinality(S) - 1
  BY ZenonT(40) DEF PinsCounted
<1>3. Sets!IsFiniteSet(S)
  BY ZenonT(40), <1>1, BoundsAssumption, Sets!FS_Subset
<1> QED
  BY ZenonT(40), <1>2, <1>3, Sets!FS_CardinalityType, Sets!FS_RemoveElement

\* A set of naturals has a least element.
LEMMA Least ==
  ASSUME NEW M \in SUBSET Nat, M # {}
  PROVE  \E x \in M : \A y \in M : x <= y
<1>1. \E x \in M : \A y \in M : ~ (<<y, x>> \in Sets!OpToRel(<, Nat))
  BY ZenonT(40), Sets!NatLessThanWellFounded, Sets!WFMin
<1>2. \A x, y \in Nat : ~ (<<y, x>> \in Sets!OpToRel(<, Nat)) => x <= y
  BY DEF Sets!OpToRel
<1> QED
  BY ZenonT(40), <1>1, <1>2

\* A lookup finds a record when there is one (the scans of validate_token, revoke_token).
LEMMA ScansFind == TokensInv => Finds
<1> SUFFICES ASSUME TokensInv, NEW id \in Attempts, T!Matching(id) # {}
             PROVE  Leads(T!First(id), id)
  BY DEF Finds
<1>1. T!Matching(id) \in SUBSET Nat
  BY DEF TokensInv, T!TokensTypeOK, T!Matching
<1>2. \E i \in T!Matching(id) : \A j \in T!Matching(id) : i <= j
  BY <1>1, Least
<1>3. /\ T!First(id) \in T!Matching(id)
      /\ \A j \in T!Matching(id) : T!First(id) <= j
  BY <1>2 DEF T!First
<1> QED
  BY <1>3 DEF T!Matching, Leads

\* Every step keeps the whole invariant.
LEMMA StepIInv == IInv /\ [Next]_vars => IInv'
BY StepTypeOK, StepConsistent, PinsAreCounted, StepCanPin, StepFresh DEF IInv

\* The state invariants of HostAccess hold of every behaviour.
THEOREM Invariance == Spec => []IInv
BY InitIInv, StepIInv, PTL DEF Spec

\* OneGrantPerEpoch, for any bounds: an authorization epoch carries one grant for ever.
THEOREM GrantsAreUnique == Spec => []OneGrantPerEpoch
BY Invariance, PTL DEF IInv

\* The grant in force and the waiting request name the live connection of a pinned device.
THEOREM GrantsAreConnected == Spec => []GrantNamesConnection
BY Invariance, PTL DEF IInv

\* No pairing is ever under way beside a connection, a request or a grant, and the
\* device being paired can always be pinned.
THEOREM PairingIsAlone == Spec => [](PairingExcludesSession /\ ApprovalCanPin)
BY Invariance, PTL DEF IInv

\* A grant that is_authorized accepts has not reached its deadline and belongs to a
\* device that is still pinned.
THEOREM AuthorizationIsLive == Spec => []AuthorizedIsLive
BY AcceptedIsLive, Invariance, PTL

\* A grant dropped by expiry, replacement or revocation is never in force again.
THEOREM RevocationIsFinal == Spec => RevokedForEver
BY StepRevoked, Invariance, PTL DEF Spec, RevokedForEver

\* For any tokens, and however identifiers repeat, devices are revoked and time passes:
\* a session is granted only within the limit and the lifetime of a token that is not
\* revoked (validate_token).
THEOREM TokensGrant == T!Spec => [][GrantsLawful]_T!vars
<1>1. TokensInv /\ [T!Next]_T!vars => [GrantsLawful]_T!vars
  BY StepGrants, ScansFind
<1> QED
  BY <1>1, InitTokens, StepTokens, ScansFind, PTL DEF T!Spec

-------------------------------------------------------------------------------
(* The parts together *)

\* Each part moves by its own steps while the others rest.
LEMMA EachPartMoves ==
  ASSUME [AccessNext]_<<part, vars, pairingVars, tokensVars, disconnectVars>>
  PROVE  /\ [Next]_vars /\ [P!Next]_P!vars /\ [T!Next]_T!vars /\ [D!Next]_D!vars
<1>1. /\ UNCHANGED pairingVars => UNCHANGED P!vars
      /\ UNCHANGED tokensVars => UNCHANGED T!vars
      /\ UNCHANGED disconnectVars => UNCHANGED D!vars
  BY DEF pairingVars, tokensVars, disconnectVars, P!vars, T!vars, D!vars
<1> QED
  BY <1>1 DEF AccessNext

\* With every part at work, and for any bounds: at most MaxAttempts wrong codes are tried
\* against one pairing attempt (confirm_peer).
THEOREM GuessesAreBounded == AccessSpec => []GuessesBounded
<1> DEFINE v == <<part, vars, pairingVars, tokensVars, disconnectVars>>
<1>1. AccessInit => PairingInv
  BY InitPairing DEF AccessInit
<1>2. PairingInv /\ [AccessNext]_v => PairingInv'
  BY StepPairing, EachPartMoves
<1>3. PairingInv => GuessesBounded
  BY DEF PairingInv, GuessesBounded
<1> QED
  BY <1>1, <1>2, <1>3, PTL DEF AccessSpec

\* With every part at work: each pin was consented to, each accepted session earned, and a
\* finished attempt stays as it is (approve_pairing; begin, progress_or_accept).
THEOREM PinsAreEarned == AccessSpec => PinsEarned
<1> DEFINE v == <<part, vars, pairingVars, tokensVars, disconnectVars>>
           A == /\ PinIsApproved
                /\ \A a \in Attempts : P!EarnedSession(a) /\ P!Final(a)
                /\ \A x \in Aliases : P!PinByConsent(x)
<1>1. AccessInit => IInv /\ PairingInv
  BY InitIInv, InitPairing DEF AccessInit
<1>2. IInv /\ PairingInv /\ [AccessNext]_v => IInv' /\ PairingInv'
  BY StepIInv, StepPairing, EachPartMoves
<1>3. IInv /\ PairingInv /\ [AccessNext]_v => [A]_<<vars, pairingVars>>
  <2> SUFFICES ASSUME IInv, PairingInv, [AccessNext]_v PROVE A
    OBVIOUS
  <2>1. PinIsApproved
    BY StepApproves, EachPartMoves
  <2>2. Earned
    BY StepEarned, EachPartMoves
  <2> QED
    BY <2>1, <2>2 DEF Earned
<1> QED
  BY <1>1, <1>2, <1>3, PTL DEF AccessSpec, PinsEarned

\* With every part at work: each session a token grants is within its limits and was not
\* revoked, and a session that ended stays ended (validate_token, handle_remote_disconnect).
THEOREM SessionsAreLawful == AccessSpec => SessionsLawful
<1> DEFINE v == <<part, vars, pairingVars, tokensVars, disconnectVars>>
           A == /\ \A i \in DOMAIN tokens : T!GrantBounded(i) /\ T!GrantUnrevoked(i) /\ T!GrantInTime(i)
                /\ D!RemoteCloseMeant'
                /\ \A e \in Attempts : D!StaysClosed(e)
<1>1. AccessInit => TokensInv /\ DisconnectInv
  BY InitTokens, InitDisconnect DEF AccessInit
<1>2. TokensInv /\ DisconnectInv /\ [AccessNext]_v => TokensInv' /\ DisconnectInv'
  BY StepTokens, ScansFind, StepDisconnect, EachPartMoves
<1>3. TokensInv /\ DisconnectInv /\ DisconnectInv' /\ [AccessNext]_v => [A]_<<tokensVars, disconnectVars>>
  <2> SUFFICES ASSUME TokensInv, DisconnectInv, DisconnectInv', [AccessNext]_v PROVE A
    OBVIOUS
  <2>1. GrantsLawful /\ \A e \in Attempts : D!StaysClosed(e)
    BY StepGrants, ScansFind, StepCloses, EachPartMoves
  <2>2. D!RemoteCloseMeant'
    BY MeantIsClosed, PTL
  <2> QED
    BY <2>1, <2>2 DEF GrantsLawful
<1> QED
  BY <1>1, <1>2, <1>3, PTL DEF AccessSpec, SessionsLawful
===============================================================================
