--------------------------- MODULE RouteTransition ---------------------------
(***************************************************************************)
(* RouteTransitionController (crates/session/src/route_transition.rs): one  *)
(* peer's two-phase promotion of a verified candidate route, with a bounded *)
(* window in which the previous route may be restored.                      *)
(*                                                                         *)
(* A proof is [complete, digest]: complete when nomination, exact mTLS,     *)
(* transcript and consent all hold.  The counters and the clock are 64 bits *)
(* wide in the code, which refuses to overflow them; here their largest     *)
(* values are constants.                                                    *)
(***************************************************************************)
EXTENDS Integers, TLAPS

CONSTANTS Paths, InvalidPaths,    \* valid_path separates them
          Digests,                \* transcripts of authenticated connections
          PrepareTimeout, StabilityWindow,
          LastEpoch, LastSequence, LastTime

ASSUME TransitionAssumption ==
  /\ Paths # {} /\ Paths \cap InvalidPaths = {} /\ Digests # {}
  /\ PrepareTimeout \in Nat \ {0} /\ StabilityWindow \in Nat \ {0}
  /\ LastEpoch \in Nat \ {0} /\ LastSequence \in Nat /\ LastTime \in Nat

VARIABLES
  epoch,       \* stamp.route_epoch
  active,      \* the route of the application
  digest,      \* active_transcript_digest
  authority,   \* active_authority
  sequence,    \* next_sequence: the last one issued
  state,       \* TransitionState: [kind, token, previous, previousDigest, stableAt]
  now,
  issued,      \* history: tokens handed out
  verified,    \* history: <<route, digest>> pairs presented with a complete proof
  lifetimes    \* history: <<epoch, route>> pairs the application was accepted on

controller == <<epoch, active, digest, authority, sequence, state>>
vars == <<controller, now, issued, verified, lifetimes>>

Candidates == Paths \cup InvalidPaths
Proofs == [complete : BOOLEAN, digest : Digests]
Tokens == [sequence : 1 .. LastSequence, base : 1 .. LastEpoch, route : Paths,
           digest : Digests, expires : 0 .. LastTime]

States ==
  {[kind |-> "Stable"]}
  \cup [kind : {"Probing", "Prepared"}, token : Tokens, previous : Paths]
  \cup [kind : {"Committed"}, token : Tokens, previous : Paths, previousDigest : Digests,
        stableAt : 0 .. LastTime]

Stable == state.kind = "Stable"
Pending == state.kind \in {"Probing", "Prepared"}
Committed == state.kind = "Committed"

Init ==
  /\ epoch = 1
  /\ active \in Paths
  /\ digest \in Digests
  /\ authority = TRUE
  /\ sequence = 0
  /\ state = [kind |-> "Stable"]
  /\ now = 0
  /\ issued = {}
  /\ verified = {<<active, digest>>}
  /\ lifetimes = {<<epoch, active>>}

\* accepts_application_route in the next state, remembered
Remember == lifetimes' = IF authority' THEN lifetimes \cup {<<epoch', active'>>} ELSE lifetimes

Token(route, d) ==
  [sequence |-> sequence + 1, base |-> epoch, route |-> route, digest |-> d,
   expires |-> now + PrepareTimeout]

Issue(t) ==
  /\ sequence' = t.sequence
  /\ state' = [kind |-> "Probing", token |-> t, previous |-> active]
  /\ issued' = issued \cup {t}

Issuable == sequence < LastSequence /\ now + PrepareTimeout <= LastTime

\* Faulty: the proof of the candidate is not looked at.
BeginUnverified(candidate, proof) ==
  /\ authority /\ Stable
  /\ candidate # active /\ candidate \in Paths
  /\ Issuable
  /\ Issue(Token(candidate, proof.digest))
  /\ verified' = IF proof.complete THEN verified \cup {<<candidate, proof.digest>>} ELSE verified
  /\ UNCHANGED <<epoch, active, digest, authority, now>>
  /\ Remember

\* begin; every refusal leaves the controller alone.
Begin(candidate, proof) ==
  /\ authority /\ Stable
  /\ candidate # active /\ candidate \in Paths
  /\ proof.complete
  /\ Issuable
  /\ Issue(Token(candidate, proof.digest))
  /\ verified' = verified \cup {<<candidate, proof.digest>>}
  /\ UNCHANGED <<epoch, active, digest, authority, now>>
  /\ Remember

\* A token that is current but late returns the controller to Stable.
Expire(kind, t) ==
  /\ state.kind = kind /\ t = state.token /\ now >= t.expires
  /\ state' = [kind |-> "Stable"]
  /\ UNCHANGED <<epoch, active, digest, authority, sequence, now, issued, verified>>
  /\ Remember

\* peer_prepared
PeerPrepared(t) ==
  \/ Expire("Probing", t)
  \/ /\ state.kind = "Probing" /\ t = state.token /\ now < t.expires
     /\ state' = [state EXCEPT !.kind = "Prepared"]
     /\ UNCHANGED <<epoch, active, digest, authority, sequence, now, issued, verified>>
     /\ Remember

\* Faulty: a commit does not advance the epoch.
SwitchSameEpoch(t) ==
  /\ UNCHANGED epoch
  /\ active' = t.route
  /\ digest' = t.digest
  /\ authority' = TRUE
  /\ state' = [kind |-> "Committed", token |-> t, previous |-> state.previous,
               previousDigest |-> digest, stableAt |-> now + StabilityWindow]

Switch(t) ==
  /\ epoch' = epoch + 1
  /\ active' = t.route
  /\ digest' = t.digest
  /\ authority' = TRUE
  /\ state' = [kind |-> "Committed", token |-> t, previous |-> state.previous,
               previousDigest |-> digest, stableAt |-> now + StabilityWindow]

\* commit; a deadline or an epoch out of range leaves the token prepared.
Commit(t) ==
  \/ Expire("Prepared", t)
  \/ /\ state.kind = "Prepared" /\ t = state.token /\ now < t.expires
     /\ now + StabilityWindow <= LastTime /\ epoch < LastEpoch
     /\ Switch(t)
     /\ UNCHANGED <<sequence, now, issued, verified>>
     /\ Remember

-----------------------------------------------------------------------------
Revoke ==
  /\ authority' = FALSE
  /\ state' = [kind |-> "Stable"]
  /\ UNCHANGED <<sequence, issued>>

\* begin_verified_rollback: the rollback is a promotion of the previous route,
\* without authority until it commits.
Rollback ==
  \/ epoch = LastEpoch /\ Revoke
  \/ /\ epoch < LastEpoch /\ Issuable
     /\ authority' = FALSE
     /\ Issue(Token(state.previous, state.previousDigest))
  \/ epoch < LastEpoch /\ ~Issuable /\ UNCHANGED <<authority, sequence, state, issued>>

Proves(proof, d) == proof.complete /\ proof.digest = d

\* settle_committed
Settle(candidateProof, previousProof) ==
  IF Proves(candidateProof, state.token.digest)
  THEN /\ authority' = TRUE
       /\ state' = [kind |-> "Stable"]
       /\ UNCHANGED <<sequence, issued>>
  ELSE IF Proves(previousProof, state.previousDigest) THEN Rollback ELSE Revoke

\* note_healthy with the sequence of the committed token; before the deadline
\* it changes nothing.
NoteHealthy(candidateProof, previousProof) ==
  /\ Committed /\ now >= state.stableAt
  /\ Settle(candidateProof, previousProof)
  /\ UNCHANGED <<epoch, active, digest, now, verified>>
  /\ Remember

\* note_unhealthy with the sequence of the committed token
NoteUnhealthy(previousProof) ==
  /\ Committed
  /\ IF Proves(previousProof, state.previousDigest) THEN Rollback ELSE Revoke
  /\ UNCHANGED <<epoch, active, digest, now, verified>>
  /\ Remember

\* tick
TickController(candidateProof, previousProof) ==
  /\ \/ /\ Pending /\ now >= state.token.expires
        /\ state' = [kind |-> "Stable"]
        /\ UNCHANGED <<authority, sequence, issued>>
     \/ /\ Committed /\ now >= state.stableAt
        /\ Settle(candidateProof, previousProof)
  /\ UNCHANGED <<epoch, active, digest, now, verified>>
  /\ Remember

Clock ==
  /\ now < LastTime
  /\ now' = now + 1
  /\ UNCHANGED <<controller, issued, verified, lifetimes>>

AnyTick == \E cp, pp \in Proofs : TickController(cp, pp)

Next ==
  \/ \E candidate \in Candidates, proof \in Proofs : Begin(candidate, proof)
  \/ \E t \in issued : PeerPrepared(t) \/ Commit(t)
  \/ \E cp, pp \in Proofs : NoteHealthy(cp, pp)
  \/ \E pp \in Proofs : NoteUnhealthy(pp)
  \/ AnyTick
  \/ Clock

Spec == Init /\ [][Next]_vars

-----------------------------------------------------------------------------
TransitionTypeOK ==
  /\ epoch \in 1 .. LastEpoch /\ active \in Paths /\ digest \in Digests
  /\ authority \in BOOLEAN /\ sequence \in 0 .. LastSequence
  /\ state \in States /\ now \in 0 .. LastTime
  /\ issued \subseteq Tokens /\ verified \subseteq Paths \X Digests

\* A route epoch names one route for ever: returning to a path takes a new
\* epoch, so that packets of its earlier lifetime stay stale.
EpochNamesRoute == \A l, m \in lifetimes : l[1] = m[1] => l[2] = m[2]

\* The token a transition waits for is the newest one and belongs to the current
\* epoch: no token handed out before it can be prepared or committed.
CurrentToken ==
  /\ \A t \in issued : t.sequence <= sequence
  /\ \A t, u \in issued : t.sequence = u.sequence => t = u
  /\ ~Stable => state.token \in issued /\ state.token.sequence = sequence
  /\ Pending => state.token.base = epoch
  /\ Committed => state.token.base + 1 = epoch

\* The active route, and with it the epoch, change only when the peer has
\* prepared the very route that becomes active.
ActiveByCommit ==
  active' # active \/ epoch' # epoch =>
    /\ state.kind = "Prepared"
    /\ epoch' = epoch + 1 /\ active' = state.token.route /\ now < state.token.expires

\* Lost authority comes back only through a commit, in a newer epoch.
RegainedByCommit == ~authority /\ authority' => epoch' = epoch + 1

\* With neither route verified the controller refuses every new transition.
StaysRevoked == Stable /\ ~authority => UNCHANGED controller

\* The three together: what a step of the controller may do to the route.
ActiveUntilCommit == [][ActiveByCommit /\ RegainedByCommit /\ StaysRevoked]_vars

\* The application is only ever on a route whose complete proof, for the very
\* connection in use, was presented when its promotion began.
ActiveVerified == authority => <<active, digest>> \in verified

\* Why it is so: every epoch but the current one is past, a pending promotion leaves
\* from the active route to a verified one, and a committed one, which has authority,
\* can return only to a verified one.
Ledger ==
  /\ \A l \in lifetimes : l[1] \in Nat /\ l[1] <= epoch /\ (l[1] = epoch => l[2] = active)
  /\ <<active, digest>> \in verified
  /\ Pending => state.previous = active /\ <<state.token.route, state.token.digest>> \in verified
  /\ Committed => authority /\ <<state.previous, state.previousDigest>> \in verified

\* What the controller's state says of the tokens and proofs it was given.
TransitionInv ==
  TransitionTypeOK /\ EpochNamesRoute /\ CurrentToken /\ ActiveVerified /\ Ledger

-----------------------------------------------------------------------------
(* Proofs, for any sets of paths and transcripts and any bounds *)

USE DEF Stable, Pending, Committed

USE SMTT(40)

\* The initial controller serves its first route in epoch one (new).
LEMMA InitTransitionInv == Init => TransitionInv
<1> SUFFICES ASSUME Init PROVE TransitionInv
  OBVIOUS
<1>1. state \in States /\ authority \in BOOLEAN
  BY DEF Init, States
<1>2. TransitionTypeOK
  BY <1>1, TransitionAssumption DEF Init, TransitionTypeOK
<1>3. EpochNamesRoute /\ CurrentToken /\ ActiveVerified /\ Ledger
  BY DEF Init, EpochNamesRoute, CurrentToken, ActiveVerified, Ledger
<1> QED
  BY <1>2, <1>3 DEF TransitionInv

\* A token that may be issued is well formed (begin, begin_verified_rollback).
LEMMA TokenType ==
  ASSUME TransitionTypeOK, Issuable, NEW route \in Paths, NEW d \in Digests
  PROVE  Token(route, d) \in Tokens
BY TransitionAssumption DEF TransitionTypeOK, Issuable, Token, Tokens

\* Handing out a token while the route stays (begin, begin_verified_rollback).
LEMMA IssueKeeps ==
  ASSUME TransitionInv, Issuable, NEW route \in Paths, NEW d \in Digests,
         Issue(Token(route, d)),
         authority' \in BOOLEAN, verified \subseteq verified', verified' \subseteq Paths \X Digests,
         <<route, d>> \in verified', UNCHANGED <<epoch, active, digest, now>>, Remember
  PROVE  TransitionInv'
<1> USE DEF TransitionInv
<1> DEFINE t == Token(route, d)
<1>1. /\ t \in Tokens /\ t.sequence = sequence + 1 /\ t.base = epoch
      /\ t.route = route /\ t.digest = d
  BY TokenType DEF Token
<1> HIDE DEF t
<1>2. /\ sequence' = sequence + 1 /\ issued' = issued \cup {t}
      /\ state' = [kind |-> "Probing", token |-> t, previous |-> active]
  BY <1>1 DEF Issue, t
<1>3. /\ state' \in States /\ state'.kind = "Probing" /\ state'.token = t
      /\ state'.previous = active
  BY <1>1, <1>2 DEF States, TransitionTypeOK
<1>4. sequence' \in 0 .. LastSequence
  BY <1>2, TransitionAssumption DEF Issuable, TransitionTypeOK
<1>5. TransitionTypeOK'
  BY <1>1, <1>2, <1>3, <1>4 DEF TransitionTypeOK
<1>6. CurrentToken'
  BY <1>1, <1>2, <1>3 DEF CurrentToken, TransitionTypeOK, Tokens
<1>7. Ledger' /\ EpochNamesRoute'
  BY <1>1, <1>3 DEF Ledger, Remember, EpochNamesRoute, TransitionTypeOK
<1>8. ActiveVerified'
  BY <1>7 DEF Ledger, ActiveVerified
<1> QED
  BY <1>5, <1>6, <1>7, <1>8

\* Returning to Stable while the route stays (expiry, settle_committed, revocation).
LEMMA StableKeeps ==
  ASSUME TransitionInv, state' = [kind |-> "Stable"], authority' \in BOOLEAN,
         UNCHANGED <<epoch, active, digest, sequence, now, issued, verified>>, Remember
  PROVE  TransitionInv'
<1> USE DEF TransitionInv
<1>1. state' \in States /\ state'.kind = "Stable"
  BY DEF States
<1>2. TransitionTypeOK' /\ CurrentToken'
  BY <1>1 DEF TransitionTypeOK, CurrentToken
<1>3. Ledger' /\ EpochNamesRoute'
  BY <1>1 DEF Ledger, Remember, EpochNamesRoute, TransitionTypeOK
<1>4. ActiveVerified'
  BY <1>3 DEF Ledger, ActiveVerified
<1> QED
  BY <1>2, <1>3, <1>4

\* A rollback leaves the route as it is (begin_verified_rollback).
LEMMA RollbackKeeps ==
  ASSUME TransitionInv, Committed, Rollback, UNCHANGED <<epoch, active, digest, now, verified>>,
         Remember
  PROVE  TransitionInv'
<1> USE DEF TransitionInv
<1>1. CASE epoch = LastEpoch /\ Revoke
  BY ZenonT(40), <1>1, StableKeeps DEF Revoke
<1>2. CASE /\ epoch < LastEpoch /\ Issuable /\ authority' = FALSE
           /\ Issue(Token(state.previous, state.previousDigest))
  <2>1. state.previous \in Paths /\ state.previousDigest \in Digests
    BY DEF TransitionTypeOK, States
  <2>2. <<state.previous, state.previousDigest>> \in verified
    BY DEF Ledger
  <2>3. verified' = verified /\ verified \subseteq Paths \X Digests /\ authority' \in BOOLEAN
    BY ZenonT(40), <1>2 DEF TransitionTypeOK
  <2> QED
    BY <1>2, <2>1, <2>2, <2>3, IssueKeeps
<1>3. CASE UNCHANGED <<authority, sequence, state, issued>>
  BY <1>3 DEF TransitionTypeOK, EpochNamesRoute, CurrentToken, ActiveVerified, Ledger, Remember
<1> QED
  BY ZenonT(40), <1>1, <1>2, <1>3 DEF Rollback

\* Settling a committed transition leaves the route as it is (settle_committed).
LEMMA SettleKeeps ==
  ASSUME TransitionInv, Committed, NEW cp, NEW pp, Settle(cp, pp),
         UNCHANGED <<epoch, active, digest, now, verified>>, Remember
  PROVE  TransitionInv'
<1>1. CASE Proves(cp, state.token.digest)
  BY <1>1, StableKeeps DEF Settle
<1>2. CASE ~Proves(cp, state.token.digest) /\ Proves(pp, state.previousDigest)
  BY <1>2, RollbackKeeps DEF Settle
<1>3. CASE ~Proves(cp, state.token.digest) /\ ~Proves(pp, state.previousDigest)
  BY ZenonT(40), <1>3, StableKeeps DEF Settle, Revoke
<1> QED
  BY <1>1, <1>2, <1>3

\* Committing moves to the verified route of the token, in a new epoch (commit).
LEMMA SwitchKeeps ==
  ASSUME TransitionInv, state.kind = "Prepared", epoch < LastEpoch,
         now + StabilityWindow <= LastTime, Switch(state.token),
         UNCHANGED <<sequence, now, issued, verified>>, Remember
  PROVE  TransitionInv'
<1> USE DEF TransitionInv
<1> DEFINE t == state.token
<1>1. /\ t \in Tokens /\ t.route \in Paths /\ t.digest \in Digests
      /\ state.previous = active /\ t.base = epoch /\ t \in issued /\ t.sequence = sequence
      /\ <<t.route, t.digest>> \in verified
  BY DEF TransitionTypeOK, States, Tokens, Ledger, CurrentToken
<1>2. /\ epoch' = epoch + 1 /\ active' = t.route /\ digest' = t.digest /\ authority' = TRUE
      /\ state' = [kind |-> "Committed", token |-> t, previous |-> active,
                   previousDigest |-> digest, stableAt |-> now + StabilityWindow]
  BY <1>1 DEF Switch
<1> HIDE DEF t
<1>3. now + StabilityWindow \in 0 .. LastTime /\ epoch + 1 \in 1 .. LastEpoch
  BY TransitionAssumption DEF TransitionTypeOK
<1>4. /\ state' \in States /\ state'.kind = "Committed" /\ state'.token = t
      /\ state'.previous = active /\ state'.previousDigest = digest
  BY <1>1, <1>2, <1>3 DEF States, TransitionTypeOK
<1>5. authority' \in BOOLEAN
  BY <1>2
<1>6. TransitionTypeOK'
  BY <1>1, <1>2, <1>3, <1>4, <1>5 DEF TransitionTypeOK
<1>7. CurrentToken'
  BY <1>1, <1>2, <1>4 DEF CurrentToken
<1>8. lifetimes' = lifetimes \cup {<<epoch', active'>>}
  BY <1>2 DEF Remember
<1>9. Ledger'
  BY <1>1, <1>2, <1>4, <1>8 DEF Ledger, TransitionTypeOK
<1>10. EpochNamesRoute'
  BY <1>2, <1>8 DEF Ledger, EpochNamesRoute, TransitionTypeOK
<1>11. ActiveVerified'
  BY <1>9 DEF Ledger, ActiveVerified
<1> QED
  BY <1>6, <1>7, <1>9, <1>10, <1>11

\* Every call of the controller, and the passage of time, preserves its invariant.
THEOREM TransitionInductive == TransitionInv /\ [Next]_vars => TransitionInv'
<1> SUFFICES ASSUME TransitionInv, [Next]_vars PROVE TransitionInv'
  OBVIOUS
<1>1. ASSUME NEW candidate \in Candidates, NEW proof \in Proofs, Begin(candidate, proof)
      PROVE  TransitionInv'
  <2>1. candidate \in Paths /\ proof.digest \in Digests
    BY <1>1 DEF Begin, Proofs
  <2>2. verified' = verified \cup {<<candidate, proof.digest>>} /\ authority' \in BOOLEAN
    BY <1>1 DEF Begin, TransitionInv, TransitionTypeOK
  <2>3. verified' \subseteq Paths \X Digests
    BY <2>1, <2>2 DEF TransitionInv, TransitionTypeOK
  <2> QED
    BY ZenonT(40), <1>1, <2>1, <2>2, <2>3, IssueKeeps DEF Begin
<1>2. ASSUME NEW kind, NEW t, Expire(kind, t) PROVE TransitionInv'
  BY <1>2, StableKeeps DEF Expire, TransitionInv, TransitionTypeOK
<1>3. ASSUME NEW t \in issued, PeerPrepared(t) PROVE TransitionInv'
  <2>1. CASE Expire("Probing", t)
    BY <1>2, <2>1
  <2>2. CASE /\ state.kind = "Probing" /\ state' = [state EXCEPT !.kind = "Prepared"]
             /\ UNCHANGED <<epoch, active, digest, authority, sequence, now, issued, verified>>
             /\ Remember
    <3>1. /\ state' \in States /\ state'.kind = "Prepared" /\ state'.token = state.token
          /\ state'.previous = state.previous
      BY <2>2 DEF TransitionInv, TransitionTypeOK, States
    <3>2. TransitionTypeOK' /\ CurrentToken'
      BY <2>2, <3>1 DEF TransitionInv, TransitionTypeOK, CurrentToken
    <3>3. Ledger' /\ EpochNamesRoute' /\ ActiveVerified'
      BY <2>2, <3>1 DEF TransitionInv, TransitionTypeOK, Ledger, Remember, EpochNamesRoute,
         ActiveVerified
    <3> QED
      BY <3>2, <3>3 DEF TransitionInv
  <2> QED
    BY <1>3, <2>1, <2>2 DEF PeerPrepared
<1>4. ASSUME NEW t \in issued, Commit(t) PROVE TransitionInv'
  BY <1>2, <1>4, SwitchKeeps DEF Commit
<1>5. ASSUME NEW cp \in Proofs, NEW pp \in Proofs, NoteHealthy(cp, pp) PROVE TransitionInv'
  BY <1>5, SettleKeeps DEF NoteHealthy
<1>6. ASSUME NEW pp \in Proofs, NoteUnhealthy(pp) PROVE TransitionInv'
  <2>1. CASE Proves(pp, state.previousDigest)
    BY <1>6, <2>1, RollbackKeeps DEF NoteUnhealthy
  <2>2. CASE ~Proves(pp, state.previousDigest)
    BY ZenonT(40), <1>6, <2>2, StableKeeps DEF NoteUnhealthy, Revoke
  <2> QED
    BY <2>1, <2>2
<1>7. ASSUME NEW cp \in Proofs, NEW pp \in Proofs, TickController(cp, pp)
      PROVE  TransitionInv'
  <2>1. CASE Committed /\ Settle(cp, pp)
    BY <1>7, <2>1, SettleKeeps DEF TickController
  <2>2. CASE state' = [kind |-> "Stable"] /\ UNCHANGED <<authority, sequence, issued>>
    BY <1>7, <2>2, StableKeeps DEF TickController, TransitionInv, TransitionTypeOK
  <2> QED
    BY <1>7, <2>1, <2>2 DEF TickController
<1>8. CASE Clock
  <2>1. now' \in 0 .. LastTime
    BY <1>8, TransitionAssumption DEF Clock, TransitionInv, TransitionTypeOK
  <2> QED
    BY <1>8, <2>1 DEF Clock, controller, TransitionInv, TransitionTypeOK, EpochNamesRoute,
       CurrentToken, ActiveVerified, Ledger
<1>9. CASE UNCHANGED vars
  BY <1>9 DEF vars, controller, TransitionInv, TransitionTypeOK, EpochNamesRoute, CurrentToken,
     ActiveVerified, Ledger
<1> QED
  BY <1>1, <1>3, <1>4, <1>5, <1>6, <1>7, <1>8, <1>9 DEF Next, AnyTick

\* For any paths, transcripts and bounds: an epoch names one route for ever, only the
\* newest token can be prepared or committed, and the application is on a route verified
\* for the very connection in use (RouteTransitionController).
THEOREM TransitionSafe == Spec => []TransitionInv
<1> QED
  BY InitTransitionInv, TransitionInductive, PTL DEF Spec

\* What one step may do to the active route, its epoch and the authority.
LEMMA StepActiveUntilCommit ==
  TransitionInv /\ [Next]_vars => [ActiveByCommit /\ RegainedByCommit /\ StaysRevoked]_vars
<1> SUFFICES ASSUME TransitionInv, Next
             PROVE  ActiveByCommit /\ RegainedByCommit /\ StaysRevoked
  OBVIOUS
<1> USE DEF ActiveByCommit, RegainedByCommit, StaysRevoked, controller
<1>0. Committed => authority
  BY DEF TransitionInv, Ledger
<1>1. ASSUME NEW candidate \in Candidates, NEW proof \in Proofs, Begin(candidate, proof)
      PROVE  ActiveByCommit /\ RegainedByCommit /\ StaysRevoked
  BY <1>1 DEF Begin
<1>2. ASSUME NEW t \in issued, PeerPrepared(t) \/ Expire("Prepared", t)
      PROVE  ActiveByCommit /\ RegainedByCommit /\ StaysRevoked
  BY <1>2 DEF PeerPrepared, Expire
<1>3. ASSUME NEW t \in issued, Commit(t)
      PROVE  ActiveByCommit /\ RegainedByCommit /\ StaysRevoked
  BY <1>2, <1>3 DEF Commit, Switch
<1>4. CASE UNCHANGED <<epoch, active>> /\ Committed
  BY <1>0, <1>4
<1>5. ASSUME NEW cp \in Proofs, NEW pp \in Proofs,
             NoteHealthy(cp, pp) \/ NoteUnhealthy(pp) \/ TickController(cp, pp)
      PROVE  ActiveByCommit /\ RegainedByCommit /\ StaysRevoked
  BY <1>4, <1>5 DEF NoteHealthy, NoteUnhealthy, TickController
<1>6. CASE Clock
  BY <1>6 DEF Clock
<1> QED
  BY <1>1, <1>2, <1>3, <1>5, <1>6 DEF Next, AnyTick

\* For any paths, transcripts and bounds: the route and its epoch change only by a commit
\* in time of the prepared token, lost authority returns only in a newer epoch, and a
\* revoked controller never moves again (commit, settle_committed, tick).
THEOREM ActiveUntilCommitHolds == Spec => ActiveUntilCommit
<1> QED
  BY TransitionSafe, StepActiveUntilCommit, PTL DEF Spec, ActiveUntilCommit
=============================================================================
