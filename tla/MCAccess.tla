------------------------------ MODULE MCAccess ------------------------------
(***************************************************************************)
(* Who may use the Host, and for how long: the access authority, pairing by  *)
(* short code, unattended tokens and the end of a session.  They share no    *)
(* state, so a behaviour exercises one of them and leaves the others at      *)
(* rest.                                                                    *)
(***************************************************************************)
EXTENDS HostAccess, Sequences, TLC

CONSTANTS
  Attempts, Peers, Codes, NoPin, Aliases,
  MaxGuesses, PairingTtl, PairingEnd,                            \* of Pairing
  Unlimited, MaxTokens, TokenTtl, SessionLimits, LastUse, TokensEnd,   \* of UnattendedTokens
  MaxSession, DrainTimeout, DisconnectEnd                        \* of Disconnect

ASSUME AccessBounds ==
  /\ MaxGuesses \in Nat \ {0} /\ PairingTtl \in Nat /\ PairingEnd \in Nat
  /\ MaxTokens \in Nat /\ TokenTtl \in Nat /\ LastUse \in Nat /\ TokensEnd \in Nat
  /\ SessionLimits \subseteq 0 .. LastUse
  /\ MaxSession \in Nat \ {0} /\ DrainTimeout \in Nat /\ DisconnectEnd \in Nat

VARIABLES
  part,                                                          \* the component that moves
  attempt, pins, pairingNow, wrong,
  enabled, tokens, tokensNow, granted, revokedIds, swept,
  controller, undrained, wires, disconnectNow, cause

pairingVars == <<attempt, pins, pairingNow, wrong>>
tokensVars == <<enabled, tokens, tokensNow, granted, revokedIds, swept>>
disconnectVars == <<controller, undrained, wires, disconnectNow, cause>>

P == INSTANCE Pairing WITH
       now <- pairingNow, MaxAttempts <- MaxGuesses, MaxTtl <- PairingTtl, LastTime <- PairingEnd

T == INSTANCE UnattendedTokens WITH
       now <- tokensNow, Ids <- Attempts, Devices <- Peers, Secrets <- Codes, Capabilities <- {"View"},
       MaxTtl <- TokenTtl, LastTime <- TokensEnd

D == INSTANCE Disconnect WITH
       now <- disconnectNow, Ends <- Attempts, pending <- undrained, LastTime <- DisconnectEnd

Parts == {"access", "pairing", "tokens", "disconnect"}

AccessInit ==
  /\ part \in Parts
  /\ Init /\ P!Init /\ T!Init /\ D!Init
  /\ part # "access" => pinned = {}

AccessNext ==
  /\ UNCHANGED part
  /\ \/ part = "access" /\ Next /\ UNCHANGED <<pairingVars, tokensVars, disconnectVars>>
     \/ part = "pairing" /\ P!Next /\ UNCHANGED <<vars, tokensVars, disconnectVars>>
     \/ part = "tokens" /\ T!Next /\ UNCHANGED <<vars, pairingVars, disconnectVars>>
     \/ part = "disconnect" /\ D!Next /\ UNCHANGED <<vars, pairingVars, tokensVars>>

AccessSpec == AccessInit /\ [][AccessNext]_<<part, vars, pairingVars, tokensVars, disconnectVars>>

\* A behaviour uses the names of one part only, so the parts share their names:
\* attempts, token ids and ends; peers; codes and secrets.
Symmetric == Permutations(Attempts) \cup Permutations(Peers) \cup Permutations(Codes)

-------------------------------------------------------------------------------
\* At most MaxAttempts codes are tried against one pairing attempt, however they
\* interleave with right ones and with the local approval (confirm_peer).
GuessesBounded == P!PairingTypeOK /\ P!GuessesBounded

\* A pin is written only by consent: the Host's by the approval of the device's own
\* unexpired pairing, a paired peer's by both sides.  A session accepted by short
\* code was earned by such a pin or by both confirmations in time, and a finished
\* attempt never moves again (approve_pairing; begin, progress_or_accept).
PinsEarned ==
  [][/\ PinIsApproved
     /\ \A a \in Attempts : P!EarnedSession(a) /\ P!Final(a)
     /\ \A x \in Aliases : P!PinByConsent(x)]_<<vars, pairingVars>>

\* Every session a token grants is within its session limit and its lifetime, and
\* neither its identifier nor its device was revoked before (validate_token).  A
\* session that began to end carries no traffic again, and a message closes only the
\* session it was sent in, never its successor (can_process_traffic,
\* handle_remote_disconnect).
SessionsLawful ==
  [][/\ \A i \in DOMAIN tokens : T!GrantBounded(i) /\ T!GrantUnrevoked(i) /\ T!GrantInTime(i)
     /\ D!RemoteCloseMeant'
     /\ \A e \in Attempts : D!StaysClosed(e)]_<<tokensVars, disconnectVars>>
===============================================================================
