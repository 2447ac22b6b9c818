--------------------------- MODULE UnattendedTokens ---------------------------
(***************************************************************************)
(* UnattendedTokenManager (crates/session/src/unattended.rs).  Token         *)
(* identifiers come from the caller and may repeat: every lookup takes the   *)
(* first record with the identifier.  A secret stands for its hash.          *)
(***************************************************************************)
EXTENDS Integers, Sequences

CONSTANTS
  Ids, Devices, Secrets, Capabilities,
  MaxTokens,     \* MAX_UNATTENDED_TOKENS
  MaxTtl,        \* max_token_ttl_ns
  Unlimited,     \* max_sessions: None
  SessionLimits, \* the other values of max_sessions that are tried
  LastUse,       \* 2^32 - 1: sessions_used saturates here
  LastTime       \* 2^64 - 1: additions to the time saturate here

VARIABLES
  enabled, tokens, now,
  granted,    \* history: sessions granted, per record, counted to LastUse + 1
  revokedIds, \* history: identifiers revoke_token was called for
  swept       \* history: records that revoke_all_for_device covered

vars == <<enabled, tokens, now, granted, revokedIds, swept>>

Init ==
  /\ enabled = TRUE
  /\ tokens = <<>>
  /\ now = 0
  /\ granted = <<>>
  /\ revokedIds = {}
  /\ swept = {}

SaturatingAdd(a, b, last) == IF a + b > last THEN last ELSE a + b

SetUnattendedEnabled(value) ==
  /\ enabled' = value
  /\ UNCHANGED <<tokens, now, granted, revokedIds, swept>>

Room == Len(tokens) < MaxTokens

IssueToken(id, device, allowed, ttl, maxSessions, secret) ==
  /\ enabled /\ ttl \in 1 .. MaxTtl /\ Room
  /\ tokens' = Append(tokens,
       [id |-> id, device |-> device, allowed |-> allowed, expires |-> SaturatingAdd(now, ttl, LastTime),
        secret |-> secret, max |-> maxSessions, used |-> 0, revoked |-> FALSE])
  /\ granted' = Append(granted, 0)
  /\ UNCHANGED <<enabled, now, revokedIds, swept>>

Matching(id) == {i \in 1 .. Len(tokens) : tokens[i].id = id}

\* Faulty: the newest record with the identifier is taken.
FirstIsLast(id) == CHOOSE i \in Matching(id) : \A j \in Matching(id) : j <= i

First(id) == CHOOSE i \in Matching(id) : \A j \in Matching(id) : i <= j

Spent(t) == t.max # Unlimited /\ t.used >= t.max

\* The checks of validate_token on the record it found.
Usable(t, secret, device, requested) ==
  /\ ~t.revoked /\ now < t.expires /\ t.device = device /\ t.secret = secret
  /\ requested \subseteq t.allowed /\ ~Spent(t)

ValidateToken(id, secret, device, requested) ==
  /\ enabled /\ Matching(id) # {}
  /\ Usable(tokens[First(id)], secret, device, requested)
  /\ tokens' = [tokens EXCEPT ![First(id)].used = SaturatingAdd(@, 1, LastUse)]
  /\ granted' = [granted EXCEPT ![First(id)] = SaturatingAdd(@, 1, LastUse + 1)]
  /\ UNCHANGED <<enabled, now, revokedIds, swept>>

RevokeToken(id) ==
  /\ Matching(id) # {}
  /\ tokens' = [tokens EXCEPT ![First(id)].revoked = TRUE]
  /\ revokedIds' = revokedIds \cup {id}
  /\ UNCHANGED <<enabled, now, granted, swept>>

RevokedFor(device) ==
  [i \in DOMAIN tokens |->
    IF tokens[i].device = device THEN [tokens[i] EXCEPT !.revoked = TRUE] ELSE tokens[i]]

RevokeAllForDevice(device) ==
  /\ tokens' = RevokedFor(device)
  /\ swept' = swept \cup {i \in DOMAIN tokens : tokens[i].device = device}
  /\ UNCHANGED <<enabled, now, granted, revokedIds>>

Tick == now < LastTime /\ now' = now + 1 /\ UNCHANGED <<enabled, tokens, granted, revokedIds, swept>>

Next ==
  \/ \E value \in BOOLEAN : SetUnattendedEnabled(value)
  \/ \E id \in Ids, device \in Devices, allowed \in SUBSET Capabilities, ttl \in 0 .. MaxTtl + 1,
        maxSessions \in SessionLimits \cup {Unlimited}, secret \in Secrets :
       IssueToken(id, device, allowed, ttl, maxSessions, secret)
  \/ \E id \in Ids, secret \in Secrets, device \in Devices, requested \in SUBSET Capabilities :
       ValidateToken(id, secret, device, requested)
  \/ \E id \in Ids : RevokeToken(id)
  \/ \E device \in Devices : RevokeAllForDevice(device)
  \/ Tick

Spec == Init /\ [][Next]_vars

-----------------------------------------------------------------------------
Tokens == [id : Ids, device : Devices, allowed : SUBSET Capabilities, expires : 0 .. LastTime,
           secret : Secrets, max : SessionLimits \cup {Unlimited}, used : 0 .. LastUse, revoked : BOOLEAN]

TokensTypeOK ==
  /\ enabled \in BOOLEAN /\ now \in 0 .. LastTime
  /\ tokens \in Seq(Tokens) /\ Len(tokens) <= MaxTokens
  /\ granted \in Seq(Nat) /\ Len(granted) = Len(tokens)
  /\ revokedIds \subseteq Ids /\ swept \subseteq DOMAIN tokens

Grants(i) == i \in DOMAIN granted /\ granted'[i] # granted[i]

\* A record grants no more sessions than max_sessions, whatever other records
\* with its identifier grant (validate_token).
GrantBounded(i) == Grants(i) /\ tokens[i].max # Unlimited => granted'[i] <= tokens[i].max

\* Once revoke_token named an identifier, nothing with that identifier grants a
\* session again, not even a token issued for it later; nor does a token that
\* existed when its device was revoked (revoke_all_for_device).
GrantUnrevoked(i) == Grants(i) => tokens[i].id \notin revokedIds /\ i \notin swept

\* Sessions are granted only while unattended access is on and in the token's
\* lifetime, which never exceeds max_token_ttl_ns from the time of the grant.
GrantInTime(i) == Grants(i) => enabled /\ now < tokens[i].expires /\ tokens[i].expires <= now + MaxTtl
=============================================================================
