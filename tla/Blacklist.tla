------------------------------ MODULE Blacklist ------------------------------
(***************************************************************************)
(* The times of one access token: when it is signed, when its row says it  *)
(* was created, how long it stays in the blacklist and until when the      *)
(* guards accept it (auth.service.ts, auth.guard.ts, ws-auth.guard.ts).    *)
(*                                                                         *)
(* `now' counts in fractions of a second, SECOND of them (Date.now() and   *)
(* Redis: 1000).  JWTs and the TTL of the key count whole seconds.  All    *)
(* clocks show the same time.                                              *)
(***************************************************************************)
EXTENDS Integers, FiniteSetsExt

CONSTANTS SECOND,            \* ticks in a second
          ACCESS_TOKEN_TTL,  \* seconds, from the configuration
          LastTick           \* bound: the clock stops here

ASSUME SecondPositive == SECOND \in Nat \ {0}
ASSUME TtlPositive == ACCESS_TOKEN_TTL \in Nat \ {0}
ASSUME LastTickNatural == LastTick \in Nat

VARIABLES now,
          at,          \* how far the token has come
          signedAt,    \* the moment jwtService.sign ran
          createdAt,   \* createdAt of the RefreshToken row
          ttl,         \* the TTL computed for the key
          until        \* the moment the key blacklist:<jti> expires, 0: no key

times == <<now, at, signedAt, createdAt, ttl, until>>

TimesInit ==
  /\ now = 0
  /\ at = "new"
  /\ signedAt = 0 /\ createdAt = 0
  /\ ttl = 0 /\ until = 0

-----------------------------------------------------------------------------
\* issueTokens: sign, then insert the row

Sign ==
  /\ at = "new"
  /\ at' = "signed"
  /\ signedAt' = now
  /\ UNCHANGED <<now, createdAt, ttl, until>>

CreateRow ==
  /\ at = "signed"
  /\ at' = "active"
  /\ createdAt' = now
  /\ UNCHANGED <<now, signedAt, ttl, until>>

-----------------------------------------------------------------------------
\* logOut, refresh, revokeSession: update the row, compute the TTL, set the key

Deactivate ==
  /\ at = "active"
  /\ at' = "revoked"
  /\ UNCHANGED <<now, signedAt, createdAt, ttl, until>>

\* A mistake: the TTL counts from the second before.
RemainingTtlShort ==
  Max({0, (createdAt + ACCESS_TOKEN_TTL * SECOND - now) \div SECOND - 1})

\* _accessTokenRemainingTtl(createdAt); \div rounds down like Math.floor
AccessTokenRemainingTtl ==
  Max({0, (createdAt + ACCESS_TOKEN_TTL * SECOND - now) \div SECOND})

ComputeTtl ==
  /\ at = "revoked"
  /\ ttl' = AccessTokenRemainingTtl
  /\ at' = IF ttl' > 0 THEN "set" ELSE "blacklisted"
  /\ UNCHANGED <<now, signedAt, createdAt, until>>

SetKey ==
  /\ at = "set"
  /\ until' = now + ttl * SECOND
  /\ at' = "blacklisted"
  /\ UNCHANGED <<now, signedAt, createdAt, ttl>>

Tick ==
  /\ now < LastTick
  /\ now' = now + 1
  /\ UNCHANGED <<at, signedAt, createdAt, ttl, until>>

\* Bound: the clock has stopped.
Stop == now = LastTick /\ UNCHANGED times

TimesNext == Sign \/ CreateRow \/ Deactivate \/ ComputeTtl \/ SetKey \/ Tick \/ Stop

TimesSpec == TimesInit /\ [][TimesNext]_times

-----------------------------------------------------------------------------

\* The exp claim, in seconds: jsonwebtoken rounds the time of signing down.
Exp == signedAt \div SECOND + ACCESS_TOKEN_TTL

\* JwtService.verify
Verified == now \div SECOND < Exp

IsBlacklisted == now < until

\* JwtAuthGuard and WsAuthGuard let the token through.
GuardAccepts == at \notin {"new", "signed"} /\ Verified /\ ~IsBlacklisted

\* Once its revocation is complete, the token is refused but for less than its
\* last second: rounding the TTL down never gives away more (auth.service.ts:87).
RefusedButForLastSecond ==
  at = "blacklisted" /\ GuardAccepts => Exp * SECOND - now < SECOND
=============================================================================
