---------------------------- MODULE AccessTokens ----------------------------
(***************************************************************************)
(* The claims of an access token that depend on a clock: what              *)
(* GenerateAccessToken writes on one instance and ValidateAccessToken      *)
(* makes of it on another, whose clock may differ.                         *)
(*                                                                         *)
(* A clock counts ticks, TicksPerSecond of them in a second, whatever the  *)
(* resolution of time.Now; the claims are whole seconds.                   *)
(***************************************************************************)
EXTENDS Integers

CONSTANTS
  TicksPerSecond,  \* resolution of the clocks
  AccessTTL        \* JWT_ACCESS_TTL_MINUTES, in seconds

ASSUME ResolutionAssumption == TicksPerSecond \in Nat \ {0}
ASSUME AccessTTLAssumption == AccessTTL \in Nat \ {0}

\* jwt.WithLeeway(30*time.Second), in ticks.
Leeway == 30 * TicksPerSecond

\* time.Time.Unix: the second the tick c is in.
Unix(c) == c \div TicksPerSecond

\* The claims of a token generated when the clock of its instance shows c.
Claims(c) == [nbf |-> Unix(c), exp |-> Unix(c + AccessTTL * TicksPerSecond)]

\* The expires_in of the answer: what is left when the token has been signed,
\* truncated to seconds.
ExpiresIn(signing) ==
  (AccessTTL * TicksPerSecond - signing) \div TicksPerSecond

\* A slip: nbf is tested without the leeway.
ValidNowStrictly(claims, c) ==
  /\ c < claims.exp * TicksPerSecond + Leeway
  /\ c >= claims.nbf * TicksPerSecond

\* What jwt.Parse tests when the clock of the instance shows c.
ValidNow(claims, c) ==
  /\ c < claims.exp * TicksPerSecond + Leeway
  /\ c >= claims.nbf * TicksPerSecond - Leeway
=============================================================================
