--------------------------- MODULE MCRedisRestart ---------------------------
(* Finite instances of RedisRestart for TLC. *)
EXTENDS RedisRestart, TLC

\* Handlers, sessions and users are interchangeable, tokens are not.
Symmetry ==
  Permutations(Handler) \cup Permutations(Session) \cup Permutations(User)
=============================================================================
