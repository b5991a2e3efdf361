---------------------------- MODULE MCAuthService ----------------------------
(* Finite instances of AuthService for TLC. *)
EXTENDS AuthService, TLC

\* Handlers, sessions and users are interchangeable, tokens are not.
Symmetry ==
  Permutations(Handler) \cup Permutations(Session) \cup Permutations(User)
=============================================================================
