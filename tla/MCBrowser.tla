----------------------------- MODULE MCBrowser ------------------------------
(* Finite instances of Browser for TLC. *)
EXTENDS Browser, TLC

\* Handlers, sessions and users are interchangeable, tokens are not.
Symmetry ==
  Permutations(Handler) \cup Permutations(Session) \cup Permutations(User)
=============================================================================
