----------------------------- MODULE MCAccounts ------------------------------
(* A finite instance of Accounts for TLC. *)
EXTENDS Accounts, TLC

\* Two addresses, one of them also typed with a capital letter.
MCEmail == {"ann", "Ann", "bob"}
MCCanonical == [e \in MCEmail |-> IF e = "Ann" THEN "ann" ELSE e]

\* Handlers, passwords and ids are interchangeable, addresses are not.
Symmetry ==
  Permutations(Handler) \cup Permutations(Password) \cup Permutations(UserId)
=============================================================================
