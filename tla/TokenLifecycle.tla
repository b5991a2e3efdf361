-------------------------- MODULE TokenLifecycle ----------------------------
(***************************************************************************)
(* What AuthService promises about refresh tokens, whatever the number of  *)
(* concurrent requests and whatever fails: a session has a chain of        *)
(* tokens; a token is usable from the moment it is granted until it is     *)
(* withdrawn (rotated, revoked or expired), once and for all; and a        *)
(* session is granted another token only when one of its chain has been    *)
(* withdrawn.                                                              *)
(***************************************************************************)
CONSTANTS Token, Session

VARIABLES
  chain,   \* session -> every token it was ever granted
  usable   \* the tokens /auth/refresh would accept now

Init ==
  /\ chain = [s \in Session |-> {}]
  /\ usable = {}

Grant(s, t) ==
  /\ \A r \in Session : t \notin chain[r]
  /\ chain[s] = {} \/ ~(chain[s] \subseteq usable)
  /\ chain' = [chain EXCEPT ![s] = @ \cup {t}]
  /\ usable' = usable \cup {t}

Withdraw(t) ==
  /\ t \in usable
  /\ usable' = usable \ {t}
  /\ UNCHANGED chain

Next ==
  \/ \E s \in Session, t \in Token : Grant(s, t)
  \/ \E t \in Token : Withdraw(t)

Spec == Init /\ [][Next]_<<chain, usable>>
=============================================================================
