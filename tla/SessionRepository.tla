------------------------- MODULE SessionRepository --------------------------
(***************************************************************************)
(* The PostgreSQL table "sessions" and the statements that                 *)
(* PostgresSessionRepository runs on it.  Each operator is one autocommit  *)
(* statement, hence one atomic step.  Rows are never deleted.              *)
(* UpdateLastUsedAt writes a column the model leaves out.                  *)
(***************************************************************************)
EXTENDS Model

VARIABLE sessions      \* session id -> row, or None

SessionsTypeOK == sessions \in [Session -> SessionRow \cup {None}]

SessionsInit == sessions = [s \in Session |-> None]

\* Create, a slip: the row is never written.
InsertLost(s, u) == sessions[s] = None /\ UNCHANGED sessions

\* Create: INSERT of a fresh id (uuid.NewString) with status ACTIVE.
Insert(s, u) ==
  /\ sessions[s] = None
  /\ sessions' = [sessions EXCEPT
                    ![s] = [user |-> u, status |-> "ACTIVE"]]

\* The effect of UPDATE sessions SET status = 'REVOKED' on the rows S.
Revoke(S) ==
  sessions' = [s \in Session |->
                 IF s \in S /\ sessions[s] # None
                 THEN [sessions[s] EXCEPT !.status = "REVOKED"]
                 ELSE sessions[s]]

\* UpdateStatus(id, 'REVOKED'): WHERE id = $2.
RevokeById(s) == Revoke({s})

\* RevokeAllByUserID: WHERE user_id = $1 AND status = 'ACTIVE'.
RevokeByUser(u) ==
  Revoke({s \in Session : /\ sessions[s] # None
                          /\ sessions[s].user = u
                          /\ sessions[s].status = "ACTIVE"})
=============================================================================
