---------------------------- MODULE RedisRestart ----------------------------
(***************************************************************************)
(* AuthService over a Redis that may come back with an older state.        *)
(*                                                                         *)
(* docker-compose.yml starts redis-server with its default configuration   *)
(* and a volume: it saves snapshots now and then, keeps no append-only     *)
(* file, and starts from the last snapshot after a crash.  Writes that     *)
(* were acknowledged since are gone.  PostgreSQL loses nothing, and the    *)
(* instances stay up: their clients reconnect and the requests in flight   *)
(* go on with what they have read.                                         *)
(***************************************************************************)
EXTENDS AuthService

CONSTANT MaxRestarts   \* bound: how many times Redis crashes

VARIABLES
  snapshot,   \* the three kinds of keys, as last saved
  restarts,   \* number of crashes so far
  disturbed   \* history: a crash has met a request between two calls

restartVars == <<snapshot, restarts, disturbed>>

ASSUME RestartAssumption == MaxRestarts \in Nat

Stored == [tokens |-> tokens, users |-> userTokens, sessions |-> sessionTokens]

RestartInit ==
  /\ Init
  /\ snapshot = Stored
  /\ restarts = 0
  /\ disturbed = FALSE

\* Redis forks and saves what it holds, a consistent image: a pipeline is in
\* it as a whole or not at all.  (After the last crash nothing is saved.)
Save ==
  /\ restarts < MaxRestarts
  /\ snapshot' = Stored
  /\ UNCHANGED <<vars, restarts, disturbed>>

\* Redis dies and is started again.  A key whose time was up at the start is
\* dropped by a later Expire.
Restart ==
  /\ restarts < MaxRestarts
  /\ restarts' = restarts + 1
  /\ tokens' = snapshot.tokens
  /\ userTokens' = snapshot.users
  /\ sessionTokens' = snapshot.sessions
  /\ disturbed' = (disturbed \/ \E h \in Handler : req[h] # Idle)
  /\ UNCHANGED <<issued, lapsed, sessions, req, audit, delivered, snapshot>>

RestartNext ==
  \/ Next /\ UNCHANGED restartVars
  \/ Save
  \/ Restart

RestartSpec == RestartInit /\ [][RestartNext]_<<vars, restartVars>>

-----------------------------------------------------------------------------
\* What can be refreshed with can be revoked: whatever was lost, every live
\* token is in the indexes the Revoke... loops walk.  A request that has read a
\* record before the crash may write it back after it, to a key no index knows
\* any more (TokensIndexed fails); it writes USED or REVOKED.
LiveIndexed ==
  \A t \in Token :
    Live(t) => /\ t \in userTokens[tokens[t].user]
               /\ t \in sessionTokens[tokens[t].session]

\* A session may be set back, its newest token forgotten and an older one
\* ACTIVE again, but it does not fork: with one request at a time and crashes
\* between requests only, it never has two usable tokens.
NoFork == ~disturbed => OneUsablePerSession
=============================================================================
