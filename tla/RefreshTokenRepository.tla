----------------------- MODULE RefreshTokenRepository -----------------------
(***************************************************************************)
(* The Redis side of the service: what RedisRefreshTokenRepository keeps   *)
(* and the commands it sends.  Every operator that primes a variable is    *)
(* ONE command (or one MULTI/EXEC pipeline), the unit Redis executes       *)
(* atomically; the methods of the repository that send several commands    *)
(* (UpdateStatus, RevokeAllByUser, RevokeAllBySession) are sequences of    *)
(* them and are therefore steps of the requests in AuthService.            *)
(*                                                                         *)
(* All tokens get the same time to live, so they pass their ExpiresAt in   *)
(* the order they were generated in, and the clock is reduced to the       *)
(* number "lapsed" of tokens whose ExpiresAt is past.                      *)
(***************************************************************************)
EXTENDS Model

VARIABLES
  tokens,         \* auth:refresh_token:<t>            -> record, or None
  userTokens,     \* auth:user_refresh_tokens:<u>      -> set of tokens
  sessionTokens,  \* auth:session_refresh_tokens:<s>   -> set of tokens
  issued,         \* number of tokens generated so far
  lapsed          \* tokens 1..lapsed are past their ExpiresAt

storeVars == <<tokens, userTokens, sessionTokens, issued, lapsed>>

StoreTypeOK ==
  /\ tokens \in [Token -> TokenRecord \cup {None}]
  /\ userTokens \in [User -> SUBSET Token]
  /\ sessionTokens \in [Session -> SUBSET Token]
  /\ issued \in 0..MaxTokens
  /\ lapsed \in 0..issued

StoreInit ==
  /\ tokens = [t \in Token |-> None]
  /\ userTokens = [u \in User |-> {}]
  /\ sessionTokens = [s \in Session |-> {}]
  /\ issued = 0
  /\ lapsed = 0

-----------------------------------------------------------------------------
Expired(t) == t <= lapsed

\* The key is present and its record says ACTIVE.
Live(t) == tokens[t] # None /\ tokens[t].status = "ACTIVE"

\* /auth/refresh would accept t: the condition RefreshAccessToken tests.
Usable(t) == Live(t) /\ ~Expired(t)

-----------------------------------------------------------------------------
\* Create, a slip: the session's index is forgotten by the pipeline.
CreateUnindexed(u, s) ==
  /\ issued < MaxTokens
  /\ issued' = issued + 1
  /\ tokens' = [tokens EXCEPT ![issued + 1] =
                  [user |-> u, session |-> s, status |-> "ACTIVE"]]
  /\ userTokens' = [userTokens EXCEPT ![u] = @ \cup {issued + 1}]
  /\ UNCHANGED <<sessionTokens, lapsed>>

\* GenerateRefreshToken and Create: a fresh ACTIVE token, stored and entered
\* in both indexes by one MULTI/EXEC.
Create(u, s) ==
  /\ issued < MaxTokens
  /\ issued' = issued + 1
  /\ tokens' = [tokens EXCEPT ![issued + 1] =
                  [user |-> u, session |-> s, status |-> "ACTIVE"]]
  /\ userTokens' = [userTokens EXCEPT ![u] = @ \cup {issued + 1}]
  /\ sessionTokens' = [sessionTokens EXCEPT ![s] = @ \cup {issued + 1}]
  /\ UNCHANGED lapsed

\* UpdateStatus' SET: a record derived from the one read earlier overwrites
\* whatever the key holds by now (it may even have been removed).
Set(t, record) ==
  /\ tokens' = [tokens EXCEPT ![t] = record]
  /\ UNCHANGED <<userTokens, sessionTokens, issued, lapsed>>

\* Time passes: one more token is past its ExpiresAt.
Lapse ==
  /\ lapsed < issued /\ lapsed < MaxLapsed
  /\ lapsed' = lapsed + 1
  /\ UNCHANGED <<tokens, userTokens, sessionTokens, issued>>

\* Redis drops a key whose time to live ran out.  The ttl was computed before
\* the SET that carried it was executed, so this happens at or after
\* ExpiresAt, never before.  The index sets have no ttl and keep the token.
Expire(t) ==
  /\ Expired(t)
  /\ tokens[t] # None
  /\ tokens' = [tokens EXCEPT ![t] = None]
  /\ UNCHANGED <<userTokens, sessionTokens, issued, lapsed>>
=============================================================================
