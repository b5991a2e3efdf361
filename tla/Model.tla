------------------------------- MODULE Model --------------------------------
(***************************************************************************)
(* The data the components share (package internal/model and              *)
(* db/schema.sql), cut down to the fields the service branches on.         *)
(*                                                                         *)
(* The random 32 bytes of a refresh token are abstracted to the order in   *)
(* which tokens are generated: token n is the n-th one.  Instants are      *)
(* counted in generated tokens too (see RefreshTokenRepository).           *)
(***************************************************************************)
EXTENDS Naturals

CONSTANTS
  User,       \* registered users (rows of table users, never deleted)
  Session,    \* session UUIDs
  MaxTokens,  \* bound: how many refresh tokens may be generated
  MaxLapsed,  \* bound: how many of them are seen to pass their ExpiresAt
  None        \* "no record", "no id": a value of no other kind

Token == 1..MaxTokens

\* The JSON value stored under auth:refresh_token:<token>.
TokenRecord ==
  [user : User, session : Session, status : {"ACTIVE", "USED", "REVOKED"}]

\* A row of table sessions; last_used_at and the device are shown to the user and read by nothing else.
SessionRow == [user : User, status : {"ACTIVE", "REVOKED"}]

ASSUME BoundsAssumption == MaxTokens \in Nat /\ MaxLapsed \in Nat
ASSUME NoneAssumption ==
  /\ None \notin User \cup Session \cup Token
  /\ None \notin TokenRecord
  /\ None \notin SessionRow
=============================================================================
