--------------------------- MODULE Configuration ----------------------------
(***************************************************************************)
(* config.Load: what the service makes of its environment, for the         *)
(* variables the HTTP layer depends on, and the rules that stop it from    *)
(* starting.                                                               *)
(*                                                                         *)
(* A value is a word with what the conversions are sensitive to: blanks    *)
(* around it and capital letters in it.                                    *)
(***************************************************************************)
EXTENDS Integers

CONSTANTS
  Unset,    \* of a variable: not there, or the empty string
  Numeral   \* the words strconv.Atoi accepts -> their value

Plain(w) == [word |-> w, blanks |-> FALSE, capitals |-> FALSE]

\* strings.ToLower(strings.TrimSpace(v)), and what EqualFold compares after it.
Normalized(v) == v.word

-----------------------------------------------------------------------------
getEnv(v, fallback) == IF v = Unset THEN Plain(fallback) ELSE v

getEnvAsInt(v, fallback) ==
  IF v # Unset /\ ~v.blanks /\ v.word \in DOMAIN Numeral
  THEN Numeral[v.word] ELSE fallback

\* strconv.ParseBool: capitals are fine, blanks are not.
getEnvAsBool(v, fallback) ==
  IF v # Unset /\ ~v.blanks /\ v.word \in {"true", "false"}
  THEN v.word = "true" ELSE fallback

\* The words between commas, trimmed; empty ones are left out.  (They are
\* compared with EqualFold only.)
getEnvAsCSV(items) == {Normalized(v) : v \in items} \ {""}

normalizeAppEnv(v) ==
  CASE Normalized(v) = "prod"  -> "production"
    [] Normalized(v) = "stage" -> "staging"
    [] Normalized(v) = ""      -> "development"
    [] OTHER                   -> Normalized(v)

-----------------------------------------------------------------------------
\* What Load reads, before the defaults for production are applied.
Read(env) ==
  [AppEnv               |-> normalizeAppEnv(getEnv(env.APP_ENV, "development")),
   JWTAccessSecret      |-> getEnv(env.JWT_ACCESS_SECRET, "default"),
   JWTAccessTTLMinutes  |-> getEnvAsInt(env.JWT_ACCESS_TTL_MINUTES, 15),
   RefreshTokenTTLHours |-> getEnvAsInt(env.REFRESH_TOKEN_TTL_HOURS, 168),
   RequestTimeoutSec    |-> getEnvAsInt(env.REQUEST_TIMEOUT_SECONDS, 15),
   ShutdownTimeoutSec   |-> getEnvAsInt(env.SHUTDOWN_TIMEOUT_SECONDS, 10),
   CookieSecure         |-> getEnvAsBool(env.COOKIE_SECURE, FALSE),
   CookieSameSite       |-> getEnv(env.COOKIE_SAMESITE, "lax"),
   CORSAllowedOrigins   |-> getEnvAsCSV(env.CORS_ALLOWED_ORIGINS),
   CORSAllowCredentials |-> getEnvAsBool(env.CORS_ALLOW_CREDENTIALS, FALSE)]

applySecureDefaults(c) ==
  IF c.AppEnv = "production" THEN [c EXCEPT !.CookieSecure = TRUE] ELSE c

Load(env) == applySecureDefaults(Read(env))

\* len(secret) >= 32 and not the default, of the words the model uses.
Strong(secret) == secret.word = "strong"

\* The settings that have to be greater than zero.
Periods(c) == {c.JWTAccessTTLMinutes, c.RefreshTokenTTLHours,
               c.RequestTimeoutSec, c.ShutdownTimeoutSec}

\* A slip: the value is compared without trimming it.
validateRaw(c) ==
  /\ Normalized(c.JWTAccessSecret) # ""
  /\ Periods(c) \subseteq Nat \ {0}
  /\ c.CookieSameSite = Plain("none") => c.CookieSecure
  /\ c.CORSAllowCredentials => c.CORSAllowedOrigins # {}
  /\ c.AppEnv = "production" => Strong(c.JWTAccessSecret)

\* validate does not panic.
validate(c) ==
  /\ Normalized(c.JWTAccessSecret) # ""
  /\ Periods(c) \subseteq Nat \ {0}
  /\ Normalized(c.CookieSameSite) = "none" => c.CookieSecure
  /\ c.CORSAllowCredentials => c.CORSAllowedOrigins # {}
  /\ c.AppEnv = "production" => Strong(c.JWTAccessSecret)
=============================================================================
