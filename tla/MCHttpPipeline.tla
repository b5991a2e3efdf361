--------------------------- MODULE MCHttpPipeline ---------------------------
(* A finite instance of HttpPipeline for TLC. *)
EXTENDS HttpPipeline

MCNumeral == [w \in {"0", "24"} |-> IF w = "0" THEN 0 ELSE 24]

Blanks(w)   == [Plain(w) EXCEPT !.blanks = TRUE]
Capitals(w) == [Plain(w) EXCEPT !.capitals = TRUE]

\* Every spelling the conversions treat differently, the rest at its default.
MCEnvironment ==
  LET default == [APP_ENV |-> Unset, JWT_ACCESS_SECRET |-> Plain("strong"),
                  JWT_ACCESS_TTL_MINUTES |-> Unset, REFRESH_TOKEN_TTL_HOURS |-> Unset,
                  REQUEST_TIMEOUT_SECONDS |-> Unset, SHUTDOWN_TIMEOUT_SECONDS |-> Unset,
                  COOKIE_SECURE |-> Unset,
                  COOKIE_SAMESITE |-> Unset, CORS_ALLOWED_ORIGINS |-> {Plain("page")},
                  CORS_ALLOW_CREDENTIALS |-> Plain("true")]
  IN  {[default EXCEPT !.APP_ENV = a, !.COOKIE_SECURE = s, !.COOKIE_SAMESITE = m] :
         a \in {Unset, Blanks("prod"), Capitals("production")},
         s \in {Plain("true"), Blanks("true"), Capitals("false")},
         m \in {Unset, Plain("none"), Blanks("none")}}
      \cup
      {[default EXCEPT !.JWT_ACCESS_SECRET = j, !.REFRESH_TOKEN_TTL_HOURS = t,
                       !.CORS_ALLOWED_ORIGINS = o, !.CORS_ALLOW_CREDENTIALS = c] :
         j \in {Unset, Blanks("")},
         t \in {Plain("0"), Plain("24"), Blanks("24")},
         o \in {{}, {Plain("")}, {Blanks("page"), Plain("other")}, {Plain("*")}},
         c \in {Unset, Plain("true")}}
      \cup
      {[default EXCEPT !.JWT_ACCESS_TTL_MINUTES = n[1], !.REQUEST_TIMEOUT_SECONDS = n[2],
                       !.SHUTDOWN_TIMEOUT_SECONDS = n[3]] :
         n \in {Plain("0"), Plain("24")} \X {Plain("0"), Plain("24")}
                 \X {Blanks("0"), Plain("0")}}

\* On the arrival of the answer, and around the end of what was promised and the
\* end of what is accepted.
MCTokens ==
  LET ends == {ExpiresIn(1) * TicksPerSecond,
               ExpiresIn(1) * TicksPerSecond + Leeway,
               AccessTTL * TicksPerSecond,
               AccessTTL * TicksPerSecond + Leeway,
               AccessTTL * TicksPerSecond + 2 * Leeway}
  IN  {[kind |-> "token", issued |-> 1000 * TicksPerSecond + p, signing |-> 1,
        delay |-> u[1], elapsed |-> u[2], ahead |-> a] :
         p \in {0, 1}, a \in {-Leeway, 0, Leeway},
         u \in {<<1, 1>>, <<Leeway, Leeway>>} \cup
                ({1, Leeway} \X UNION {{n - 1, n, n + 1} : n \in ends})}

MCAuth == MCTokens \cup {[kind |-> k] : k \in {"missing", "malformed", "forged"}}

MCOrigin == {"none", "page", "elsewhere"}

MCRequest ==
  [path |-> "root", method |-> "GET", origin |-> "none", body |-> "none",
   cookie |-> "none", auth |-> [kind |-> "missing"]]

MCExchange ==
  LET Of(paths) == {[MCRequest EXCEPT !.path = p, !.method = v, !.origin = o] :
                      p \in paths, v \in {"GET", "POST", "DELETE", "OPTIONS"},
                      o \in MCOrigin}
  IN  Of({"root", "health", "other"})
      \cup {[x EXCEPT !.body = b] : x \in Of({"register", "login"}),
              b \in {"none", "not JSON", "blank fields", "complete"}}
      \cup {[x EXCEPT !.cookie = k] : x \in Of({"refresh", "logout"}),
              k \in {"none", "blank", "token"}}
      \cup {[x EXCEPT !.auth = a] : x \in Of(Protected), a \in MCAuth \ MCTokens}
      \cup {[MCRequest EXCEPT !.path = p, !.method = Method(p), !.auth = a] :
              p \in Protected, a \in MCTokens}
=============================================================================
