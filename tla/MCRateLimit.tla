----------------------------- MODULE MCRateLimit -----------------------------
(* A finite instance of RateLimit for TLC. *)
EXTENDS RateLimit

\* One client that logs in, and one whose scope is configured with a window
\* below a second.
MCKey == {"login", "refresh"}
MCLimit == [k \in MCKey |-> IF k = "login" THEN 2 ELSE 1]
MCWindow == [k \in MCKey |-> IF k = "login" THEN 2 ELSE 0]
=============================================================================
