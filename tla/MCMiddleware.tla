----------------------------- MODULE MCMiddleware -----------------------------
(***************************************************************************)
(* A small instance of the middleware chain.                               *)
(***************************************************************************)
EXTENDS MiddlewareProps

\* The order of docs/en/guides/middleware.md with a limiter next to the
\* stage, and one that retries everything and looks into the cache first.
MCChains == {<<"breaker", "retry", "cache", "limit">>,
             <<"cache", "retry", "limit", "breaker">>}

\* Two stages of one __name__ (of two modules, say), and a STREAM stage.
MCStages == {"load", "load2", "chat"}
MCSnapshots == {"x1", "x2"}

MCRequests == {[stage |-> "load", snapshot |-> "x1"],
               [stage |-> "load2", snapshot |-> "x1"],
               [stage |-> "load", snapshot |-> "x2"],
               [stage |-> "chat", snapshot |-> "x1"]}

MCNameOf == [s \in MCStages |-> IF s = "chat" THEN "chat" ELSE "load"]
=============================================================================
