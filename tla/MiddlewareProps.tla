---------------------------- MODULE MiddlewareProps ----------------------------
(***************************************************************************)
(* What the layers promise, in whatever order they are stacked.            *)
(***************************************************************************)
EXTENDS Middleware

Wrapped(layer) == \E i \in DOMAIN chain : chain[i] = layer

\* The retry gives a call this many runs of its stage.
Budget(c) == IF Wrapped("retry") /\ ~IsStream(c) THEN MaxAttempts ELSE 1

SameWork(r, q) ==
    /\ NameOf[r.stage] = NameOf[q.stage]
    /\ r.snapshot = q.snapshot

Ages(last) == 0..last \cup {Nothing}

(***************************************************************************)
(* Types of the state; ages stop at the limits the code compares them to,  *)
(* and a call is in a layer exactly while it is under way.                 *)
(***************************************************************************)
TypeOK ==
    /\ chain \in Chains
    /\ phase \in [Calls -> {"idle", "enter", "stage", "leave", "nap", "done"}]
    /\ at \in [Calls -> 0..(Len(chain) + 1)]
    /\ \A c \in Calls :
        /\ at[c] = 0 <=> phase[c] \in {"idle", "done"}
        /\ phase[c] # "idle" => request[c] \in Requests
        /\ phase[c] \in {"leave", "done"} =>
              result[c] \in [kind : {"context", "send"} \cup Errors, by : Calls]
        /\ attempt[c] \in 0..MaxAttempts
        /\ nap[c] \in Nat
        /\ nap[c] > 0 => phase[c] = "nap"
        /\ asked[c] \in Ages(Ttl) /\ began[c] \in Ages(Ttl)
    /\ \A i \in DOMAIN window : window[i] \in 0..Second
    /\ entries \in [Keys -> [by : Calls, age : 0..Ttl] \cup {Nothing}]
    /\ Breaker!TypeOK

(***************************************************************************)
(* RateLimitMiddleware, "sliding window": in no second do more calls pass  *)
(* than rps rounded up, however many wait and wake at the same time.       *)
(***************************************************************************)
RateHonoured == Len(passed) * RpsDen < RpsNum + RpsDen

(***************************************************************************)
(* Memoized results are results: what a call returns was computed by a     *)
(* stage of its __name__ on an equal context, by another call only if the  *)
(* cache gave it; and what the cache would still give was computed no      *)
(* longer than ttl ago, also when misses of one key overlap and the slower *)
(* one stores last.                                                        *)
(***************************************************************************)
CacheHonest ==
    /\ \A c \in Calls :
        (result[c] # Nothing /\ result[c].kind = "context") =>
            /\ SameWork(request[result[c].by], request[c])
            /\ result[c].by # c => Wrapped("cache") /\ ~IsStream(c)
    /\ \A k \in Keys : entries[k] # Nothing =>
        LET by == entries[k].by
        IN  /\ KeyOf(request[by]) = k
            /\ began[by] # Nothing
            /\ Fresh(entries[k]) => began[by] < Ttl

(***************************************************************************)
(* RetryMiddleware, "up to max_attempts times": a call never runs its      *)
(* stage more often, a STREAM stage (whose chunks are already delivered)   *)
(* never twice, and an exception of the stage that is listed reaches the   *)
(* caller only when the attempts are spent.                                *)
(***************************************************************************)
RetryHonest ==
    \A c \in Calls :
        /\ request[c] # Nothing => ran[c] <= Budget(c)
        /\ (/\ phase[c] = "done" /\ result[c].kind \in Raised \cap RetryOn
            /\ Wrapped("retry") /\ ~IsStream(c)) => attempt[c] = MaxAttempts

(***************************************************************************)
(* Wherever the breaker is in the chain, under a retry that calls it again *)
(* or around one, and whatever is cancelled, it is driven as               *)
(* CircuitBreaker says, so that what is proved there holds in the chain.   *)
(***************************************************************************)
DrivesBreaker == Breaker!Spec

(***************************************************************************)
(* Every call ends: no layer holds one for ever, and whoever waits at the  *)
(* rate limiter ("waits, never raises") passes.                            *)
(***************************************************************************)
EveryCallEnds == \A c \in Calls : phase[c] # "idle" ~> phase[c] = "done"
=============================================================================
