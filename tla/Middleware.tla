------------------------------ MODULE Middleware ------------------------------
(***************************************************************************)
(* MiddlewareChain and the middleware of fluxio (runtime/middleware.py):   *)
(* every stage call of a pipeline descends through the layers, outermost   *)
(* first, runs the stage, and its context or exception climbs back.  The   *)
(* layers are shared by the calls, which overlap: the branches of a        *)
(* Parallel, runs of one Pipeline, Pipeline.run_step.                      *)
(*                                                                         *)
(* Each caller makes one call.  A layer entered or left is a step, and the *)
(* event loop goes to another call, or time passes, only where a call      *)
(* awaits: in its stage or in asyncio.sleep (no lock here is ever held     *)
(* over an await, and InMemoryCache awaits nothing else).  What a call     *)
(* gives back is named by the call whose stage run computed it.  Time is   *)
(* discrete, and a time stamp is kept as its age, up to the age beyond     *)
(* which the code does not look.                                           *)
(***************************************************************************)
EXTENDS Naturals, Sequences, FiniteSets

CONSTANTS
    Calls,              \* calls of stages
    Chains,             \* the orders of layers a pipeline may be built with
    Stages,
    NameOf,             \* stage -> its __name__
    Streaming,          \* the STREAM stages
    Snapshots,          \* contexts, as Context.snapshot() shows them
    Requests,           \* the [stage, snapshot] that callers ask for
    Raised,             \* the exceptions a stage may raise
    RetryOn, TripOn,    \* `exceptions` of the retry and of the breaker
    MaxAttempts,
    BaseDelay,          \* base_delay, in ticks, with backoff="jitter"
    Ttl,                \* in ticks
    Second,             \* a second, in ticks
    RpsNum, RpsDen,     \* rps = RpsNum / RpsDen
    FailureThreshold, RecoveryTimeout,
    NotOpened, Nothing

ASSUME LayersOnce ==
    \A order \in Chains :
        /\ order \in Seq({"retry", "cache", "breaker", "limit"})
        /\ \A i, j \in DOMAIN order : order[i] = order[j] => i = j
ASSUME RequestsTyped == Requests \subseteq [stage : Stages, snapshot : Snapshots]
ASSUME AttemptsPositive == MaxAttempts \in Nat \ {0}
ASSUME TimesNat == /\ Ttl \in Nat /\ Second \in Nat \ {0}
                   /\ BaseDelay \in Nat
ASSUME BreakerSettings == /\ FailureThreshold \in Nat \ {0}
                          /\ RecoveryTimeout \in Nat /\ NotOpened \notin Nat
ASSUME RpsPositive == RpsNum \in Nat \ {0} /\ RpsDen \in Nat \ {0}
\* What a stage raises is told from what the layers and the loop raise.
ASSUME RaisedApart ==
    Raised \cap {"context", "send", "CircuitOpenError", "AttributeError",
                "CancelledError"} = {}
ASSUME NothingApart == Nothing \notin Nat

VARIABLES
    chain,      \* the layers of this pipeline
    phase,      \* call -> "idle", "enter", "stage", "leave", "nap" or "done"
    at,         \* call -> the layer it is in: 0 is the caller
    request,    \* call -> [stage, snapshot], or Nothing
    result,     \* call -> what its last run gave: [kind, by], or Nothing
    attempt,    \* call -> `attempt` of its retry
    nap,        \* call -> ticks left of an asyncio.sleep
    asked,      \* call -> age of `now` of its cache, or Nothing
    window,     \* _window of the rate limiter, as ages
    entries,    \* _data of the cache: key -> [by, age], or Nothing
    state, failures, openFor, probing, inCall,  \* see CircuitBreaker
    ran,        \* history: call -> how often it ran its stage
    began,      \* history: call -> age of its last run's start, or Nothing
    passed      \* history: ages of what the limiter let pass in a second

breaker == <<state, failures, openFor, probing, inCall>>
layers == <<window, entries, breaker, passed>>
locals == <<attempt, nap, asked>>
vars == <<chain, phase, at, request, result, locals, layers, ran, began>>

Breaker == INSTANCE CircuitBreaker WITH Escapes <- {"plain", "probe"}

-----------------------------------------------------------------------------
(* The chain.                                                              *)

\* No call has the event loop.
Awaiting == \A c \in Calls : phase[c] \notin {"enter", "leave"}

Layer(c) == IF at[c] \in DOMAIN chain THEN chain[at[c]] ELSE "stage"

Entering(c, layer) == phase[c] = "enter" /\ Layer(c) = layer

Leaving(c, layer) == phase[c] = "leave" /\ Layer(c) = layer

\* `await next(fn, ctx)`.
Inward(c) ==
    /\ at' = [at EXCEPT ![c] = @ + 1]
    /\ phase' = [phase EXCEPT ![c] = "enter"]

\* A return, or an exception nobody here catches.
Outward(c) ==
    /\ at' = [at EXCEPT ![c] = @ - 1]
    /\ phase' = [phase EXCEPT ![c] = IF at[c] = 1 THEN "done" ELSE "leave"]

Give(c, kind, by) == result' = [result EXCEPT ![c] = [kind |-> kind, by |-> by]]

Sleep(c, ticks) ==
    /\ nap' = [nap EXCEPT ![c] = ticks]
    /\ phase' = [phase EXCEPT ![c] = "nap"]

Errors == Raised \cup {"CircuitOpenError", "AttributeError", "CancelledError"}

Failed(c) == result[c].kind \in Errors

IsStream(c) == request[c].stage \in Streaming

\* A retry and a cache do nothing about STREAM stages.
Bypass(c) ==
    /\ Layer(c) \in {"retry", "cache"}
    /\ \/ phase[c] = "enter" /\ IsStream(c) /\ Inward(c)
       \/ phase[c] = "leave" /\ IsStream(c) /\ Outward(c)
    /\ UNCHANGED <<chain, request, result, locals, layers, ran, began>>

Begin(c, r) ==
    /\ Awaiting /\ phase[c] = "idle"
    /\ request' = [request EXCEPT ![c] = r]
    /\ at' = [at EXCEPT ![c] = 1]
    /\ phase' = [phase EXCEPT ![c] = "enter"]
    /\ UNCHANGED <<chain, result, locals, layers, ran, began>>

\* The terminal of the chain: the executor runs the stage.
RunStage(c) ==
    /\ Entering(c, "stage")
    /\ phase' = [phase EXCEPT ![c] = "stage"]
    /\ ran' = [ran EXCEPT ![c] = @ + 1]
    /\ began' = [began EXCEPT ![c] = 0]
    /\ UNCHANGED <<chain, at, request, result, locals, layers>>

\* A stage returns a context or a Send, or raises.
StageEnds(c, kind) ==
    /\ Awaiting /\ phase[c] = "stage"
    /\ Give(c, kind, c)
    /\ Outward(c)
    /\ UNCHANGED <<chain, request, locals, layers, ran, began>>

-----------------------------------------------------------------------------
(* RetryMiddleware.                                                        *)

\* The jitter of _delay, in ticks: half to one and a half times the backoff.
Delays(n) ==
    LET backoff == BaseDelay * 2 ^ (n - 1)
    IN  {d \in 0..(2 * backoff) : backoff <= 2 * d /\ 2 * d <= 3 * backoff}

EnterRetry(c) ==
    /\ Entering(c, "retry") /\ ~IsStream(c)
    /\ attempt' = [attempt EXCEPT ![c] = 1]
    /\ Inward(c)
    /\ UNCHANGED <<chain, request, result, nap, asked, layers, ran, began>>

\* Mutant: the attempt that breaks the loop comes one too late.
Again_OffByOne(c) ==
    Failed(c) /\ result[c].kind \in RetryOn /\ attempt[c] <= MaxAttempts

Again(c) ==
    /\ Failed(c) /\ result[c].kind \in RetryOn
    /\ attempt[c] # MaxAttempts

BackOff(c) ==
    /\ Leaving(c, "retry") /\ ~IsStream(c)
    /\ Again(c)
    /\ \E d \in Delays(attempt[c]) : Sleep(c, d)
    /\ UNCHANGED <<chain, at, request, result, attempt, asked, layers, ran, began>>

RetryWakes(c) ==
    /\ Awaiting /\ phase[c] = "nap" /\ Layer(c) = "retry" /\ nap[c] = 0
    /\ attempt' = [attempt EXCEPT ![c] = @ + 1]
    /\ Inward(c)
    /\ UNCHANGED <<chain, request, result, nap, asked, layers, ran, began>>

\* A context, an exception that is not listed, or the last attempt's.
LeaveRetry(c) ==
    /\ Leaving(c, "retry") /\ ~IsStream(c)
    /\ ~Again(c)
    /\ Outward(c)
    /\ UNCHANGED <<chain, request, result, locals, layers, ran, began>>

-----------------------------------------------------------------------------
(* CacheMiddleware over an InMemoryCache.                                  *)

\* The key holds the __name__ and the values, not who wrote them.
KeyOf(r) == [name |-> NameOf[r.stage], snapshot |-> r.snapshot]

Keys == {KeyOf(r) : r \in Requests}

Fresh(entry) == entry # Nothing /\ entry.age < Ttl

Entry(c) == entries[KeyOf(request[c])]

CacheHit(c) ==
    /\ Entering(c, "cache") /\ ~IsStream(c)
    /\ Fresh(Entry(c))
    /\ Give(c, "context", Entry(c).by)
    /\ Outward(c)
    /\ UNCHANGED <<chain, request, locals, layers, ran, began>>

CacheMiss(c) ==
    /\ Entering(c, "cache") /\ ~IsStream(c)
    /\ ~Fresh(Entry(c))
    /\ asked' = [asked EXCEPT ![c] = 0]
    /\ Inward(c)
    /\ UNCHANGED <<chain, request, result, attempt, nap, layers, ran, began>>

\* Mutant: the entry is as old as its storing, not as its asking.
AgeStored_Now(c) == 0

\* created_at is the `now` taken before the stage ran.
AgeStored(c) == asked[c]

CacheStore(c) ==
    /\ Leaving(c, "cache") /\ ~IsStream(c)
    /\ result[c].kind = "context"
    /\ entries' = [entries EXCEPT ![KeyOf(request[c])] =
                        [by |-> result[c].by, age |-> AgeStored(c)]]
    /\ asked' = [asked EXCEPT ![c] = Nothing]
    /\ Outward(c)
    /\ UNCHANGED <<chain, request, result, attempt, nap, window, breaker, passed,
                   ran, began>>

\* A Send has no snapshot(): the call fails although its stage did not.
CacheRefusesSend(c) ==
    /\ Leaving(c, "cache") /\ ~IsStream(c)
    /\ result[c].kind = "send"
    /\ Give(c, "AttributeError", c)
    /\ asked' = [asked EXCEPT ![c] = Nothing]
    /\ Outward(c)
    /\ UNCHANGED <<chain, request, attempt, nap, layers, ran, began>>

CacheFails(c) ==
    /\ Leaving(c, "cache") /\ ~IsStream(c)
    /\ Failed(c)
    /\ asked' = [asked EXCEPT ![c] = Nothing]
    /\ Outward(c)
    /\ UNCHANGED <<chain, request, result, attempt, nap, layers, ran, began>>

-----------------------------------------------------------------------------
(* CircuitBreakerMiddleware: the actions of CircuitBreaker, in the chain.  *)

\* Mutant: a half-open breaker admits whoever comes.
BreakerAdmits_HalfOpen(c) ==
    /\ Entering(c, "breaker")
    /\ \/ Breaker!Admit(c)
       \/ /\ state = "half_open"
          /\ inCall' = [inCall EXCEPT ![c] = "plain"]
          /\ UNCHANGED <<state, failures, openFor, probing>>
    /\ Inward(c)
    /\ UNCHANGED <<chain, request, result, locals, window, entries, passed,
                   ran, began>>

BreakerAdmits(c) ==
    /\ Entering(c, "breaker")
    /\ Breaker!Admit(c)
    /\ Inward(c)
    /\ UNCHANGED <<chain, request, result, locals, window, entries, passed,
                   ran, began>>

BreakerRefuses(c) ==
    /\ Entering(c, "breaker")
    /\ state # "closed" /\ ~Breaker!MayProbe
    /\ Give(c, "CircuitOpenError", c)
    /\ Outward(c)
    /\ UNCHANGED <<chain, request, locals, layers, ran, began>>

Counted(c) == result[c].kind \in TripOn

\* A Send is a success; an exception that is not listed runs no handler.
LeaveBreaker(c) ==
    /\ Leaving(c, "breaker")
    /\ IF ~Failed(c) THEN Breaker!Succeed(c)
       ELSE IF Counted(c) THEN Breaker!FailProbe(c) \/ Breaker!FailPlain(c)
       ELSE Breaker!Escape(c)
    /\ Outward(c)
    /\ UNCHANGED <<chain, request, result, locals, window, entries, passed,
                   ran, began>>

-----------------------------------------------------------------------------
(* RateLimitMiddleware.                                                    *)

\* Mutant: time stamps are never dropped.
Recent_All(ages) == ages

\* How many popleft() there are: until the oldest is younger than a second.
Popped(ages) ==
    CHOOSE n \in 0..Len(ages) :
        /\ \A i \in 1..n : ages[i] >= Second
        /\ n < Len(ages) => ages[n + 1] < Second

Recent(ages) == SubSeq(ages, Popped(ages) + 1, Len(ages))

\* len(self._window) < self.rps
HasToken(ages) == Len(ages) * RpsDen < RpsNum

LimitPasses(c) ==
    LET live == Recent(window)
    IN  /\ Entering(c, "limit")
        /\ HasToken(live)
        /\ window' = Append(live, 0)
        /\ passed' = Append(passed, 0)
        /\ Inward(c)
        /\ UNCHANGED <<chain, request, result, locals, entries, breaker,
                       ran, began>>

\* Sleeps until the oldest call in the window is a second old.
LimitWaits(c) ==
    LET live == Recent(window)
    IN  /\ Entering(c, "limit")
        /\ ~HasToken(live)
        /\ window' = live
        /\ Sleep(c, Second - live[1])
        /\ UNCHANGED <<chain, at, request, result, attempt, asked, entries,
                       breaker, passed, ran, began>>

\* Mutant: a call that has waited does not look at the window again.
LimitWakes_Passes(c) ==
    /\ Awaiting /\ phase[c] = "nap" /\ Layer(c) = "limit" /\ nap[c] = 0
    /\ passed' = Append(passed, 0)
    /\ window' = Append(Recent(window), 0)
    /\ Inward(c)
    /\ UNCHANGED <<chain, request, result, locals, entries, breaker,
                   ran, began>>

\* Others may have taken the place: back to the top of the loop.
LimitWakes(c) ==
    /\ Awaiting /\ phase[c] = "nap" /\ Layer(c) = "limit" /\ nap[c] = 0
    /\ phase' = [phase EXCEPT ![c] = "enter"]
    /\ UNCHANGED <<chain, at, request, result, locals, layers, ran, began>>

LeaveLimit(c) ==
    /\ Leaving(c, "limit")
    /\ Outward(c)
    /\ UNCHANGED <<chain, request, result, locals, layers, ran, began>>

-----------------------------------------------------------------------------
(* The environment.                                                        *)

\* The timeout of the stage, or the caller's task, cancels the call wherever
\* it awaits: no handler of a layer runs.
Cancel(c) ==
    /\ Awaiting /\ phase[c] \in {"stage", "nap"}
    /\ Give(c, "CancelledError", c)
    /\ phase' = [phase EXCEPT ![c] = "done"]
    /\ at' = [at EXCEPT ![c] = 0]
    /\ nap' = [nap EXCEPT ![c] = 0]
    /\ asked' = [asked EXCEPT ![c] = Nothing]
    /\ IF inCall[c] = "none" THEN UNCHANGED breaker ELSE Breaker!Escape(c)
    /\ UNCHANGED <<chain, request, attempt, window, entries, passed, ran, began>>

Older(age, last) == IF age = Nothing \/ age = last THEN age ELSE age + 1

Tick ==
    /\ Awaiting
    /\ nap' = [c \in Calls |-> IF nap[c] = 0 THEN 0 ELSE nap[c] - 1]
    /\ asked' = [c \in Calls |-> Older(asked[c], Ttl)]
    /\ began' = [c \in Calls |-> Older(began[c], Ttl)]
    /\ window' = [i \in DOMAIN window |-> Older(window[i], Second)]
    /\ LET aged == [i \in DOMAIN passed |-> passed[i] + 1]
       IN  passed' = SubSeq(aged, Popped(aged) + 1, Len(aged))
    /\ entries' = [k \in Keys |->
                      IF entries[k] = Nothing THEN Nothing
                      ELSE [entries[k] EXCEPT !.age = Older(@, Ttl)]]
    /\ openFor' = IF openFor # NotOpened /\ openFor < RecoveryTimeout
                  THEN openFor + 1 ELSE openFor
    /\ UNCHANGED <<chain, phase, at, request, result, attempt,
                   state, failures, probing, inCall, ran>>

-----------------------------------------------------------------------------
Init ==
    /\ chain \in Chains
    /\ phase = [c \in Calls |-> "idle"]
    /\ at = [c \in Calls |-> 0]
    /\ request = [c \in Calls |-> Nothing]
    /\ result = [c \in Calls |-> Nothing]
    /\ attempt = [c \in Calls |-> 0]
    /\ nap = [c \in Calls |-> 0]
    /\ asked = [c \in Calls |-> Nothing]
    /\ window = <<>>
    /\ entries = [k \in Keys |-> Nothing]
    /\ Breaker!Init
    /\ ran = [c \in Calls |-> 0]
    /\ began = [c \in Calls |-> Nothing]
    /\ passed = <<>>

Request(c) == \E r \in Requests : Begin(c, r)

Descend(c) ==
    \/ EnterRetry(c) \/ CacheHit(c) \/ CacheMiss(c)
    \/ BreakerAdmits(c) \/ BreakerRefuses(c)
    \/ LimitPasses(c) \/ LimitWaits(c) \/ RunStage(c)

Return(c) == \E kind \in {"context", "send"} \cup Raised : StageEnds(c, kind)

Climb(c) ==
    \/ BackOff(c) \/ RetryWakes(c) \/ LeaveRetry(c)
    \/ CacheStore(c) \/ CacheRefusesSend(c) \/ CacheFails(c)
    \/ LeaveBreaker(c) \/ LimitWakes(c) \/ LeaveLimit(c)

Progress(c) == Descend(c) \/ Bypass(c) \/ Return(c) \/ Climb(c)

Next == (\E c \in Calls : Request(c) \/ Progress(c) \/ Cancel(c)) \/ Tick

Spec == Init /\ [][Next]_vars

\* The event loop runs what can run, stages end, and time passes.
Fairness == WF_vars(Tick) /\ \A c \in Calls : WF_vars(Progress(c))

FairSpec == Spec /\ Fairness
=============================================================================
