--------------------------- MODULE CircuitBreaker ---------------------------
(***************************************************************************)
(* CircuitBreakerMiddleware (runtime/middleware.py): one breaker shared by *)
(* every call that goes through the middleware chain of a pipeline.  Calls *)
(* overlap: a call admitted while the breaker was closed may end after it  *)
(* opened, during a probe, or after it closed again.  The asyncio lock     *)
(* makes admission and each way of ending one step.                        *)
(*                                                                         *)
(* The clock is kept as the age of _opened_at, which only matters up to    *)
(* recovery_timeout.                                                       *)
(***************************************************************************)
EXTENDS Naturals

CONSTANTS
    Calls,              \* callers: each has at most one call in progress
    FailureThreshold,
    RecoveryTimeout,    \* in clock ticks
    Escapes,            \* the kinds of calls that may end by an exception
                        \* outside `exceptions`, be cancelled or timed out
    NotOpened           \* _opened_at is None

ASSUME ThresholdPositive == FailureThreshold \in Nat \ {0}
ASSUME TimeoutNat == RecoveryTimeout \in Nat
ASSUME NotOpenedDistinct == NotOpened \notin Nat

VARIABLES
    state,      \* _state
    failures,   \* _failures
    openFor,    \* age of _opened_at, or NotOpened
    probing,    \* _probing
    inCall      \* call -> "none", "plain" or "probe" (is_probe)

vars == <<state, failures, openFor, probing, inCall>>

Elapsed == openFor = RecoveryTimeout

Enter(c, kind) == inCall' = [inCall EXCEPT ![c] = kind]

Leave(c) == inCall' = [inCall EXCEPT ![c] = "none"]

-----------------------------------------------------------------------------
(* Admission.  A refused call raises CircuitOpenError and changes nothing. *)

AdmitClosed(c) ==
    /\ inCall[c] = "none"
    /\ state = "closed"
    /\ Enter(c, "plain")
    /\ UNCHANGED <<state, failures, openFor, probing>>

\* Mutant: an elapsed timeout is enough, whether or not a probe is out.
MayProbe_Always == state \in {"open", "half_open"} /\ Elapsed

\* The second case is in the code; half_open without a probe is unreachable.
MayProbe ==
    \/ state = "open" /\ Elapsed /\ ~probing
    \/ state = "half_open" /\ ~probing

AdmitProbe(c) ==
    /\ inCall[c] = "none"
    /\ MayProbe
    /\ state' = "half_open"
    /\ probing' = TRUE
    /\ Enter(c, "probe")
    /\ UNCHANGED <<failures, openFor>>

-----------------------------------------------------------------------------
(* Endings.                                                                *)

\* Mutant: the probe's success does not give the probe up.
ProbingAfter_Kept(c) == probing

ProbingAfter(c) == IF inCall[c] = "probe" THEN FALSE ELSE probing

FailuresAfterSuccess == 0

Succeed(c) ==
    /\ inCall[c] # "none"
    /\ probing' = ProbingAfter(c)
    /\ failures' = FailuresAfterSuccess
    /\ state' = "closed"
    /\ openFor' = NotOpened
    /\ Leave(c)

FailProbe(c) ==
    /\ inCall[c] = "probe"
    /\ probing' = FALSE
    /\ state' = "open"
    /\ openFor' = 0
    /\ Leave(c)
    /\ UNCHANGED failures

\* Mutant: the threshold is passed, not reached.
Trips_OffByOne == failures > FailureThreshold

Trips == failures + 1 >= FailureThreshold

FailPlain(c) ==
    /\ inCall[c] = "plain"
    /\ failures' = failures + 1
    /\ IF Trips
       THEN state' = "open" /\ openFor' = 0
       ELSE UNCHANGED <<state, openFor>>
    /\ Leave(c)
    /\ UNCHANGED probing

\* Neither the except clause nor the code after it runs.
Escape(c) ==
    /\ inCall[c] \in Escapes \ {"none"}
    /\ Leave(c)
    /\ UNCHANGED <<state, failures, openFor, probing>>

Tick ==
    /\ openFor # NotOpened /\ openFor < RecoveryTimeout
    /\ openFor' = openFor + 1
    /\ UNCHANGED <<state, failures, probing, inCall>>

-----------------------------------------------------------------------------
Init ==
    /\ state = "closed"
    /\ failures = 0
    /\ openFor = NotOpened
    /\ probing = FALSE
    /\ inCall = [c \in Calls |-> "none"]

Admit(c) == AdmitClosed(c) \/ AdmitProbe(c)

End(c) == Succeed(c) \/ FailProbe(c) \/ FailPlain(c) \/ Escape(c)

Next == (\E c \in Calls : Admit(c) \/ End(c)) \/ Tick

\* Stages end and time passes; nobody has to call.
Fairness == WF_vars(Tick) /\ \A c \in Calls : WF_vars(End(c))

Spec == Init /\ [][Next]_vars

FairSpec == Spec /\ Fairness

-----------------------------------------------------------------------------
(***************************************************************************)
(* Types of the breaker's fields and of the calls in it; the failure count *)
(* never goes below zero.                                                  *)
(***************************************************************************)
TypeOK ==
    /\ state \in {"closed", "open", "half_open"}
    /\ failures \in Nat
    /\ openFor \in Nat \cup {NotOpened}
    /\ probing \in BOOLEAN
    /\ inCall \in [Calls -> {"none", "plain", "probe"}]

(***************************************************************************)
(* A recovering service is hit by one call at a time: probes never         *)
(* overlap, although a stale failure can reopen the breaker, or a stale    *)
(* success close it, while a probe is out.                                 *)
(***************************************************************************)
OneProbe ==
    \A c, d \in Calls : (inCall[c] = "probe" /\ inCall[d] = "probe") => c = d

(***************************************************************************)
(* The three fields agree: an open breaker has the time it opened (the     *)
(* assert of __call__), a half-open one has its probe flag, and a closed   *)
(* one has had fewer consecutive failures than the threshold.              *)
(***************************************************************************)
StateCoherent ==
    /\ state = "open" => openFor # NotOpened
    /\ state = "half_open" => probing
    /\ state = "closed" => failures < FailureThreshold

(***************************************************************************)
(* The breaker never locks everyone out for good: at any time, later a     *)
(* call would be admitted.  Holds as long as no probe ends by              *)
(* cancellation, timeout or an exception outside `exceptions`; with those, *)
(* it is what the docstring says ("until recovery_timeout elapses") and    *)
(* the code does not do: a probe that escapes leaves _probing set for      *)
(* ever.                                                                   *)
(***************************************************************************)
Admits == state = "closed" \/ MayProbe

NeverLockedOut == []<>Admits
=============================================================================
