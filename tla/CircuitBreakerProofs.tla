------------------------ MODULE CircuitBreakerProofs ------------------------
(***************************************************************************)
(* Safety of the circuit breaker for every number of overlapping calls,    *)
(* every threshold and every timeout.                                      *)
(***************************************************************************)
EXTENDS CircuitBreaker, TLAPS

(***************************************************************************)
(* OneProbe is not inductive: a probe is admitted because the flag is      *)
(* down, so the flag must be known to be up while a probe is out.          *)
(***************************************************************************)
ProbeFlagged == \A c \in Calls : inCall[c] = "probe" => probing

BreakerInv == TypeOK /\ StateCoherent /\ OneProbe /\ ProbeFlagged

LEMMA InitBreaker == Init => BreakerInv
<1> SUFFICES ASSUME Init PROVE BreakerInv
  OBVIOUS
<1> USE DEF Init
<1>1. TypeOK
  BY DEF TypeOK
<1>2. StateCoherent
  BY ThresholdPositive DEF StateCoherent
<1>3. OneProbe /\ ProbeFlagged
  BY DEF OneProbe, ProbeFlagged
<1> QED
  BY <1>1, <1>2, <1>3 DEF BreakerInv

LEMMA AdmitBreaker ==
    ASSUME BreakerInv, NEW c \in Calls, Admit(c)
    PROVE  BreakerInv'
<1> USE DEF BreakerInv, TypeOK, Enter
<1>1. CASE AdmitClosed(c)
  BY <1>1 DEF AdmitClosed, StateCoherent, OneProbe, ProbeFlagged
<1>2. CASE AdmitProbe(c)
  <2>1. \A d \in Calls : inCall[d] # "probe"
    BY <1>2 DEF AdmitProbe, MayProbe, ProbeFlagged
  <2>2. TypeOK' /\ StateCoherent'
    BY <1>2 DEF AdmitProbe, StateCoherent
  <2>3. OneProbe' /\ ProbeFlagged'
    BY <1>2, <2>1 DEF AdmitProbe, OneProbe, ProbeFlagged
  <2> QED
    BY <2>2, <2>3
<1> QED
  BY <1>1, <1>2 DEF Admit

LEMMA EndBreaker ==
    ASSUME BreakerInv, NEW c \in Calls, End(c)
    PROVE  BreakerInv'
<1> USE DEF BreakerInv, TypeOK, Leave
\* The only probe there can be has just ended, or the flag is as it was.
<1>1. ASSUME NEW d \in Calls, d # c, inCall[d] = "probe"
      PROVE  inCall[c] # "probe"
  BY <1>1 DEF OneProbe
<1>2. CASE Succeed(c)
  <2>1. TypeOK'
    BY <1>2 DEF Succeed, ProbingAfter, FailuresAfterSuccess
  <2>2. StateCoherent'
    BY <1>2, ThresholdPositive DEF Succeed, FailuresAfterSuccess, StateCoherent
  <2>3. OneProbe'
    BY <1>2 DEF Succeed, OneProbe
  <2>4. ProbeFlagged'
    BY <1>1, <1>2 DEF Succeed, ProbingAfter, ProbeFlagged
  <2> QED
    BY <2>1, <2>2, <2>3, <2>4
<1>3. CASE FailProbe(c)
  <2>1. TypeOK'
    BY <1>3 DEF FailProbe
  <2>2. StateCoherent'
    BY <1>3, NotOpenedDistinct DEF FailProbe, StateCoherent
  <2>3. OneProbe'
    BY <1>3 DEF FailProbe, OneProbe
  <2>4. ProbeFlagged'
    BY <1>1, <1>3 DEF FailProbe, ProbeFlagged
  <2> QED
    BY <2>1, <2>2, <2>3, <2>4
<1>4. CASE FailPlain(c)
  <2>1. TypeOK' /\ StateCoherent'
    BY <1>4, NotOpenedDistinct, ThresholdPositive
       DEF FailPlain, Trips, StateCoherent
  <2>2. OneProbe' /\ ProbeFlagged'
    BY <1>4 DEF FailPlain, OneProbe, ProbeFlagged
  <2> QED
    BY <2>1, <2>2
<1>5. CASE Escape(c)
  BY <1>5 DEF Escape, StateCoherent, OneProbe, ProbeFlagged
<1> QED
  BY <1>2, <1>3, <1>4, <1>5 DEF End

LEMMA TickBreaker ==
    ASSUME BreakerInv, Tick \/ UNCHANGED vars
    PROVE  BreakerInv'
BY NotOpenedDistinct
   DEF BreakerInv, TypeOK, Tick, vars, StateCoherent, OneProbe, ProbeFlagged

\* BreakerInv is an invariant.
LEMMA BreakerInvariant == Spec => []BreakerInv
<1>1. BreakerInv /\ [Next]_vars => BreakerInv'
  BY AdmitBreaker, EndBreaker, TickBreaker DEF Next
<1> QED
  BY InitBreaker, <1>1, PTL DEF Spec

(***************************************************************************)
(* The breaker's fields keep their types: the failure count never goes     *)
(* below zero, whatever calls succeed, fail and escape in whatever order.  *)
(***************************************************************************)
THEOREM BreakerTyped == Spec => []TypeOK
<1>1. BreakerInv => TypeOK
  BY DEF BreakerInv
<1> QED
  BY BreakerInvariant, <1>1, PTL

(***************************************************************************)
(* The three fields always agree, so the assert of __call__ never fails,   *)
(* not after a stale call that closes or reopens the breaker either.       *)
(***************************************************************************)
THEOREM BreakerCoherent == Spec => []StateCoherent
<1>1. BreakerInv => StateCoherent
  BY DEF BreakerInv
<1> QED
  BY BreakerInvariant, <1>1, PTL

(***************************************************************************)
(* At every moment the breaker's fields agree and at most one probe is     *)
(* out, even when calls escape the handlers of the breaker.                *)
(***************************************************************************)
THEOREM BreakerSafe == Spec => [](StateCoherent /\ OneProbe)
<1>1. BreakerInv => StateCoherent /\ OneProbe
  BY DEF BreakerInv
<1> QED
  BY BreakerInvariant, <1>1, PTL
=============================================================================
