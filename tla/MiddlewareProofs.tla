--------------------------- MODULE MiddlewareProofs ---------------------------
(***************************************************************************)
(* What the chain and each of its layers promise, proved for every order   *)
(* of layers, every number of calls and every setting: the circuit breaker *)
(* first, then the rate limiter, the retry and the cache.                  *)
(***************************************************************************)
EXTENDS MiddlewareProps, SequenceTheorems, WellFoundedInduction, TLAPS

-----------------------------------------------------------------------------
(* The breaker.  The chain drives it as module CircuitBreaker says.        *)


\* Which breaker call a call of the chain is in.
InCallType == inCall \in [Calls -> {"none", "plain", "probe"}]

\* What a step of the chain may be for the breaker.
BreakerStep == Breaker!Next \/ UNCHANGED breaker

\* The breaker's own actions keep the type of inCall.
LEMMA BreakerKeepsType ==
    ASSUME InCallType, BreakerStep
    PROVE  InCallType'
<1>1. ASSUME NEW c \in Calls, NEW kind \in {"none", "plain", "probe"},
             inCall' = [inCall EXCEPT ![c] = kind]
      PROVE  InCallType'
  BY <1>1 DEF InCallType
<1>2. ASSUME NEW c \in Calls, Breaker!Admit(c) PROVE InCallType'
  BY <1>1, <1>2 DEF Breaker!Admit, Breaker!AdmitClosed, Breaker!AdmitProbe,
                    Breaker!Enter
<1>3. ASSUME NEW c \in Calls, Breaker!End(c) PROVE InCallType'
  BY <1>1, <1>3 DEF Breaker!End, Breaker!Succeed, Breaker!FailProbe,
                    Breaker!FailPlain, Breaker!Escape, Breaker!Leave
<1>4. CASE Breaker!Tick \/ UNCHANGED breaker
  BY <1>4 DEF Breaker!Tick, InCallType, breaker
<1> QED
  BY <1>2, <1>3, <1>4 DEF BreakerStep, Breaker!Next

LEMMA DescendSteps ==
    ASSUME NEW c \in Calls, Descend(c)
    PROVE  BreakerStep
<1>1. CASE BreakerAdmits(c)
  BY <1>1 DEF BreakerAdmits, BreakerStep, Breaker!Next
<1>2. CASE EnterRetry(c) \/ CacheHit(c) \/ CacheMiss(c) \/ BreakerRefuses(c)
           \/ LimitPasses(c) \/ LimitWaits(c) \/ RunStage(c)
  BY <1>2 DEF EnterRetry, CacheHit, CacheMiss, BreakerRefuses, LimitPasses,
              LimitWaits, RunStage, layers, breaker, BreakerStep
<1> QED
  BY <1>1, <1>2 DEF Descend

LEMMA ClimbSteps ==
    ASSUME NEW c \in Calls, Climb(c)
    PROVE  BreakerStep
<1>1. CASE LeaveBreaker(c)
  BY <1>1 DEF LeaveBreaker, BreakerStep, Breaker!Next, Breaker!End
<1>2. CASE BackOff(c) \/ RetryWakes(c) \/ LeaveRetry(c) \/ CacheStore(c)
           \/ CacheRefusesSend(c) \/ CacheFails(c) \/ LimitWakes(c) \/ LeaveLimit(c)
  BY <1>2 DEF BackOff, RetryWakes, LeaveRetry, CacheStore, CacheRefusesSend,
              CacheFails, LimitWakes, LeaveLimit, layers, breaker, BreakerStep
<1> QED
  BY <1>1, <1>2 DEF Climb

\* A call cancelled inside the breaker escapes it.
LEMMA CancelSteps ==
    ASSUME InCallType, NEW c \in Calls, Cancel(c)
    PROVE  BreakerStep
<1>1. CASE inCall[c] = "none"
  BY <1>1 DEF Cancel, breaker, BreakerStep
<1>2. CASE inCall[c] # "none"
  BY <1>2 DEF Cancel, BreakerStep, Breaker!Next, Breaker!End
<1> QED
  BY <1>1, <1>2

LEMMA TickSteps ==
    ASSUME Tick
    PROVE  BreakerStep
<1>1. CASE openFor # NotOpened /\ openFor < RecoveryTimeout
  BY <1>1 DEF Tick, BreakerStep, Breaker!Next, Breaker!Tick
<1>2. CASE ~(openFor # NotOpened /\ openFor < RecoveryTimeout)
  BY <1>2 DEF Tick, breaker, BreakerStep
<1> QED
  BY <1>1, <1>2

LEMMA ChainSteps ==
    ASSUME InCallType, [Next]_vars
    PROVE  BreakerStep
<1>1. ASSUME NEW c \in Calls, Request(c) \/ Bypass(c) \/ Return(c)
      PROVE  BreakerStep
  BY <1>1 DEF Request, Begin, Bypass, Return, StageEnds, layers, breaker,
              BreakerStep
<1>2. CASE UNCHANGED vars
  BY <1>2 DEF vars, layers, breaker, BreakerStep
<1> QED
  BY <1>1, <1>2, DescendSteps, ClimbSteps, CancelSteps, TickSteps
     DEF Next, Progress

(***************************************************************************)
(* A chain, whatever its layers and their order, however its calls are     *)
(* retried, refused and cancelled, is an environment of the kind module    *)
(* CircuitBreaker assumes: an admission ends exactly once, and before the  *)
(* same call is admitted again.                                            *)
(***************************************************************************)
THEOREM ChainDrivesBreaker == Spec => DrivesBreaker
<1>1. Init => Breaker!Init
  BY DEF Init
<1>2. Init => InCallType
  BY DEF Init, Breaker!Init, InCallType
<1>3. InCallType /\ [Next]_vars => InCallType' /\ [Breaker!Next]_(Breaker!vars)
  BY ChainSteps, BreakerKeepsType DEF BreakerStep, breaker, Breaker!vars
<1> QED
  BY <1>1, <1>2, <1>3, PTL DEF Spec, DrivesBreaker, Breaker!Spec

BreakerProofs == INSTANCE CircuitBreakerProofs WITH Escapes <- {"plain", "probe"}

\* The two instances of CircuitBreaker are one.
LEMMA SameBreaker == Breaker!Spec => BreakerProofs!Spec
<1>1. Breaker!Init => BreakerProofs!Init
  BY DEF Breaker!Init, BreakerProofs!Init
<1>2. [Breaker!Next]_(Breaker!vars)
        => [BreakerProofs!Next]_(BreakerProofs!vars)
  BY DEF Breaker!Next, BreakerProofs!Next, Breaker!Admit,
         BreakerProofs!Admit, Breaker!AdmitClosed,
         BreakerProofs!AdmitClosed, Breaker!AdmitProbe,
         BreakerProofs!AdmitProbe, Breaker!MayProbe,
         BreakerProofs!MayProbe, Breaker!Elapsed,
         BreakerProofs!Elapsed, Breaker!Enter, BreakerProofs!Enter,
         Breaker!Leave, BreakerProofs!Leave, Breaker!End,
         BreakerProofs!End, Breaker!Succeed, BreakerProofs!Succeed,
         Breaker!FailProbe, BreakerProofs!FailProbe,
         Breaker!FailPlain, BreakerProofs!FailPlain, Breaker!Escape,
         BreakerProofs!Escape, Breaker!Trips, BreakerProofs!Trips,
         Breaker!ProbingAfter, BreakerProofs!ProbingAfter,
         Breaker!FailuresAfterSuccess,
         BreakerProofs!FailuresAfterSuccess, Breaker!Tick,
         BreakerProofs!Tick, Breaker!vars, BreakerProofs!vars
<1> QED
  BY <1>1, <1>2, PTL DEF Breaker!Spec, BreakerProofs!Spec

(***************************************************************************)
(* So what is proved of the breaker alone holds in every chain: its fields *)
(* agree, and a recovering service is probed by one call at a time.        *)
(***************************************************************************)
THEOREM ChainBreakerSafe == Spec => [](Breaker!StateCoherent /\ Breaker!OneProbe)
<1>1. BreakerProofs!Spec
        => [](BreakerProofs!StateCoherent /\ BreakerProofs!OneProbe)
  BY BreakerSettings, BreakerProofs!BreakerSafe
<1>2. BreakerProofs!StateCoherent /\ BreakerProofs!OneProbe
        => Breaker!StateCoherent /\ Breaker!OneProbe
  BY DEF Breaker!StateCoherent, BreakerProofs!StateCoherent, Breaker!OneProbe,
         BreakerProofs!OneProbe
<1> QED
  BY <1>1, <1>2, SameBreaker, ChainDrivesBreaker, PTL DEF DrivesBreaker

-----------------------------------------------------------------------------
(* The rate limiter.                                                       *)

\* What popleft() takes off at most: everything older than a second.
Gone == Len(window) - Len(passed)

\* The window ends with what passed in the last second; the rest is stale.
Window ==
    /\ window \in Seq(0..Second) /\ passed \in Seq(0..Second)
    /\ Gone \in Nat
    /\ \A i \in 1..Gone : window[i] = Second
    /\ \A i \in 1..Len(passed) : /\ window[Gone + i] = passed[i]
                                 /\ passed[i] < Second
    /\ \A i, j \in 1..Len(passed) : i < j => passed[j] <= passed[i]

LimitInv == Window /\ RateHonoured

\* The least number principle.
LEMMA Least ==
    ASSUME NEW T, T \subseteq Nat, T # {}
    PROVE  \E m \in T : \A n \in T : m <= n
<1>1. PICK m \in T : \A n \in T : ~(<<n, m>> \in OpToRel(<, Nat))
  BY NatLessThanWellFounded, WFMin
<1>2. ASSUME NEW n \in T PROVE m <= n
  <2>1. m \in Nat /\ n \in Nat
    OBVIOUS
  <2>2. ~(n < m)
    BY <1>1, <2>1 DEF OpToRel
  <2> QED
    BY <2>1, <2>2
<1> QED
  BY <1>2

\* The popleft() loop ends, at the first age below a second.
LEMMA PoppedExists ==
    ASSUME NEW ages \in Seq(Nat)
    PROVE  /\ Popped(ages) \in 0..Len(ages)
           /\ \A i \in 1..Popped(ages) : ages[i] >= Second
           /\ Popped(ages) < Len(ages) => ages[Popped(ages) + 1] < Second
<1> DEFINE Stops(n) == /\ \A i \in 1..n : ages[i] >= Second
                       /\ n < Len(ages) => ages[n + 1] < Second
           Young == {i \in 1..Len(ages) : ages[i] < Second}
<1>1. \A i \in 1..Len(ages) : ages[i] \in Nat
  OBVIOUS
<1>2. \E n \in 0..Len(ages) : Stops(n)
  <2>1. CASE Young = {}
    <3>1. Stops(Len(ages))
      BY <1>1, <2>1, TimesNat
    <3> QED
      BY <3>1
  <2>2. CASE Young # {}
    <3>1. Young \subseteq Nat
      OBVIOUS
    <3>2. PICK m \in Young : \A n \in Young : m <= n
      BY <2>2, <3>1, Least
    <3>3. m - 1 \in 0..Len(ages) /\ Stops(m - 1)
      BY <3>2, <1>1, TimesNat
    <3> HIDE DEF Stops
    <3> QED
      BY <3>3
  <2> QED
    BY <2>1, <2>2
<1>3. Popped(ages) \in 0..Len(ages) /\ Stops(Popped(ages))
  BY <1>2 DEF Popped
<1> QED
  BY <1>3

\* Dropping stale time stamps leaves exactly the passes of the last second.
LEMMA RecentIsPassed ==
    ASSUME Window
    PROVE  Recent(window) = passed
<1>1. /\ Popped(window) \in 0..Len(window)
      /\ \A i \in 1..Popped(window) : window[i] >= Second
      /\ Popped(window) < Len(window) => window[Popped(window) + 1] < Second
  <2>1. window \in Seq(Nat)
    BY TimesNat DEF Window
  <2> QED
    BY <2>1, PoppedExists
<1>2. /\ Len(window) = Gone + Len(passed) /\ Len(passed) \in Nat
      /\ Gone \in Nat /\ Len(window) \in Nat
  BY DEF Window, Gone
<1>3. Popped(window) = Gone
  <2>1. ~(Popped(window) < Gone)
    BY <1>1, <1>2, TimesNat DEF Window
  <2>2. ~(Gone < Popped(window))
    <3> SUFFICES ASSUME Gone < Popped(window) PROVE FALSE
      OBVIOUS
    <3>1. 1 \in 1..Len(passed) /\ Gone + 1 \in 1..Popped(window)
      BY <1>1, <1>2
    <3>2. window[Gone + 1] < Second /\ window[Gone + 1] >= Second
      BY <1>1, <3>1 DEF Window
    <3>3. window[Gone + 1] \in Nat /\ Second \in Nat
      BY <1>1, <1>2, <3>1, TimesNat DEF Window
    <3> QED
      BY <3>2, <3>3
  <2> QED
    BY <1>1, <1>2, <2>1, <2>2
<1> DEFINE live == SubSeq(window, Gone + 1, Len(window))
<1>4. /\ live \in Seq(0..Second) /\ Len(live) = Len(passed)
      /\ \A i \in 1..Len(passed) : live[i] = window[Gone + i]
  <2>1. /\ Gone + 1 \in Int /\ Len(window) \in Int
        /\ \A i \in (Gone + 1)..Len(window) : window[i] \in 0..Second
    <3>1. \A i \in 1..Len(window) : window[i] \in 0..Second
      <4>1. window \in Seq(0..Second)
        BY DEF Window
      <4> QED
        BY <4>1, TimesNat
    <3>2. \A i \in (Gone + 1)..Len(window) : i \in 1..Len(window)
      BY <1>2
    <3>3. Gone + 1 \in Int /\ Len(window) \in Int
      BY <1>2
    <3> QED
      BY <3>1, <3>2, <3>3, Zenon
  <2>2. /\ live \in Seq(0..Second)
        /\ Len(live) = IF Gone + 1 <= Len(window)
                      THEN Len(window) - (Gone + 1) + 1 ELSE 0
        /\ \A i \in 1..(Len(window) - (Gone + 1) + 1) :
               live[i] = window[(Gone + 1) + i - 1]
    BY <2>1, SubSeqProperties
  <2> HIDE DEF live
  <2>3. Len(live) = Len(passed)
    BY <1>2, <2>2
  <2>4. ASSUME NEW i \in 1..Len(passed) PROVE live[i] = window[Gone + i]
    <3>1. /\ i \in 1..(Len(window) - (Gone + 1) + 1)
          /\ (Gone + 1) + i - 1 = Gone + i
      BY <1>2
    <3> QED
      BY <2>2, <3>1
  <2> QED
    BY <2>2, <2>3, <2>4
<1>5. live = passed
  BY <1>4 DEF Window
<1> QED
  BY <1>3, <1>5 DEF Recent

\* A call that passes is one more in the window and one more that passed.
LEMMA PassKeeps ==
    ASSUME LimitInv, NEW c \in Calls, LimitPasses(c)
    PROVE  LimitInv'
<1> USE TimesNat, RpsPositive
<1>1. window' = Append(passed, 0) /\ passed' = Append(passed, 0)
  BY RecentIsPassed DEF LimitPasses, LimitInv
<1>2. Len(passed) * RpsDen < RpsNum
  BY RecentIsPassed DEF LimitPasses, HasToken, LimitInv
<1>3. passed \in Seq(0..Second) /\ Len(passed) \in Nat /\ 0 \in 0..Second
  BY DEF LimitInv, Window
<1>4. /\ passed' \in Seq(0..Second) /\ Len(passed') = Len(passed) + 1
      /\ \A i \in 1..Len(passed) : passed'[i] = passed[i]
      /\ passed'[Len(passed) + 1] = 0
  BY <1>1, <1>3, AppendProperties
<1>5. Window'
  <2>1. Gone' = 0 /\ window' = passed'
    BY <1>1, <1>3, <1>4 DEF Gone
  <2>2. ASSUME NEW i \in 1..Len(passed')
        PROVE  window'[0 + i] = passed'[i] /\ passed'[i] < Second
    <3>1. i \in 1..Len(passed) \/ i = Len(passed) + 1
      BY <1>3, <1>4
    <3>2. passed'[i] < Second
      <4>1. CASE i \in 1..Len(passed)
        BY <4>1, <1>4 DEF LimitInv, Window
      <4>2. CASE i = Len(passed) + 1
        <5>1. passed'[i] = 0
          BY <4>2, <1>4
        <5> QED
          BY <5>1
      <4> QED
        BY <3>1, <4>1, <4>2
    <3>3. 0 + i = i
      BY <1>3, <1>4
    <3> QED
      BY <2>1, <3>2, <3>3
  <2>3. ASSUME NEW i \in 1..Len(passed'), NEW j \in 1..Len(passed'), i < j
        PROVE  passed'[j] <= passed'[i]
    <3>1. i \in 1..Len(passed) /\ passed[i] \in Nat
      BY <2>3, <1>3, <1>4, SMTT(30)
    <3>2. j \in 1..Len(passed) \/ j = Len(passed) + 1
      BY <1>3, <1>4
    <3> QED
      BY <2>3, <3>1, <3>2, <1>4, SMTT(30) DEF LimitInv, Window
  <2> QED
    BY <2>1, <2>2, <2>3, <1>4 DEF Window
<1>6. RateHonoured'
  BY <1>2, <1>3, <1>4 DEF RateHonoured
<1> QED
  BY <1>5, <1>6 DEF LimitInv

\* A call that waits has cleaned the window, and knows how long to wait.
LEMMA WaitKeeps ==
    ASSUME LimitInv, NEW c \in Calls, LimitWaits(c)
    PROVE  LimitInv' /\ Second - Recent(window)[1] \in Nat
<1> USE TimesNat, RpsPositive
<1>1. window' = passed /\ passed' = passed /\ Recent(window) = passed
  BY RecentIsPassed DEF LimitWaits, LimitInv
<1>2. Gone' = 0 /\ Len(passed) \in Nat
  BY <1>1 DEF Gone, LimitInv, Window
<1>3. LimitInv'
  BY <1>1, <1>2 DEF LimitInv, Window, RateHonoured
<1>4. ~(Len(passed) * RpsDen < RpsNum)
  BY <1>1 DEF LimitWaits, HasToken
<1>5. Len(passed) # 0
  BY <1>4, <1>2
<1>6. passed[1] \in 0..Second
  BY <1>2, <1>5 DEF LimitInv, Window
<1> QED
  BY <1>1, <1>3, <1>6

\* Nonlinear arithmetic, by itself.
LEMMA TimesGrows ==
    ASSUME NEW m \in Nat, NEW n \in Nat, NEW d \in Nat, m <= n
    PROVE  m * d <= n * d
<1>1. PICK e \in Nat : n = m + e
  <2>1. n - m \in Nat /\ n = m + (n - m)
    OBVIOUS
  <2> QED
    BY <2>1
<1>2. n * d = m * d + e * d
  BY <1>1
<1>3. e * d \in Nat /\ m * d \in Nat
  BY <1>1
<1> QED
  BY <1>2, <1>3

\* A tick ages the window and forgets the passes that become a second old.
LEMMA TickKeepsLimit ==
    ASSUME LimitInv, Tick
    PROVE  LimitInv'
<1> USE TimesNat
<1> DEFINE aged == [i \in DOMAIN passed |-> passed[i] + 1]
           k == Popped(aged)
<1>1. /\ window \in Seq(0..Second) /\ passed \in Seq(0..Second)
      /\ Len(window) \in Nat /\ Len(passed) \in Nat
      /\ Len(window) = Gone + Len(passed) /\ Gone \in Nat
  BY DEF LimitInv, Window, Gone
<1>2. /\ \A i \in 1..Len(passed) : passed[i] \in 0..Second
      /\ \A i \in 1..Len(window) : window[i] \in 0..Second
  BY <1>1, SMTT(30)
<1>3. /\ aged \in Seq(Nat) /\ Len(aged) = Len(passed)
      /\ \A i \in 1..Len(passed) : aged[i] = passed[i] + 1
  <2>1. DOMAIN passed = 1..Len(passed)
    BY <1>1
  <2>2. aged \in [1..Len(passed) -> Nat]
    BY <1>2, <2>1
  <2>3. aged \in Seq(Nat) /\ Len(aged) = Len(passed)
    BY <1>1, <2>2
  <2> QED
    BY <2>1, <2>3
<1>4. /\ window' \in Seq(0..Second) /\ Len(window') = Len(window)
      /\ \A i \in 1..Len(window) :
            window'[i] = IF window[i] = Second THEN Second ELSE window[i] + 1
  <2>1. DOMAIN window = 1..Len(window)
    BY <1>1
  <2>2. window' = [i \in 1..Len(window) |-> Older(window[i], Second)]
    BY <2>1 DEF Tick
  <2>3. \A i \in 1..Len(window) :
            Older(window[i], Second)
              = IF window[i] = Second THEN Second ELSE window[i] + 1
    BY <1>2, NothingApart DEF Older
  <2>4. window' \in [1..Len(window) -> 0..Second]
    BY <1>2, <2>2, <2>3
  <2> QED
    BY <1>1, <2>2, <2>3, <2>4
<1>5. passed' = SubSeq(aged, k + 1, Len(aged))
  BY DEF Tick
<1> HIDE DEF aged
<1>6. /\ k \in 0..Len(passed)
      /\ \A i \in 1..k : aged[i] >= Second
      /\ k < Len(passed) => aged[k + 1] < Second
  BY <1>3, PoppedExists
<1> HIDE DEF k
<1>7. /\ passed' \in Seq(Nat) /\ Len(passed') = Len(passed) - k
      /\ \A i \in 1..(Len(passed) - k) : passed'[i] = passed[k + i] + 1
  <2>1. /\ k + 1 \in Int /\ Len(aged) \in Int
        /\ \A i \in (k + 1)..Len(aged) : aged[i] \in Nat
    <3>1. k + 1 \in Int /\ Len(aged) \in Int
      BY <1>1, <1>3, <1>6
    <3>2. \A i \in (k + 1)..Len(aged) : i \in 1..Len(aged)
      BY <1>1, <1>3, <1>6
    <3>3. \A i \in 1..Len(aged) : aged[i] \in Nat
      BY <1>3
    <3> QED
      BY <3>1, <3>2, <3>3, Zenon
  <2>2. /\ passed' \in Seq(Nat)
        /\ Len(passed') = IF k + 1 <= Len(aged)
                          THEN Len(aged) - (k + 1) + 1 ELSE 0
        /\ \A i \in 1..(Len(aged) - (k + 1) + 1) :
               passed'[i] = aged[(k + 1) + i - 1]
    BY <1>5, <2>1, SubSeqProperties
  <2>3. Len(passed') = Len(passed) - k
    BY <1>1, <1>3, <1>6, <2>2
  <2>4. ASSUME NEW i \in 1..(Len(passed) - k) PROVE passed'[i] = passed[k + i] + 1
    <3>1. /\ i \in 1..(Len(aged) - (k + 1) + 1) /\ (k + 1) + i - 1 = k + i
          /\ k + i \in 1..Len(passed)
      BY <1>1, <1>3, <1>6
    <3> QED
      BY <1>3, <2>2, <3>1
  <2> QED
    BY <2>2, <2>3, <2>4
<1>8. Gone' = Gone + k
  BY <1>1, <1>4, <1>6, <1>7 DEF Gone
\* What is forgotten is a second old, and what is kept is not.
<1>9. \A i \in 1..Gone' : window'[i] = Second
  <2> SUFFICES ASSUME NEW i \in 1..Gone' PROVE window'[i] = Second
    OBVIOUS
  <2>1. CASE i \in 1..Gone
    <3>1. window[i] = Second /\ i \in 1..Len(window)
      BY <1>1, <2>1 DEF LimitInv, Window
    <3> QED
      BY <1>4, <3>1
  <2>2. CASE i \notin 1..Gone
    <3>1. /\ i - Gone \in 1..k /\ i - Gone \in 1..Len(passed)
          /\ i \in 1..Len(window) /\ Gone + (i - Gone) = i
      BY <1>1, <1>6, <1>8, <2>2
    <3>2. passed[i - Gone] < Second /\ window[i] = passed[i - Gone]
      BY <3>1 DEF LimitInv, Window
    <3>3. passed[i - Gone] + 1 >= Second
      BY <3>1, <1>3, <1>6
    <3>4. passed[i - Gone] \in Nat
      BY <3>1, <1>2
    <3>5. window[i] # Second /\ window[i] + 1 = Second
      BY <3>2, <3>3, <3>4
    <3> QED
      BY <3>1, <3>5, <1>4
  <2> QED
    BY <2>1, <2>2
<1>10. ASSUME NEW i \in 1..Len(passed')
       PROVE  /\ passed'[i] < Second
              /\ window'[Gone' + i] = passed'[i]
  <2>1. /\ k + i \in 1..Len(passed) /\ k + 1 \in 1..Len(passed) /\ k < Len(passed)
        /\ i \in 1..(Len(passed) - k)
        /\ Gone' + i = Gone + (k + i) /\ Gone + (k + i) \in 1..Len(window)
    <3>1. i \in Nat /\ 1 <= i /\ i <= Len(passed) - k /\ k \in Nat
      BY <1>1, <1>6, <1>7
    <3> QED
      BY <1>1, <1>8, <3>1, SMTT(30)
  <2>2. passed'[i] = passed[k + i] + 1
    BY <1>7, <2>1
  <2>3. /\ passed[k + i] \in Nat /\ passed[k + 1] \in Nat
        /\ passed[k + 1] + 1 < Second
    BY <1>2, <1>3, <1>6, <2>1, SMTT(30)
  <2>4. passed[k + i] <= passed[k + 1]
    <3>1. k + 1 < k + i \/ k + i = k + 1
      BY <1>6, <1>7, <2>1
    <3>2. \A x, y \in 1..Len(passed) : x < y => passed[y] <= passed[x]
      BY DEF LimitInv, Window
    <3>3. CASE k + 1 < k + i
      BY <2>1, <3>2, <3>3, Zenon
    <3>4. CASE k + i = k + 1
      <4>1. passed[k + i] = passed[k + 1]
        BY <3>4
      <4> QED
        BY <2>3, <4>1
    <3> QED
      BY <3>1, <3>3, <3>4
  <2>5. window[Gone + (k + i)] = passed[k + i] /\ passed[k + i] < Second
    BY <2>1 DEF LimitInv, Window
  <2>6. window'[Gone' + i] = passed[k + i] + 1
    <3>1. window'[Gone + (k + i)]
            = IF window[Gone + (k + i)] = Second THEN Second
              ELSE window[Gone + (k + i)] + 1
      BY <1>4, <2>1
    <3>2. window'[Gone' + i] = window'[Gone + (k + i)]
      BY <2>1
    <3>3. passed[k + i] # Second
      BY <2>3, <2>5
    <3> QED
      BY <2>5, <3>1, <3>2, <3>3, Zenon
  <2> QED
    BY <2>2, <2>3, <2>4, <2>6
<1>11. ASSUME NEW i \in 1..Len(passed'), NEW j \in 1..Len(passed'), i < j
       PROVE  passed'[j] <= passed'[i]
  <2>1. /\ k + i \in 1..Len(passed) /\ k + j \in 1..Len(passed) /\ k + i < k + j
        /\ i \in 1..(Len(passed) - k) /\ j \in 1..(Len(passed) - k)
    BY <1>1, <1>6, <1>7, <1>11
  <2>2. passed[k + j] <= passed[k + i]
    BY <2>1 DEF LimitInv, Window
  <2>3. passed[k + j] \in Nat /\ passed[k + i] \in Nat
    BY <1>2, <2>1
  <2> QED
    BY <1>7, <2>1, <2>2, <2>3
<1>12. passed' \in Seq(0..Second)
  <2>1. \A i \in 1..Len(passed') : passed'[i] \in 0..Second
    BY <1>7, <1>10
  <2> QED
    BY <1>7, <2>1
<1>13. RateHonoured'
  <2>1. Len(passed') * RpsDen <= Len(passed) * RpsDen
    BY <1>1, <1>6, <1>7, TimesGrows, RpsPositive
  <2>2. /\ Len(passed') * RpsDen \in Nat /\ Len(passed) * RpsDen \in Nat
        /\ RpsNum + RpsDen \in Nat
    BY <1>1, <1>6, <1>7, RpsPositive
  <2> QED
    BY <2>1, <2>2 DEF RateHonoured, LimitInv
<1>14. Gone' \in Nat
  BY <1>1, <1>6, <1>8
<1> QED
  BY <1>4, <1>9, <1>10, <1>11, <1>12, <1>13, <1>14 DEF LimitInv, Window

\* Nothing but the limiter and time touches the time stamps.
LEMMA LimitFrame ==
    ASSUME LimitInv, UNCHANGED <<window, passed>>
    PROVE  LimitInv'
BY DEF LimitInv, Window, Gone, RateHonoured

LEMMA LimitSteps ==
    ASSUME LimitInv, [Next]_vars
    PROVE  LimitInv'
<1>1. ASSUME NEW c \in Calls, Descend(c)
      PROVE  LimitInv'
  <2>1. CASE EnterRetry(c) \/ CacheHit(c) \/ CacheMiss(c) \/ BreakerAdmits(c)
             \/ BreakerRefuses(c) \/ RunStage(c)
    BY <2>1, LimitFrame DEF EnterRetry, CacheHit, CacheMiss, BreakerAdmits,
       BreakerRefuses, RunStage, layers
  <2> QED
    BY <1>1, <2>1, PassKeeps, WaitKeeps DEF Descend
<1>2. ASSUME NEW c \in Calls, Climb(c)
      PROVE  LimitInv'
  BY <1>2, LimitFrame DEF Climb, BackOff, RetryWakes, LeaveRetry, CacheStore,
     CacheRefusesSend, CacheFails, LeaveBreaker, LimitWakes, LeaveLimit, layers
<1>3. ASSUME NEW c \in Calls, Request(c) \/ Bypass(c) \/ Return(c) \/ Cancel(c)
      PROVE  LimitInv'
  BY <1>3, LimitFrame DEF Request, Begin, Bypass, Return, StageEnds, Cancel, layers
<1>4. CASE UNCHANGED vars
  BY <1>4, LimitFrame DEF vars, layers
<1> QED
  BY <1>1, <1>2, <1>3, <1>4, TickKeepsLimit DEF Next, Progress

(***************************************************************************)
(* No second sees more calls pass than rps rounded up: whatever the rate,  *)
(* however many calls wait, and in whatever order they wake.  What makes   *)
(* it so is that dropping the time stamps a second old leaves in _window   *)
(* one for each call that passed since, no more and no fewer.              *)
(***************************************************************************)
THEOREM RateIsHonoured == Spec => []RateHonoured
<1>1. Init => LimitInv
  BY TimesNat, RpsPositive DEF Init, LimitInv, Window, Gone, RateHonoured
<1>2. LimitInv /\ [Next]_vars => LimitInv'
  BY LimitSteps
<1>3. LimitInv => RateHonoured
  BY DEF LimitInv
<1> QED
  BY <1>1, <1>2, <1>3, PTL DEF Spec

-----------------------------------------------------------------------------
(* The calls in the layers.                                                *)

Names == {"retry", "cache", "breaker", "limit"}

\* A call is deeper than a layer, or at least as deep.
Past(c, layer) == \E i \in DOMAIN chain : chain[i] = layer /\ i < at[c]

In(c, layer) == \E i \in DOMAIN chain : chain[i] = layer /\ i <= at[c]

Results == [kind : {"context", "send"} \cup Errors, by : Calls]

CallTypes ==
    /\ chain \in Chains
    /\ phase \in [Calls -> {"idle", "enter", "stage", "leave", "nap", "done"}]
    /\ at \in [Calls -> 0..(Len(chain) + 1)]
    /\ request \in [Calls -> Requests \cup {Nothing}]
    /\ result \in [Calls -> Results \cup {Nothing}]
    /\ attempt \in [Calls -> 0..MaxAttempts]
    /\ nap \in [Calls -> Nat]
    /\ asked \in [Calls -> Ages(Ttl)] /\ began \in [Calls -> Ages(Ttl)]
    /\ ran \in [Calls -> Nat]
    /\ entries \in [Keys -> [by : Calls, age : 0..Ttl] \cup {Nothing}]

\* Where a call can be in each phase, and what it then has.
Placed(c) ==
    /\ at[c] = 0 <=> phase[c] \in {"idle", "done"}
    /\ phase[c] = "idle" =>
          request[c] = Nothing /\ result[c] = Nothing /\ ran[c] = 0
    /\ phase[c] # "idle" => request[c] \in Requests
    /\ phase[c] \in {"leave", "done"} => result[c] \in Results
    /\ phase[c] = "stage" => at[c] = Len(chain) + 1
    /\ phase[c] = "nap" => Layer(c) \in {"retry", "limit"}
    /\ nap[c] > 0 => phase[c] = "nap"

\* On its way to the stage a call has a run to spend; a failure the retry is
\* to catch gets past it only when there is none left.
Counts(c) ==
    /\ phase[c] # "idle" =>
          ran[c] <= IF Wrapped("retry") /\ ~IsStream(c) THEN attempt[c] ELSE 1
    /\ (phase[c] = "enter" \/ (phase[c] = "nap" /\ Layer(c) # "retry")) =>
          ran[c] < IF Past(c, "retry") /\ ~IsStream(c) THEN attempt[c] ELSE 1
    /\ (phase[c] = "nap" /\ Layer(c) = "retry") =>
          ~IsStream(c) /\ attempt[c] < MaxAttempts
    /\ (/\ phase[c] \in {"leave", "done"}
        /\ result[c].kind \in Raised \cap RetryOn
        /\ Wrapped("retry") /\ ~In(c, "retry") /\ ~IsStream(c)) =>
          attempt[c] = MaxAttempts

\* Between a miss and the storing the cache has its time stamp; the run whose
\* context is stored began after it, and is the call's own.
Asks(c) ==
    /\ Past(c, "cache") /\ ~IsStream(c) => asked[c] # Nothing
    /\ (/\ phase[c] = "stage" \/ (phase[c] = "leave" /\ result[c].kind = "context")
        /\ In(c, "cache") /\ ~IsStream(c)) =>
          /\ began[c] # Nothing /\ asked[c] # Nothing /\ began[c] <= asked[c]
          /\ phase[c] = "leave" => result[c].by = c

Gives(c) ==
    (result[c] # Nothing /\ result[c].kind = "context") =>
        /\ phase[result[c].by] # "idle"
        /\ SameWork(request[result[c].by], request[c])
        /\ result[c].by # c => Wrapped("cache") /\ ~IsStream(c)

\* An entry is no younger than the run it comes from.
Holds(k) ==
    entries[k] # Nothing =>
        /\ phase[entries[k].by] # "idle"
        /\ KeyOf(request[entries[k].by]) = k
        /\ began[entries[k].by] # Nothing
        /\ began[entries[k].by] <= entries[k].age

CallInv(c) == Placed(c) /\ Counts(c) /\ Asks(c)

LayersInv ==
    /\ CallTypes
    /\ \A c \in Calls : CallInv(c) /\ Gives(c)
    /\ \A k \in Keys : Holds(k)

\* A chain is a sequence of different layers.
LEMMA ChainType ==
    ASSUME CallTypes
    PROVE  /\ Len(chain) \in Nat /\ DOMAIN chain = 1..Len(chain)
           /\ \A i \in DOMAIN chain : chain[i] \in Names
           /\ \A i, j \in DOMAIN chain : chain[i] = chain[j] => i = j
<1>1. chain \in Seq(Names)
  BY LayersOnce DEF CallTypes, Names
<1> QED
  BY <1>1, LayersOnce DEF CallTypes

\* Where a call in a layer is.
LEMMA InLayer ==
    ASSUME CallTypes, NEW c \in Calls, NEW layer \in Names, Layer(c) = layer
    PROVE  /\ at[c] \in 1..Len(chain)
           /\ Wrapped(layer) /\ In(c, layer) /\ ~Past(c, layer)
           /\ \A other \in Names \ {layer} : In(c, other) <=> Past(c, other)
<1>1. at[c] \in DOMAIN chain /\ chain[at[c]] = layer
  BY DEF Layer, Names
<1>2. at[c] \in 1..Len(chain)
  BY <1>1, ChainType
<1>3. Wrapped(layer) /\ In(c, layer)
  BY <1>1, <1>2 DEF Wrapped, In
<1>4. ~Past(c, layer)
  BY <1>1, <1>2, ChainType DEF Past
<1>5. ASSUME NEW other \in Names \ {layer} PROVE In(c, other) <=> Past(c, other)
  BY <1>1, <1>2, ChainType DEF In, Past
<1> QED
  BY <1>2, <1>3, <1>4, <1>5

\* Where a call at the end of the chain is: in every layer there is.
LEMMA AtEnd ==
    ASSUME CallTypes, NEW c \in Calls,
           at[c] = Len(chain) + 1 \/ (Layer(c) = "stage" /\ at[c] # 0)
    PROVE  /\ at[c] = Len(chain) + 1
           /\ \A layer \in Names : /\ In(c, layer) <=> Wrapped(layer)
                                   /\ Past(c, layer) <=> Wrapped(layer)
<1>1. at[c] = Len(chain) + 1
  <2>1. Layer(c) = "stage" => at[c] \notin DOMAIN chain
    BY ChainType DEF Layer, Names
  <2>2. at[c] \in 0..(Len(chain) + 1)
    BY DEF CallTypes
  <2> QED
    BY <2>1, <2>2, ChainType
<1> QED
  BY <1>1, ChainType DEF In, Past, Wrapped

\* A call goes in or out by one layer.
LEMMA GoesIn ==
    ASSUME CallTypes, NEW c \in Calls, at[c] \in 1..Len(chain), Inward(c),
           chain' = chain
    PROVE  /\ phase' \in [Calls -> {"idle", "enter", "stage", "leave", "nap", "done"}]
           /\ at' \in [Calls -> 0..(Len(chain') + 1)]
           /\ phase'[c] = "enter" /\ at'[c] # 0
           /\ \A layer \in Names : /\ Past(c, layer)' <=> In(c, layer)
                                   /\ Wrapped(layer)' <=> Wrapped(layer)
           /\ \A d \in Calls \ {c} : phase'[d] = phase[d] /\ at'[d] = at[d]
<1>1. at'[c] = at[c] + 1 /\ phase'[c] = "enter"
  BY DEF Inward, CallTypes
<1>2. \A layer \in Names : Past(c, layer)' <=> In(c, layer)
  BY <1>1, ChainType DEF Past, In
<1>3. /\ phase' \in [Calls -> {"idle", "enter", "stage", "leave", "nap", "done"}]
      /\ at' \in [Calls -> 0..(Len(chain') + 1)]
      /\ \A d \in Calls \ {c} : phase'[d] = phase[d] /\ at'[d] = at[d]
  BY ChainType DEF Inward, CallTypes
<1> QED
  BY <1>1, <1>2, <1>3 DEF Wrapped

LEMMA GoesOut ==
    ASSUME CallTypes, NEW c \in Calls, at[c] # 0, Outward(c),
           chain' = chain
    PROVE  /\ phase' \in [Calls -> {"idle", "enter", "stage", "leave", "nap", "done"}]
           /\ at' \in [Calls -> 0..(Len(chain') + 1)]
           /\ phase'[c] = "leave" \/ (phase'[c] = "done" /\ at'[c] = 0)
           /\ phase'[c] = "leave" => at'[c] # 0
           /\ \A layer \in Names : Past(c, layer)' => In(c, layer)'
           /\ \A layer \in Names : /\ In(c, layer)' <=> Past(c, layer)
                                   /\ Wrapped(layer)' <=> Wrapped(layer)
           /\ \A d \in Calls \ {c} : phase'[d] = phase[d] /\ at'[d] = at[d]
<1>1. /\ at'[c] = at[c] - 1 /\ at[c] \in 1..(Len(chain) + 1)
      /\ phase'[c] = IF at[c] = 1 THEN "done" ELSE "leave"
  BY ChainType DEF Outward, CallTypes
<1>2. \A layer \in Names : In(c, layer)' <=> Past(c, layer)
  BY <1>1, ChainType DEF Past, In
<1>3. /\ phase' \in [Calls -> {"idle", "enter", "stage", "leave", "nap", "done"}]
      /\ at' \in [Calls -> 0..(Len(chain') + 1)]
      /\ \A d \in Calls \ {c} : phase'[d] = phase[d] /\ at'[d] = at[d]
  BY <1>1, ChainType, SMTT(30) DEF Outward, CallTypes
<1>4. \A layer \in Names : Past(c, layer)' => In(c, layer)'
  BY <1>1, ChainType DEF Past, In
<1> QED
  BY <1>1, <1>2, <1>3, <1>4, ChainType DEF Wrapped

\* A step of one call, as the others see it.
Alone(c) ==
    /\ chain' = chain
    /\ \A d \in Calls \ {c} :
          /\ phase'[d] = phase[d] /\ at'[d] = at[d]
          /\ request'[d] = request[d] /\ result'[d] = result[d]
          /\ attempt'[d] = attempt[d] /\ nap'[d] = nap[d]
          /\ asked'[d] = asked[d] /\ began'[d] = began[d] /\ ran'[d] = ran[d]

\* A call that is under way has asked for something, and goes on with it.
Goes(c) == phase[c] # "idle" /\ phase'[c] # "idle" /\ request'[c] = request[c]

\* The others keep their part of the invariant.
LEMMA OthersKeep ==
    ASSUME NEW c \in Calls, Alone(c), NEW d \in Calls \ {c}, CallInv(d)
    PROVE  CallInv(d)'
<1>1. /\ phase'[d] = phase[d] /\ at'[d] = at[d] /\ chain' = chain
      /\ request'[d] = request[d] /\ result'[d] = result[d]
      /\ attempt'[d] = attempt[d] /\ nap'[d] = nap[d]
      /\ asked'[d] = asked[d] /\ began'[d] = began[d] /\ ran'[d] = ran[d]
  BY DEF Alone
<1>2. /\ \A layer : /\ Past(d, layer)' <=> Past(d, layer)
                    /\ In(d, layer)' <=> In(d, layer)
                    /\ Wrapped(layer)' <=> Wrapped(layer)
      /\ IsStream(d)' <=> IsStream(d)
      /\ Layer(d)' = Layer(d)
  BY <1>1 DEF Past, In, Wrapped, IsStream, Layer
<1>3. Placed(d)'
  BY <1>1, <1>2 DEF CallInv, Placed
<1>4. Counts(d)'
  BY <1>1, <1>2 DEF CallInv, Counts
<1>5. Asks(d)'
  BY <1>1, <1>2 DEF CallInv, Asks
<1> QED
  BY <1>3, <1>4, <1>5 DEF CallInv

\* Whose context a call gave is not forgotten.
LEMMA GivesKept ==
    ASSUME LayersInv, NEW c \in Calls, Alone(c),
           Goes(c) \/ phase[c] = "idle", NEW d \in Calls,
           Gives(d), result'[d] = result[d], phase[d] # "idle"
    PROVE  Gives(d)'
<1>1. \A e \in Calls : phase[e] # "idle" =>
          phase'[e] # "idle" /\ request'[e] = request[e]
  BY DEF Alone, Goes
<1>2. CASE result[d] # Nothing /\ result[d].kind = "context"
  <2>1. result[d].by \in Calls
    BY <1>2 DEF LayersInv, CallTypes, Results
  <2>2. chain' = chain
    BY DEF Alone
  <2> QED
    BY <1>1, <1>2, <2>1, <2>2 DEF Gives, SameWork, Wrapped, IsStream
<1>3. CASE ~(result[d] # Nothing /\ result[d].kind = "context")
  BY <1>3 DEF Gives
<1> QED
  BY <1>2, <1>3

\* What is left to show of a step of one call.
LEMMA CallStep ==
    ASSUME LayersInv, NEW c \in Calls, Alone(c), Goes(c) \/ phase[c] = "idle",
           CallTypes', CallInv(c)', Gives(c)',
           began'[c] = began[c] \/ began'[c] = 0,
           \A k \in Keys : entries'[k] = entries[k] \/ Holds(k)'
    PROVE  LayersInv'
<1>1. ASSUME NEW d \in Calls PROVE CallInv(d)' /\ Gives(d)'
  <2>1. CASE d = c
    BY <2>1
  <2>2. CASE d # c
    <3>1. CallInv(d)'
      BY <2>2, OthersKeep DEF LayersInv
    <3>2. result'[d] = result[d]
      BY <2>2 DEF Alone
    <3>3. CASE phase[d] # "idle"
      BY <3>1, <3>2, <3>3, GivesKept DEF LayersInv
    <3>4. CASE phase[d] = "idle"
      <4>1. result'[d] = Nothing
        BY <3>2, <3>4 DEF LayersInv, CallInv, Placed
      <4> QED
        BY <3>1, <4>1 DEF Gives
    <3> QED
      BY <3>3, <3>4
  <2> QED
    BY <2>1, <2>2
<1>2. ASSUME NEW k \in Keys, entries'[k] = entries[k] PROVE Holds(k)'
  <2>1. CASE entries[k] = Nothing
    BY <1>2, <2>1 DEF Holds
  <2>2. CASE entries[k] # Nothing
    <3> DEFINE by == entries[k].by
    <3>1. by \in Calls /\ entries[k].age \in 0..Ttl
      BY <2>2 DEF LayersInv, CallTypes
    <3>2. /\ phase[by] # "idle" /\ KeyOf(request[by]) = k
          /\ began[by] # Nothing /\ began[by] <= entries[k].age
      BY <2>2 DEF LayersInv, Holds
    <3>3. phase'[by] # "idle" /\ request'[by] = request[by]
      BY <3>1, <3>2 DEF Alone, Goes
    <3>4. began'[by] = began[by] \/ began'[by] = 0
      BY <3>1 DEF Alone
    <3>5. began'[by] # Nothing /\ began'[by] <= entries[k].age
      BY <3>1, <3>2, <3>4, NothingApart, TimesNat
    <3> QED
      BY <1>2, <3>2, <3>3, <3>5 DEF Holds, KeyOf
  <2> QED
    BY <2>1, <2>2
<1> QED
  BY <1>1, <1>2 DEF LayersInv

\* A layer calls the next one.
LEMMA Enters ==
    ASSUME LayersInv, NEW c \in Calls, NEW layer \in Names, Layer(c) = layer,
           phase[c] = "enter" \/ (phase[c] = "nap" /\ layer = "retry"),
           nap[c] = 0, Inward(c),
           UNCHANGED <<chain, request, result, nap, ran, began, entries>>,
           attempt' \in [Calls -> 0..MaxAttempts],
           asked' \in [Calls -> Ages(Ttl)],
           \A d \in Calls \ {c} : attempt'[d] = attempt[d] /\ asked'[d] = asked[d],
           IF layer = "retry" /\ ~IsStream(c) THEN ran[c] < attempt'[c]
           ELSE attempt'[c] = attempt[c],
           IF layer = "cache" /\ ~IsStream(c) THEN asked'[c] # Nothing
           ELSE asked'[c] = asked[c]
    PROVE  LayersInv'
<1>1. CallTypes /\ Placed(c) /\ Counts(c) /\ Asks(c) /\ Gives(c)
  BY DEF LayersInv, CallInv
<1>2. /\ at[c] \in 1..Len(chain)
      /\ Wrapped(layer) /\ In(c, layer) /\ ~Past(c, layer)
      /\ \A other \in Names \ {layer} : In(c, other) <=> Past(c, other)
  BY <1>1, InLayer
<1>3. /\ phase' \in [Calls -> {"idle", "enter", "stage", "leave", "nap", "done"}]
      /\ at' \in [Calls -> 0..(Len(chain') + 1)]
      /\ phase'[c] = "enter" /\ at'[c] # 0
      /\ \A l \in Names : /\ Past(c, l)' <=> In(c, l)
                          /\ Wrapped(l)' <=> Wrapped(l)
      /\ \A d \in Calls \ {c} : phase'[d] = phase[d] /\ at'[d] = at[d]
  BY <1>1, <1>2, GoesIn
<1>4. CallTypes'
  BY <1>1, <1>3 DEF CallTypes
<1>5. Alone(c) /\ Goes(c)
  BY <1>3 DEF Alone, Goes
<1>6. Placed(c)'
  BY <1>1, <1>3 DEF Placed
<1>7. IsStream(c)' <=> IsStream(c)
  BY DEF IsStream
<1>8. /\ "retry" \in Names /\ "cache" \in Names
      /\ layer # "retry" => (In(c, "retry") <=> Past(c, "retry"))
      /\ layer # "cache" => (In(c, "cache") <=> Past(c, "cache"))
  BY <1>2 DEF Names
<1>9. Counts(c)'
  <2>1. attempt[c] \in Nat /\ attempt'[c] \in Nat /\ ran[c] \in Nat /\ ran' = ran
    BY <1>1, AttemptsPositive DEF CallTypes
  <2>2. Past(c, "retry")' <=> In(c, "retry")
    BY <1>3, <1>8
  <2>3. Wrapped("retry")' <=> Wrapped("retry")
    BY <1>3, <1>8
  <2>4. CASE layer = "retry" /\ ~IsStream(c)
    BY <1>2, <1>3, <1>7, <2>1, <2>2, <2>3, <2>4 DEF Counts
  <2>5. CASE ~(layer = "retry" /\ ~IsStream(c))
    <3>1. phase[c] = "enter" \/ (phase[c] = "nap" /\ Layer(c) = "retry")
      OBVIOUS
    <3>2. phase[c] = "enter"
      BY <1>1, <2>5, <3>1 DEF Counts
    <3>3. ran[c] < IF Past(c, "retry") /\ ~IsStream(c) THEN attempt[c] ELSE 1
      BY <1>1, <3>2 DEF Counts
    <3>4. (Past(c, "retry")' /\ ~IsStream(c)') <=> (Past(c, "retry") /\ ~IsStream(c))
      BY <1>7, <1>8, <2>2, <2>5
    <3> QED
      BY <1>1, <1>3, <1>7, <2>1, <2>3, <2>5, <3>2, <3>3, <3>4 DEF Counts
  <2> QED
    BY <2>4, <2>5
<1>10. Asks(c)'
  <2>1. Past(c, "cache")' <=> In(c, "cache")
    BY <1>3, <1>8
  <2> QED
    BY <1>1, <1>3, <1>7, <1>8, <2>1 DEF Asks
<1>11. Gives(c)'
  BY <1>1, <1>3, <1>5, GivesKept DEF Goes
<1> QED
  BY <1>4, <1>5, <1>6, <1>9, <1>10, <1>11, CallStep DEF CallInv

\* A layer returns or raises to the one around it.
LEMMA Leaves ==
    ASSUME LayersInv, NEW c \in Calls, NEW layer \in Names, Layer(c) = layer,
           phase[c] \in {"enter", "leave"}, Outward(c),
           UNCHANGED <<chain, request, attempt, nap, ran, began>>,
           result' \in [Calls -> Results \cup {Nothing}], result'[c] \in Results,
           asked' \in [Calls -> Ages(Ttl)],
           entries' \in [Keys -> [by : Calls, age : 0..Ttl] \cup {Nothing}],
           \A d \in Calls \ {c} : result'[d] = result[d] /\ asked'[d] = asked[d],
           \A k \in Keys : entries'[k] = entries[k] \/ Holds(k)',
           Gives(c)' \/ (phase[c] = "leave" /\ result'[c] = result[c]),
           (layer = "cache" /\ ~IsStream(c)) \/ asked'[c] = asked[c],
           result'[c].kind \in Raised \cap RetryOn =>
              /\ result'[c] = result[c] /\ phase[c] = "leave"
              /\ layer = "retry" /\ ~IsStream(c) => attempt[c] = MaxAttempts,
           result'[c].kind = "context" =>
              \/ result'[c] = result[c] /\ phase[c] = "leave"
              \/ layer = "cache"
    PROVE  LayersInv'
<1>1. CallTypes /\ Placed(c) /\ Counts(c) /\ Asks(c) /\ Gives(c)
  BY DEF LayersInv, CallInv
<1>2. /\ at[c] \in 1..Len(chain)
      /\ Wrapped(layer) /\ In(c, layer) /\ ~Past(c, layer)
      /\ \A other \in Names \ {layer} : In(c, other) <=> Past(c, other)
  BY <1>1, InLayer
<1>3. /\ phase' \in [Calls -> {"idle", "enter", "stage", "leave", "nap", "done"}]
      /\ at' \in [Calls -> 0..(Len(chain') + 1)]
      /\ phase'[c] = "leave" \/ (phase'[c] = "done" /\ at'[c] = 0)
      /\ phase'[c] = "leave" => at'[c] # 0
      /\ \A l \in Names : Past(c, l)' => In(c, l)'
      /\ \A l \in Names : /\ In(c, l)' <=> Past(c, l)
                          /\ Wrapped(l)' <=> Wrapped(l)
      /\ \A d \in Calls \ {c} : phase'[d] = phase[d] /\ at'[d] = at[d]
  BY <1>1, <1>2, GoesOut
<1>4. CallTypes'
  BY <1>1, <1>3 DEF CallTypes
<1>5. Alone(c) /\ Goes(c)
  BY <1>3 DEF Alone, Goes
<1>6. Placed(c)'
  BY <1>1, <1>3 DEF Placed
<1>7. IsStream(c)' <=> IsStream(c)
  BY DEF IsStream
<1>8. /\ "retry" \in Names /\ "cache" \in Names
      /\ layer # "retry" => (In(c, "retry") <=> Past(c, "retry"))
      /\ layer # "cache" => (In(c, "cache") <=> Past(c, "cache"))
  BY <1>2 DEF Names
<1>9. Counts(c)'
  <2>1. In(c, "retry")' <=> Past(c, "retry")
    BY <1>3, <1>8
  <2>2. Wrapped("retry")' <=> Wrapped("retry")
    BY <1>3, <1>8
  <2>3. ASSUME result'[c].kind \in Raised \cap RetryOn, Wrapped("retry"),
               ~Past(c, "retry"), ~IsStream(c)
        PROVE  attempt'[c] = MaxAttempts
    BY <1>1, <1>8, <2>3 DEF Counts
  <2>4. ran'[c] <= IF Wrapped("retry") /\ ~IsStream(c) THEN attempt'[c] ELSE 1
    BY <1>1 DEF Counts
  <2> QED
    BY <1>3, <1>7, <2>1, <2>2, <2>3, <2>4 DEF Counts
<1>10. Asks(c)'
  <2>1. In(c, "cache")' <=> Past(c, "cache")
    BY <1>3, <1>8
  <2>2. ASSUME phase'[c] = "leave", result'[c].kind = "context",
               Past(c, "cache"), ~IsStream(c)
        PROVE  /\ began[c] # Nothing /\ asked'[c] # Nothing /\ began[c] <= asked'[c]
               /\ result'[c].by = c
    BY <1>1, <1>2, <1>8, <2>2 DEF Asks
  <2>3. Past(c, "cache")' /\ ~IsStream(c) => asked'[c] # Nothing
    BY <1>1, <1>2, <1>3, <1>8, <2>1 DEF Asks
  <2> QED
    BY <1>3, <1>7, <2>1, <2>2, <2>3 DEF Asks
<1>11. Gives(c)'
  BY <1>1, <1>5, GivesKept DEF Goes
<1> QED
  BY <1>4, <1>5, <1>6, <1>9, <1>10, <1>11, CallStep DEF CallInv

\* A call that moves to another phase, in the layer where it is.
LEMMA Stays ==
    ASSUME LayersInv, NEW c \in Calls, NEW to \in {"enter", "stage", "nap"},
           phase[c] # "idle", at[c] # 0, phase' = [phase EXCEPT ![c] = to],
           UNCHANGED <<chain, at, request, result, attempt, asked, entries>>,
           nap' \in [Calls -> Nat], ran' \in [Calls -> Nat],
           began' \in [Calls -> Ages(Ttl)],
           \A d \in Calls \ {c} :
              nap'[d] = nap[d] /\ ran'[d] = ran[d] /\ began'[d] = began[d],
           began'[c] = began[c] \/ began'[c] = 0,
           to # "nap" => nap'[c] = 0,
           to = "stage" => at[c] = Len(chain) + 1,
           to = "nap" => Layer(c) \in {"retry", "limit"},
           Counts(c)', Asks(c)'
    PROVE  LayersInv'
<1>1. CallTypes /\ Placed(c) /\ Gives(c)
  BY DEF LayersInv, CallInv
<1>2. /\ phase' \in [Calls -> {"idle", "enter", "stage", "leave", "nap", "done"}]
      /\ phase'[c] = to
      /\ \A d \in Calls \ {c} : phase'[d] = phase[d]
  BY <1>1 DEF CallTypes
<1>3. CallTypes'
  BY <1>1, <1>2 DEF CallTypes
<1>4. Alone(c) /\ Goes(c)
  BY <1>2 DEF Alone, Goes
<1>5. Layer(c)' = Layer(c)
  BY DEF Layer
<1>6. Placed(c)'
  BY <1>1, <1>2, <1>3, <1>5 DEF Placed, CallTypes
<1>7. Gives(c)'
  BY <1>1, <1>4, GivesKept
<1> QED
  BY <1>3, <1>4, <1>6, <1>7, CallStep DEF CallInv

\* What a call that does not move keeps.
LEMMA SamePlace ==
    ASSUME NEW c \in Calls, UNCHANGED <<chain, at, request>>
    PROVE  /\ \A l : /\ Past(c, l)' <=> Past(c, l)
                     /\ In(c, l)' <=> In(c, l)
                     /\ Wrapped(l)' <=> Wrapped(l)
           /\ IsStream(c)' <=> IsStream(c)
           /\ Layer(c)' = Layer(c)
BY DEF Past, In, Wrapped, IsStream, Layer

\* What the invariant says of one call.
LEMMA OfCall ==
    ASSUME LayersInv, NEW c \in Calls
    PROVE  /\ CallTypes /\ Placed(c) /\ Counts(c) /\ Asks(c) /\ Gives(c)
           /\ "retry" \in Names /\ "cache" \in Names
           /\ "breaker" \in Names /\ "limit" \in Names
           /\ \A layer \in Names : Layer(c) = layer => at[c] \in 1..Len(chain)
BY InLayer DEF LayersInv, CallInv, Names

LEMMA RunStageKeeps ==
    ASSUME LayersInv, NEW c \in Calls, RunStage(c)
    PROVE  LayersInv'
<1>1. CallTypes /\ Placed(c) /\ Counts(c) /\ Asks(c)
  BY OfCall
<1>2. /\ at[c] = Len(chain) + 1 /\ at[c] # 0
      /\ \A layer \in Names : /\ In(c, layer) <=> Wrapped(layer)
                              /\ Past(c, layer) <=> Wrapped(layer)
  <2>1. Layer(c) = "stage" /\ at[c] # 0
    BY <1>1 DEF RunStage, Entering, Placed
  <2> QED
    BY <1>1, <2>1, AtEnd
<1>3. /\ phase[c] = "enter" /\ phase' = [phase EXCEPT ![c] = "stage"]
      /\ phase'[c] = "stage"
      /\ ran' = [ran EXCEPT ![c] = @ + 1] /\ began' = [began EXCEPT ![c] = 0]
      /\ UNCHANGED <<chain, at, request, result, attempt, nap, asked, entries>>
  BY <1>1 DEF RunStage, Entering, locals, layers, CallTypes
<1>4. /\ ran[c] \in Nat /\ ran' \in [Calls -> Nat] /\ ran'[c] = ran[c] + 1
      /\ began' \in [Calls -> Ages(Ttl)] /\ began'[c] = 0
      /\ attempt[c] \in Nat
  BY <1>1, <1>3, TimesNat, AttemptsPositive DEF CallTypes, Ages
<1>5. Counts(c)'
  <2>1. "retry" \in Names
    BY DEF Names
  <2>2. ran'[c] <= IF Wrapped("retry") /\ ~IsStream(c) THEN attempt'[c] ELSE 1
    BY <1>1, <1>2, <1>3, <1>4, <2>1 DEF Counts
  <2> QED
    BY <1>3, <2>2, SamePlace DEF Counts
<1>6. Asks(c)'
  <2>1. "cache" \in Names
    BY DEF Names
  <2>2. In(c, "cache") /\ ~IsStream(c) => asked[c] # Nothing
    BY <1>1, <1>2, <1>3, <2>1 DEF Asks
  <2>3. asked[c] # Nothing => 0 <= asked[c]
    BY <1>1, TimesNat DEF CallTypes, Ages
  <2>4. Past(c, "cache") /\ ~IsStream(c) => asked[c] # Nothing
    BY <1>1 DEF Asks
  <2>5. began'[c] # Nothing
    BY <1>4, NothingApart
  <2> QED
    BY <1>3, <1>4, <2>2, <2>3, <2>4, <2>5, SamePlace DEF Asks
<1>7. nap[c] = 0
  BY <1>1, <1>3 DEF Placed, CallTypes
<1> QED
  BY <1>1, <1>2, <1>3, <1>4, <1>5, <1>6, <1>7, Stays DEF CallTypes

LEMMA BackOffKeeps ==
    ASSUME LayersInv, NEW c \in Calls, BackOff(c)
    PROVE  LayersInv'
<1>1. CallTypes /\ Placed(c) /\ Counts(c) /\ Asks(c) /\ at[c] \in 1..Len(chain)
  BY OfCall DEF BackOff, Leaving
<1>2. /\ phase[c] = "leave" /\ phase' = [phase EXCEPT ![c] = "nap"]
      /\ Layer(c) = "retry" /\ ~IsStream(c) /\ attempt[c] # MaxAttempts
      /\ UNCHANGED <<chain, at, request, result, attempt, asked, entries,
                     ran, began>>
  BY DEF BackOff, Leaving, Again, Sleep, layers
<1>3. phase'[c] = "nap" /\ at[c] # 0
  BY <1>1, <1>2 DEF CallTypes
<1>4. /\ nap' \in [Calls -> Nat]
      /\ \A d \in Calls \ {c} : nap'[d] = nap[d]
  <2>1. PICK d \in Delays(attempt[c]) : Sleep(c, d)
    BY DEF BackOff
  <2>2. d \in Nat
    BY <2>1 DEF Delays
  <2> QED
    BY <1>1, <2>1, <2>2 DEF Sleep, CallTypes
<1>5. attempt[c] < MaxAttempts
  BY <1>1, <1>2, AttemptsPositive DEF CallTypes
<1>6. Counts(c)'
  BY <1>1, <1>2, <1>3, <1>5, SamePlace DEF Counts
<1>7. Asks(c)'
  BY <1>1, <1>2, <1>3, SamePlace DEF Asks
<1> QED
  BY <1>1, <1>2, <1>3, <1>4, <1>6, <1>7, Stays DEF CallTypes

\* The retry.
LEMMA EnterRetryKeeps ==
    ASSUME LayersInv, NEW c \in Calls, EnterRetry(c)
    PROVE  LayersInv'
<1>1. CallTypes /\ Placed(c) /\ Counts(c) /\ "retry" \in Names
  BY OfCall
<1>2. /\ phase[c] = "enter" /\ Layer(c) = "retry" /\ ~IsStream(c) /\ Inward(c)
      /\ attempt' = [attempt EXCEPT ![c] = 1]
      /\ UNCHANGED <<chain, request, result, nap, asked, ran, began, entries>>
  BY DEF EnterRetry, Entering, layers
<1>3. nap[c] = 0
  BY <1>1, <1>2 DEF Placed, CallTypes
<1>4. /\ attempt' \in [Calls -> 0..MaxAttempts] /\ attempt'[c] = 1
      /\ asked' \in [Calls -> Ages(Ttl)]
      /\ \A d \in Calls \ {c} : attempt'[d] = attempt[d] /\ asked'[d] = asked[d]
  BY <1>1, <1>2, AttemptsPositive DEF CallTypes
<1>5. ran[c] < attempt'[c]
  <2>1. ~Past(c, "retry")
    BY <1>1, <1>2, InLayer
  <2> QED
    BY <1>1, <1>2, <1>4, <2>1 DEF Counts
<1> QED
  BY <1>1, <1>2, <1>3, <1>4, <1>5, Enters

LEMMA RetryWakesKeeps ==
    ASSUME LayersInv, NEW c \in Calls, RetryWakes(c)
    PROVE  LayersInv'
<1>1. CallTypes /\ Placed(c) /\ Counts(c) /\ "retry" \in Names
  BY OfCall
<1>2. /\ phase[c] = "nap" /\ Layer(c) = "retry" /\ nap[c] = 0 /\ Inward(c)
      /\ attempt' = [attempt EXCEPT ![c] = @ + 1]
      /\ UNCHANGED <<chain, request, result, nap, asked, ran, began, entries>>
  BY DEF RetryWakes, layers
<1>3. attempt[c] \in Nat /\ attempt[c] < MaxAttempts /\ ~IsStream(c)
  BY <1>1, <1>2, AttemptsPositive DEF Counts, CallTypes
<1>4. /\ attempt' \in [Calls -> 0..MaxAttempts] /\ attempt'[c] = attempt[c] + 1
      /\ asked' \in [Calls -> Ages(Ttl)]
      /\ \A d \in Calls \ {c} : attempt'[d] = attempt[d] /\ asked'[d] = asked[d]
  BY <1>1, <1>2, <1>3, AttemptsPositive DEF CallTypes
<1>5. ran[c] < attempt'[c]
  <2>1. Wrapped("retry")
    BY <1>1, <1>2, InLayer
  <2>2. ran[c] <= attempt[c] /\ ran[c] \in Nat
    BY <1>1, <1>2, <1>3, <2>1 DEF Counts, CallTypes
  <2> QED
    BY <1>3, <1>4, <2>2
<1> QED
  BY <1>1, <1>2, <1>3, <1>4, <1>5, Enters

LEMMA LeaveRetryKeeps ==
    ASSUME LayersInv, NEW c \in Calls, LeaveRetry(c)
    PROVE  LayersInv'
<1>1. CallTypes /\ Placed(c) /\ "retry" \in Names
  BY OfCall
<1>2. /\ phase[c] = "leave" /\ Layer(c) = "retry" /\ ~IsStream(c) /\ Outward(c)
      /\ ~Again(c)
      /\ UNCHANGED <<chain, request, result, attempt, nap, asked, ran, began,
                     entries>>
  BY DEF LeaveRetry, Leaving, layers, locals
<1>3. result'[c] \in Results
  BY <1>1, <1>2 DEF Placed
<1>4. result'[c].kind \in Raised \cap RetryOn => attempt[c] = MaxAttempts
  BY <1>2 DEF Again, Failed, Errors
<1> QED
  BY <1>1, <1>2, <1>3, <1>4, Leaves DEF CallTypes

\* The cache.
LEMMA CacheHitKeeps ==
    ASSUME LayersInv, NEW c \in Calls, CacheHit(c)
    PROVE  LayersInv'
<1>1. CallTypes /\ Placed(c) /\ "cache" \in Names
  BY OfCall
<1> DEFINE key == KeyOf(request[c])
           by == entries[key].by
<1>2. /\ phase[c] = "enter" /\ Layer(c) = "cache" /\ ~IsStream(c) /\ Outward(c)
      /\ entries[key] # Nothing
      /\ result' = [result EXCEPT ![c] = [kind |-> "context", by |-> by]]
      /\ UNCHANGED <<chain, request, attempt, nap, asked, ran, began, entries>>
  BY DEF CacheHit, Entering, Fresh, Entry, Give, layers, locals
<1>3. request[c] \in Requests /\ key \in Keys
  BY <1>1, <1>2 DEF Placed, Keys
<1>4. by \in Calls
  BY <1>1, <1>2, <1>3 DEF CallTypes
<1>5. /\ result' \in [Calls -> Results \cup {Nothing}] /\ result'[c] \in Results
      /\ result'[c].kind = "context" /\ result'[c].by = by
      /\ \A d \in Calls \ {c} : result'[d] = result[d]
  BY <1>1, <1>2, <1>4 DEF CallTypes, Results
<1>6. Gives(c)'
  <2>1. phase[by] # "idle" /\ KeyOf(request[by]) = key
    BY <1>2, <1>3 DEF LayersInv, Holds
  <2>2. SameWork(request[by], request[c])
    BY <2>1 DEF KeyOf, SameWork
  <2>3. phase'[by] # "idle"
    BY <1>1, <1>2, <1>4, <2>1 DEF Outward, CallTypes
  <2>4. Wrapped("cache")' /\ ~IsStream(c)'
    BY <1>1, <1>2, InLayer DEF Wrapped, IsStream
  <2> QED
    BY <1>2, <1>5, <2>2, <2>3, <2>4 DEF Gives, SameWork
<1>7. result'[c].kind \notin Raised
  BY <1>5, RaisedApart
<1> QED
  BY <1>1, <1>2, <1>5, <1>6, <1>7, Leaves DEF CallTypes

LEMMA CacheMissKeeps ==
    ASSUME LayersInv, NEW c \in Calls, CacheMiss(c)
    PROVE  LayersInv'
<1>1. CallTypes /\ Placed(c) /\ "cache" \in Names
  BY OfCall
<1>2. /\ phase[c] = "enter" /\ Layer(c) = "cache" /\ ~IsStream(c) /\ Inward(c)
      /\ asked' = [asked EXCEPT ![c] = 0]
      /\ UNCHANGED <<chain, request, result, attempt, nap, ran, began, entries>>
  BY DEF CacheMiss, Entering, layers
<1>3. nap[c] = 0
  BY <1>1, <1>2 DEF Placed, CallTypes
<1>4. /\ asked' \in [Calls -> Ages(Ttl)] /\ asked'[c] # Nothing
      /\ \A d \in Calls \ {c} : attempt'[d] = attempt[d] /\ asked'[d] = asked[d]
  BY <1>1, <1>2, TimesNat, NothingApart DEF CallTypes, Ages
<1> QED
  BY <1>1, <1>2, <1>3, <1>4, Enters DEF CallTypes

LEMMA CacheStoreKeeps ==
    ASSUME LayersInv, NEW c \in Calls, CacheStore(c)
    PROVE  LayersInv'
<1>1. CallTypes /\ Placed(c) /\ Asks(c) /\ "cache" \in Names
  BY OfCall
<1> DEFINE key == KeyOf(request[c])
           entry == [by |-> result[c].by, age |-> asked[c]]
<1>2. /\ phase[c] = "leave" /\ Layer(c) = "cache" /\ ~IsStream(c) /\ Outward(c)
      /\ result[c].kind = "context"
      /\ entries' = [entries EXCEPT ![key] = entry]
      /\ asked' = [asked EXCEPT ![c] = Nothing]
      /\ UNCHANGED <<chain, request, result, attempt, nap, ran, began>>
  BY DEF CacheStore, Leaving, AgeStored
<1>3. request[c] \in Requests /\ key \in Keys /\ result[c] \in Results
  BY <1>1, <1>2 DEF Placed, Keys
<1>4. /\ result[c].by = c /\ began[c] # Nothing /\ asked[c] # Nothing
      /\ began[c] <= asked[c]
  <2>1. In(c, "cache")
    BY <1>1, <1>2, InLayer
  <2> QED
    BY <1>1, <1>2, <2>1 DEF Asks
<1>5. asked[c] \in 0..Ttl
  BY <1>1, <1>4 DEF CallTypes, Ages
<1>6. /\ entries' \in [Keys -> [by : Calls, age : 0..Ttl] \cup {Nothing}]
      /\ entries'[key] = entry
      /\ \A k \in Keys \ {key} : entries'[k] = entries[k]
  <2>1. entry \in [by : Calls, age : 0..Ttl]
    BY <1>4, <1>5
  <2> QED
    BY <1>1, <1>2, <1>3, <2>1 DEF CallTypes
<1>7. /\ asked' \in [Calls -> Ages(Ttl)]
      /\ \A d \in Calls \ {c} : asked'[d] = asked[d]
  BY <1>1, <1>2 DEF CallTypes, Ages
<1>8. ASSUME NEW k \in Keys, k = key PROVE Holds(k)'
  <2>1. phase'[c] # "idle"
    BY <1>1, <1>2 DEF Outward, CallTypes
  <2>2. entries'[k].by = c /\ entries'[k].age = asked[c]
    BY <1>4, <1>6, <1>8
  <2>3. KeyOf(request[c])' = k
    BY <1>2, <1>8 DEF KeyOf
  <2>4. began' = began
    BY <1>2
  <2> QED
    BY <1>4, <2>1, <2>2, <2>3, <2>4 DEF Holds, KeyOf
<1>9. \A k \in Keys : entries'[k] = entries[k] \/ Holds(k)'
  BY <1>6, <1>8
<1>10. result'[c].kind \notin Raised
  BY <1>2, RaisedApart
<1> QED
  BY <1>1, <1>2, <1>3, <1>6, <1>7, <1>9, <1>10, Leaves DEF CallTypes

\* What a layer raises itself passes the layers around it.
LEMMA Raises ==
    ASSUME LayersInv, NEW c \in Calls, NEW layer \in Names, Layer(c) = layer,
           phase[c] \in {"enter", "leave"}, Outward(c),
           NEW kind \in {"CircuitOpenError", "AttributeError"}, Give(c, kind, c),
           UNCHANGED <<chain, request, attempt, nap, ran, began, entries>>,
           asked' \in [Calls -> Ages(Ttl)],
           \A d \in Calls \ {c} : asked'[d] = asked[d],
           (layer = "cache" /\ ~IsStream(c)) \/ asked'[c] = asked[c]
    PROVE  LayersInv'
<1>1. CallTypes
  BY OfCall
<1>2. /\ result' \in [Calls -> Results \cup {Nothing}] /\ result'[c] \in Results
      /\ result'[c].kind = kind
      /\ \A d \in Calls \ {c} : result'[d] = result[d]
  BY <1>1 DEF Give, CallTypes, Results, Errors
<1>3. result'[c].kind \notin Raised /\ result'[c].kind # "context"
  BY <1>2, RaisedApart
<1>4. Gives(c)'
  BY <1>3 DEF Gives
<1> QED
  BY <1>1, <1>2, <1>3, <1>4, Leaves DEF CallTypes

LEMMA CacheRefusesSendKeeps ==
    ASSUME LayersInv, NEW c \in Calls, CacheRefusesSend(c)
    PROVE  LayersInv'
<1>1. CallTypes /\ "cache" \in Names
  BY OfCall
<1>2. /\ phase[c] = "leave" /\ Layer(c) = "cache" /\ ~IsStream(c) /\ Outward(c)
      /\ Give(c, "AttributeError", c)
      /\ asked' = [asked EXCEPT ![c] = Nothing]
      /\ UNCHANGED <<chain, request, attempt, nap, ran, began, entries>>
  BY DEF CacheRefusesSend, Leaving, layers
<1>3. /\ asked' \in [Calls -> Ages(Ttl)]
      /\ \A d \in Calls \ {c} : asked'[d] = asked[d]
  BY <1>1, <1>2 DEF CallTypes, Ages
<1> QED
  BY <1>1, <1>2, <1>3, Raises

\* A layer lets through what came back to it.
LEMMA PassesOn ==
    ASSUME LayersInv, NEW c \in Calls, NEW layer \in Names, Layer(c) = layer,
           phase[c] = "leave", Outward(c),
           UNCHANGED <<chain, request, result, attempt, nap, ran, began, entries>>,
           asked' \in [Calls -> Ages(Ttl)],
           \A d \in Calls \ {c} : asked'[d] = asked[d],
           (layer = "cache" /\ ~IsStream(c)) \/ asked'[c] = asked[c],
           layer # "retry" \/ IsStream(c)
    PROVE  LayersInv'
<1>1. CallTypes /\ Placed(c)
  BY OfCall
<1>2. result'[c] \in Results
  BY <1>1 DEF Placed
<1> QED
  BY <1>1, <1>2, Leaves DEF CallTypes

LEMMA CacheFailsKeeps ==
    ASSUME LayersInv, NEW c \in Calls, CacheFails(c)
    PROVE  LayersInv'
<1>1. CallTypes /\ "cache" \in Names
  BY OfCall
<1>2. /\ phase[c] = "leave" /\ Layer(c) = "cache" /\ ~IsStream(c) /\ Outward(c)
      /\ asked' = [asked EXCEPT ![c] = Nothing]
      /\ UNCHANGED <<chain, request, result, attempt, nap, ran, began, entries>>
  BY DEF CacheFails, Leaving, layers
<1>3. /\ asked' \in [Calls -> Ages(Ttl)]
      /\ \A d \in Calls \ {c} : asked'[d] = asked[d]
  BY <1>1, <1>2 DEF CallTypes, Ages
<1> QED
  BY <1>1, <1>2, <1>3, PassesOn

\* The breaker and the limiter, and the layers that do nothing about streams.
LEMMA BreakerKeeps ==
    ASSUME LayersInv, NEW c \in Calls,
           BreakerAdmits(c) \/ BreakerRefuses(c) \/ LeaveBreaker(c)
    PROVE  LayersInv'
<1>1. CallTypes /\ Placed(c) /\ "breaker" \in Names
  BY OfCall
<1>2. CASE BreakerAdmits(c)
  <2>1. /\ phase[c] = "enter" /\ Layer(c) = "breaker" /\ Inward(c)
        /\ UNCHANGED <<chain, request, result, attempt, nap, asked, ran, began,
                       entries>>
    BY <1>2 DEF BreakerAdmits, Entering, locals
  <2>2. nap[c] = 0
    BY <1>1, <2>1 DEF Placed, CallTypes
  <2> QED
    BY <1>1, <2>1, <2>2, Enters DEF CallTypes
<1>3. CASE BreakerRefuses(c)
  <2>1. /\ phase[c] = "enter" /\ Layer(c) = "breaker" /\ Outward(c)
        /\ Give(c, "CircuitOpenError", c)
        /\ UNCHANGED <<chain, request, attempt, nap, asked, ran, began, entries>>
    BY <1>3 DEF BreakerRefuses, Entering, locals, layers
  <2> QED
    BY <1>1, <2>1, Raises DEF CallTypes
<1>4. CASE LeaveBreaker(c)
  <2>1. /\ phase[c] = "leave" /\ Layer(c) = "breaker" /\ Outward(c)
        /\ UNCHANGED <<chain, request, result, attempt, nap, asked, ran, began,
                       entries>>
    BY <1>4 DEF LeaveBreaker, Leaving, locals
  <2> QED
    BY <1>1, <2>1, PassesOn DEF CallTypes
<1> QED
  BY <1>2, <1>3, <1>4

LEMMA BypassKeeps ==
    ASSUME LayersInv, NEW c \in Calls, Bypass(c)
    PROVE  LayersInv'
<1>1. CallTypes /\ Placed(c)
  BY OfCall
<1>2. PICK layer \in Names : Layer(c) = layer
  BY DEF Bypass, Names
<1>3. /\ IsStream(c)
      /\ UNCHANGED <<chain, request, result, attempt, nap, asked, ran, began,
                     entries>>
  BY DEF Bypass, locals, layers
<1>4. CASE phase[c] = "enter" /\ Inward(c)
  <2>1. nap[c] = 0
    BY <1>1, <1>4 DEF Placed, CallTypes
  <2> QED
    BY <1>1, <1>2, <1>3, <1>4, <2>1, Enters DEF CallTypes
<1>5. CASE phase[c] = "leave" /\ Outward(c)
  BY <1>1, <1>2, <1>3, <1>5, PassesOn DEF CallTypes
<1> QED
  BY <1>4, <1>5 DEF Bypass

LEMMA LimitKeeps ==
    ASSUME LayersInv, LimitInv, NEW c \in Calls,
           LimitPasses(c) \/ LimitWaits(c) \/ LimitWakes(c) \/ LeaveLimit(c)
    PROVE  LayersInv'
<1>1. /\ CallTypes /\ Placed(c) /\ Counts(c) /\ Asks(c) /\ "limit" \in Names
      /\ Layer(c) = "limit" => at[c] \in 1..Len(chain)
  BY OfCall
<1>2. CASE LimitPasses(c)
  <2>1. /\ phase[c] = "enter" /\ Layer(c) = "limit" /\ Inward(c)
        /\ UNCHANGED <<chain, request, result, attempt, nap, asked, ran, began,
                       entries>>
    BY <1>2 DEF LimitPasses, Entering, locals
  <2>2. nap[c] = 0
    BY <1>1, <2>1 DEF Placed, CallTypes
  <2> QED
    BY <1>1, <2>1, <2>2, Enters DEF CallTypes
<1>3. CASE LimitWaits(c)
  <2>1. /\ phase[c] = "enter" /\ Layer(c) = "limit"
        /\ phase' = [phase EXCEPT ![c] = "nap"]
        /\ nap' = [nap EXCEPT ![c] = Second - Recent(window)[1]]
        /\ UNCHANGED <<chain, at, request, result, attempt, asked, ran, began,
                       entries>>
    BY <1>3 DEF LimitWaits, Entering, Sleep
  <2>2. /\ nap' \in [Calls -> Nat] /\ \A d \in Calls \ {c} : nap'[d] = nap[d]
    BY <1>1, <1>3, <2>1, WaitKeeps DEF CallTypes
  <2>3. phase'[c] = "nap" /\ at[c] # 0
    BY <1>1, <2>1 DEF CallTypes
  <2>4. Counts(c)' /\ Asks(c)'
    BY <1>1, <2>1, <2>3, SamePlace DEF Counts, Asks
  <2> QED
    BY <1>1, <2>1, <2>2, <2>3, <2>4, Stays DEF CallTypes
<1>4. CASE LimitWakes(c)
  <2>1. /\ phase[c] = "nap" /\ Layer(c) = "limit" /\ nap[c] = 0
        /\ phase' = [phase EXCEPT ![c] = "enter"]
        /\ UNCHANGED <<chain, at, request, result, attempt, nap, asked, ran,
                       began, entries>>
    BY <1>4 DEF LimitWakes, locals, layers
  <2>2. phase'[c] = "enter" /\ at[c] # 0
    BY <1>1, <2>1 DEF CallTypes
  <2>3. Counts(c)' /\ Asks(c)'
    BY <1>1, <2>1, <2>2, SamePlace DEF Counts, Asks
  <2> QED
    BY <1>1, <2>1, <2>2, <2>3, Stays DEF CallTypes
<1>5. CASE LeaveLimit(c)
  <2>1. /\ phase[c] = "leave" /\ Layer(c) = "limit" /\ Outward(c)
        /\ UNCHANGED <<chain, request, result, attempt, nap, asked, ran, began,
                       entries>>
    BY <1>5 DEF LeaveLimit, Leaving, locals, layers
  <2> QED
    BY <1>1, <2>1, PassesOn DEF CallTypes
<1> QED
  BY <1>2, <1>3, <1>4, <1>5

\* A call begins, its stage ends, it is cancelled.
LEMMA BeginKeeps ==
    ASSUME LayersInv, NEW c \in Calls, NEW r \in Requests, Begin(c, r)
    PROVE  LayersInv'
<1>1. CallTypes /\ Placed(c) /\ phase[c] = "idle"
  BY OfCall DEF Begin
<1>2. /\ phase' = [phase EXCEPT ![c] = "enter"] /\ at' = [at EXCEPT ![c] = 1]
      /\ request' = [request EXCEPT ![c] = r]
      /\ UNCHANGED <<chain, result, attempt, nap, asked, ran, began, entries>>
  BY DEF Begin, locals, layers
<1>3. phase'[c] = "enter" /\ at'[c] = 1 /\ request'[c] = r
  BY <1>1, <1>2 DEF CallTypes
<1>4. CallTypes'
  <2>1. 1 \in 0..(Len(chain) + 1)
    BY <1>1, ChainType
  <2> QED
    BY <1>1, <1>2, <2>1 DEF CallTypes
<1>5. Alone(c)
  BY <1>1, <1>2 DEF Alone, CallTypes
<1>6. ~Past(c, "retry")' /\ ~Past(c, "cache")'
  BY <1>1, <1>2, <1>3, ChainType DEF Past
<1>7. ran[c] = 0 /\ result[c] = Nothing /\ nap[c] = 0
  BY <1>1 DEF Placed, CallTypes
<1>8. Placed(c)'
  BY <1>2, <1>3, <1>7 DEF Placed
<1>9. Counts(c)'
  <2>1. attempt[c] >= 0
    BY <1>1, AttemptsPositive DEF CallTypes
  <2> QED
    BY <1>2, <1>3, <1>6, <1>7, <2>1, AttemptsPositive DEF Counts, CallTypes
<1>10. Asks(c)'
  BY <1>3, <1>6 DEF Asks
<1>11. Gives(c)'
  BY <1>2, <1>7 DEF Gives
<1> QED
  BY <1>1, <1>2, <1>4, <1>5, <1>8, <1>9, <1>10, <1>11, CallStep DEF CallInv

LEMMA StageEndsKeeps ==
    ASSUME LayersInv, NEW c \in Calls,
           NEW kind \in {"context", "send"} \cup Raised, StageEnds(c, kind)
    PROVE  LayersInv'
<1>1. CallTypes /\ Placed(c) /\ Counts(c) /\ Asks(c)
  BY OfCall
<1>2. /\ phase[c] = "stage" /\ Outward(c)
      /\ result' = [result EXCEPT ![c] = [kind |-> kind, by |-> c]]
      /\ UNCHANGED <<chain, request, attempt, nap, asked, ran, began, entries>>
  BY DEF StageEnds, Give, locals, layers
<1>3. /\ at[c] = Len(chain) + 1 /\ at[c] # 0
      /\ \A layer \in Names : /\ In(c, layer) <=> Wrapped(layer)
                              /\ Past(c, layer) <=> Wrapped(layer)
  <2>1. at[c] = Len(chain) + 1
    BY <1>1, <1>2 DEF Placed
  <2>2. at[c] # 0
    BY <1>1, <1>2 DEF Placed
  <2> QED
    BY <1>1, <2>1, <2>2, AtEnd
<1>4. /\ phase' \in [Calls -> {"idle", "enter", "stage", "leave", "nap", "done"}]
      /\ at' \in [Calls -> 0..(Len(chain') + 1)]
      /\ phase'[c] = "leave" \/ (phase'[c] = "done" /\ at'[c] = 0)
      /\ phase'[c] = "leave" => at'[c] # 0
      /\ \A l \in Names : Past(c, l)' => In(c, l)'
      /\ \A l \in Names : /\ In(c, l)' <=> Past(c, l)
                          /\ Wrapped(l)' <=> Wrapped(l)
      /\ \A d \in Calls \ {c} : phase'[d] = phase[d] /\ at'[d] = at[d]
  BY <1>1, <1>2, <1>3, GoesOut
<1>5. /\ result' \in [Calls -> Results \cup {Nothing}] /\ result'[c] \in Results
      /\ result'[c].kind = kind /\ result'[c].by = c
      /\ \A d \in Calls \ {c} : result'[d] = result[d]
  BY <1>1, <1>2 DEF CallTypes, Results, Errors
<1>6. CallTypes'
  BY <1>1, <1>2, <1>4, <1>5 DEF CallTypes
<1>7. Alone(c) /\ Goes(c)
  BY <1>2, <1>4, <1>5 DEF Alone, Goes
<1>8. Placed(c)'
  BY <1>1, <1>2, <1>4, <1>5 DEF Placed
<1>9. IsStream(c)' <=> IsStream(c)
  BY <1>2 DEF IsStream
<1>10. "retry" \in Names /\ "cache" \in Names
  BY DEF Names
<1>11. Counts(c)'
  <2>1. Wrapped("retry")' => In(c, "retry")'
    BY <1>3, <1>4, <1>10
  <2>2. Wrapped("retry")' <=> Wrapped("retry")
    BY <1>4, <1>10
  <2>3. ran'[c] <= IF Wrapped("retry") /\ ~IsStream(c) THEN attempt'[c] ELSE 1
    BY <1>1, <1>2 DEF Counts
  <2> QED
    BY <1>4, <1>9, <2>1, <2>2, <2>3 DEF Counts
<1>12. Asks(c)'
  <2>1. /\ In(c, "cache")' <=> In(c, "cache")
        /\ Past(c, "cache")' => Past(c, "cache")
    BY <1>3, <1>4, <1>10
  <2> QED
    BY <1>1, <1>2, <1>4, <1>5, <1>9, <2>1 DEF Asks
<1>13. Gives(c)'
  BY <1>2, <1>4, <1>5 DEF Gives, SameWork
<1> QED
  BY <1>2, <1>6, <1>7, <1>8, <1>11, <1>12, <1>13, CallStep DEF CallInv

LEMMA CancelKeeps ==
    ASSUME LayersInv, NEW c \in Calls, Cancel(c)
    PROVE  LayersInv'
<1>1. CallTypes /\ Placed(c) /\ Counts(c)
  BY OfCall
<1>2. /\ phase[c] # "idle" /\ phase' = [phase EXCEPT ![c] = "done"]
      /\ at' = [at EXCEPT ![c] = 0] /\ nap' = [nap EXCEPT ![c] = 0]
      /\ asked' = [asked EXCEPT ![c] = Nothing]
      /\ result' = [result EXCEPT ![c] = [kind |-> "CancelledError", by |-> c]]
      /\ UNCHANGED <<chain, request, attempt, ran, began, entries>>
  BY DEF Cancel, Give
<1>3. /\ phase'[c] = "done" /\ at'[c] = 0 /\ nap'[c] = 0
      /\ result'[c] \in Results /\ result'[c].kind = "CancelledError"
  BY <1>1, <1>2 DEF CallTypes, Results, Errors
<1>4. CallTypes'
  <2>1. /\ result' \in [Calls -> Results \cup {Nothing}]
        /\ asked' \in [Calls -> Ages(Ttl)]
    BY <1>1, <1>2 DEF CallTypes, Results, Errors, Ages
  <2>2. at' \in [Calls -> 0..(Len(chain') + 1)]
    BY <1>1, <1>2, ChainType DEF CallTypes
  <2> QED
    BY <1>1, <1>2, <2>1, <2>2 DEF CallTypes
<1>5. Alone(c) /\ Goes(c)
  BY <1>1, <1>2, <1>3 DEF Alone, Goes, CallTypes
<1>6. Placed(c)'
  BY <1>1, <1>2, <1>3 DEF Placed
<1>7. \A layer : Wrapped(layer)' <=> Wrapped(layer)
  BY <1>2 DEF Wrapped
<1>8. IsStream(c)' <=> IsStream(c)
  BY <1>2 DEF IsStream
<1>9. Counts(c)'
  <2>1. result'[c].kind \notin Raised
    BY <1>3, RaisedApart
  <2> QED
    BY <1>1, <1>2, <1>3, <1>7, <1>8, <2>1 DEF Counts
<1>10. Asks(c)'
  <2>1. ~Past(c, "cache")'
    BY <1>1, <1>2, <1>3, ChainType DEF Past
  <2> QED
    BY <1>3, <2>1 DEF Asks
<1>11. Gives(c)'
  BY <1>3 DEF Gives
<1> QED
  BY <1>2, <1>4, <1>5, <1>6, <1>9, <1>10, <1>11, CallStep DEF CallInv

\* Time passes for all calls at once.
LEMMA TickKeeps ==
    ASSUME LayersInv, Tick
    PROVE  LayersInv'
<1>1. CallTypes
  BY DEF LayersInv
<1>2. /\ nap' = [c \in Calls |-> IF nap[c] = 0 THEN 0 ELSE nap[c] - 1]
      /\ asked' = [c \in Calls |-> Older(asked[c], Ttl)]
      /\ began' = [c \in Calls |-> Older(began[c], Ttl)]
      /\ entries' = [k \in Keys |->
                        IF entries[k] = Nothing THEN Nothing
                        ELSE [entries[k] EXCEPT !.age = Older(@, Ttl)]]
      /\ UNCHANGED <<chain, phase, at, request, result, attempt, ran>>
  BY DEF Tick
\* Ages grow together, up to the age at which the code stops looking.
<1>3. ASSUME NEW age \in Ages(Ttl)
      PROVE  /\ Older(age, Ttl) \in Ages(Ttl)
             /\ age # Nothing => Older(age, Ttl) # Nothing
  BY TimesNat, NothingApart DEF Older, Ages
<1>4. ASSUME NEW a \in 0..Ttl, NEW b \in 0..Ttl, a <= b
      PROVE  /\ Older(b, Ttl) \in 0..Ttl
             /\ Older(a, Ttl) <= Older(b, Ttl)
  BY <1>4, TimesNat, NothingApart DEF Older
<1>5. CallTypes'
  <2>1. nap' \in [Calls -> Nat]
    BY <1>1, <1>2 DEF CallTypes
  <2>2. asked' \in [Calls -> Ages(Ttl)] /\ began' \in [Calls -> Ages(Ttl)]
    BY <1>1, <1>2, <1>3 DEF CallTypes
  <2>3. entries' \in [Keys -> [by : Calls, age : 0..Ttl] \cup {Nothing}]
    <3> SUFFICES ASSUME NEW k \in Keys, entries[k] # Nothing
                 PROVE  [entries[k] EXCEPT !.age = Older(@, Ttl)]
                          \in [by : Calls, age : 0..Ttl]
      BY <1>2
    <3>1. entries[k] \in [by : Calls, age : 0..Ttl]
      BY <1>1 DEF CallTypes
    <3>2. Older(entries[k].age, Ttl) \in 0..Ttl
      BY <3>1, <1>4, TimesNat
    <3> QED
      BY <3>1, <3>2
  <2> QED
    BY <1>1, <1>2, <2>1, <2>2, <2>3 DEF CallTypes
<1>6. ASSUME NEW c \in Calls PROVE CallInv(c)' /\ Gives(c)'
  <2>1. Placed(c) /\ Counts(c) /\ Asks(c) /\ Gives(c)
    BY OfCall
  <2>2. /\ \A l : /\ Past(c, l)' <=> Past(c, l)
                  /\ In(c, l)' <=> In(c, l)
                  /\ Wrapped(l)' <=> Wrapped(l)
        /\ IsStream(c)' <=> IsStream(c)
        /\ Layer(c)' = Layer(c)
    BY <1>2, SamePlace
  <2>3. Placed(c)'
    <3>1. nap'[c] > 0 => nap[c] > 0
      BY <1>1, <1>2 DEF CallTypes
    <3> QED
      BY <1>2, <2>1, <2>2, <3>1 DEF Placed
  <2>4. Counts(c)'
    BY <1>2, <2>1, <2>2 DEF Counts
  <2>5. Asks(c)'
    <3>1. /\ asked[c] \in Ages(Ttl) /\ began[c] \in Ages(Ttl)
          /\ asked'[c] = Older(asked[c], Ttl) /\ began'[c] = Older(began[c], Ttl)
      BY <1>1, <1>2 DEF CallTypes
    <3>2. asked[c] # Nothing => asked'[c] # Nothing
      BY <1>3, <3>1
    <3>3. began[c] # Nothing => began'[c] # Nothing
      BY <1>3, <3>1
    <3>4. asked[c] # Nothing /\ began[c] # Nothing /\ began[c] <= asked[c]
            => began'[c] <= asked'[c]
      BY <1>4, <3>1 DEF Ages
    <3> QED
      BY <1>2, <2>1, <2>2, <3>2, <3>3, <3>4 DEF Asks
  <2>6. Gives(c)'
    BY <1>2, <2>1, <2>2 DEF Gives, SameWork
  <2> QED
    BY <2>3, <2>4, <2>5, <2>6 DEF CallInv
<1>7. ASSUME NEW k \in Keys PROVE Holds(k)'
  <2>1. CASE entries[k] = Nothing
    BY <1>2, <2>1 DEF Holds
  <2>2. CASE entries[k] # Nothing
    <3> DEFINE by == entries[k].by
    <3>1. entries[k] \in [by : Calls, age : 0..Ttl]
      BY <1>1, <2>2 DEF CallTypes
    <3>2. /\ phase[by] # "idle" /\ KeyOf(request[by]) = k
          /\ began[by] # Nothing /\ began[by] <= entries[k].age
      BY <2>2 DEF LayersInv, Holds
    <3>3. entries'[k].by = by /\ entries'[k].age = Older(entries[k].age, Ttl)
      BY <1>2, <2>2, <3>1
    <3>4. /\ began[by] \in Ages(Ttl) /\ began'[by] = Older(began[by], Ttl)
      BY <1>1, <1>2, <3>1 DEF CallTypes
    <3>5. began'[by] # Nothing
      BY <1>3, <3>2, <3>4
    <3>6. began'[by] <= entries'[k].age
      BY <1>4, <3>1, <3>2, <3>3, <3>4 DEF Ages
    <3> QED
      BY <1>2, <3>2, <3>3, <3>5, <3>6 DEF Holds, KeyOf
  <2> QED
    BY <2>1, <2>2
<1> QED
  BY <1>5, <1>6, <1>7 DEF LayersInv

LEMMA LayersInit == Init => LayersInv
<1> SUFFICES ASSUME Init PROVE LayersInv
  OBVIOUS
<1>1. CallTypes
  <2>1. Len(chain) \in Nat
    BY LayersOnce DEF Init
  <2> QED
    BY <2>1, TimesNat, AttemptsPositive DEF Init, CallTypes, Ages
<1>2. ASSUME NEW c \in Calls PROVE CallInv(c) /\ Gives(c)
  <2>1. ~Past(c, "cache")
    BY <1>1, ChainType DEF Init, Past
  <2> QED
    BY <2>1 DEF Init, CallInv, Placed, Counts, Asks, Gives
<1>3. \A k \in Keys : Holds(k)
  BY DEF Init, Holds
<1> QED
  BY <1>1, <1>2, <1>3 DEF LayersInv

LEMMA LayersSteps ==
    ASSUME LayersInv, LimitInv, [Next]_vars
    PROVE  LayersInv'
<1>1. ASSUME NEW c \in Calls, Descend(c) PROVE LayersInv'
  BY <1>1, EnterRetryKeeps, CacheHitKeeps, CacheMissKeeps, BreakerKeeps,
     LimitKeeps, RunStageKeeps DEF Descend
<1>2. ASSUME NEW c \in Calls, Climb(c) PROVE LayersInv'
  BY <1>2, BackOffKeeps, RetryWakesKeeps, LeaveRetryKeeps, CacheStoreKeeps,
     CacheRefusesSendKeeps, CacheFailsKeeps, BreakerKeeps, LimitKeeps DEF Climb
<1>3. ASSUME NEW c \in Calls, Request(c) \/ Bypass(c) \/ Return(c) \/ Cancel(c)
      PROVE  LayersInv'
  BY <1>3, BeginKeeps, BypassKeeps, StageEndsKeeps, CancelKeeps
     DEF Request, Return
<1>4. CASE UNCHANGED vars
  <2>1. UNCHANGED <<chain, phase, at, request, result, attempt, nap, asked,
                    began, ran, entries>>
    BY <1>4 DEF vars, locals, layers
  <2>2. CallTypes'
    BY <2>1 DEF LayersInv, CallTypes
  <2>3. ASSUME NEW c \in Calls PROVE CallInv(c)' /\ Gives(c)'
    BY <2>1, SamePlace, OfCall
       DEF CallInv, Placed, Counts, Asks, Gives, SameWork
  <2>4. \A k \in Keys : Holds(k)'
    BY <2>1 DEF LayersInv, Holds, KeyOf
  <2> QED
    BY <2>2, <2>3, <2>4 DEF LayersInv
<1> QED
  BY <1>1, <1>2, <1>3, <1>4, TickKeeps DEF Next, Progress

LEMMA LayersInvariant == Spec => [](LayersInv /\ LimitInv)
<1>1. Init => LimitInv
  BY TimesNat, RpsPositive DEF Init, LimitInv, Window, Gone, RateHonoured
<1>2. LayersInv /\ LimitInv /\ [Next]_vars => LayersInv' /\ LimitInv'
  BY LayersSteps, LimitSteps
<1> QED
  BY LayersInit, <1>1, <1>2, PTL DEF Spec

(***************************************************************************)
(* The fields of the layers and of the calls in them have their types: no  *)
(* order of layers takes a call out of the chain other than by its caller, *)
(* counts an attempt too many, or stores a context without a time stamp.   *)
(***************************************************************************)
THEOREM ChainTyped == Spec => []TypeOK
<1>1. BreakerProofs!Spec => []BreakerProofs!TypeOK
  BY BreakerSettings, BreakerProofs!BreakerTyped
<1>2. BreakerProofs!TypeOK => Breaker!TypeOK
  BY DEF Breaker!TypeOK, BreakerProofs!TypeOK
<1>3. LayersInv /\ LimitInv /\ Breaker!TypeOK => TypeOK
  <2> SUFFICES ASSUME LayersInv, LimitInv, Breaker!TypeOK PROVE TypeOK
    OBVIOUS
  <2>1. CallTypes /\ \A c \in Calls : Placed(c)
    BY DEF LayersInv, CallInv
  <2>2. \A i \in DOMAIN window : window[i] \in 0..Second
    BY TimesNat DEF LimitInv, Window
  <2>3. ASSUME NEW c \in Calls
        PROVE  /\ at[c] = 0 <=> phase[c] \in {"idle", "done"}
               /\ phase[c] # "idle" => request[c] \in Requests
               /\ phase[c] \in {"leave", "done"} => result[c] \in Results
               /\ attempt[c] \in 0..MaxAttempts
               /\ nap[c] \in Nat
               /\ nap[c] > 0 => phase[c] = "nap"
               /\ asked[c] \in Ages(Ttl) /\ began[c] \in Ages(Ttl)
    BY <2>1 DEF CallTypes, Placed
  <2> QED
    BY <2>1, <2>2, <2>3 DEF TypeOK, CallTypes, Results
<1> QED
  BY <1>1, <1>2, <1>3, SameBreaker, ChainDrivesBreaker, LayersInvariant, PTL
     DEF DrivesBreaker

(***************************************************************************)
(* In every order of layers a call runs its stage at most max_attempts     *)
(* times, a STREAM stage once, and a listed exception of the stage reaches *)
(* the caller only when the attempts are spent.  On its way in a call has  *)
(* fewer runs than `attempt`: neither a cache inside the retry, nor a      *)
(* breaker, nor a wait at the limiter gives one back or takes one twice.   *)
(***************************************************************************)
THEOREM RetryIsHonest == Spec => []RetryHonest
<1>1. LayersInv => RetryHonest
  <2> SUFFICES ASSUME LayersInv, NEW c \in Calls
               PROVE  /\ request[c] # Nothing => ran[c] <= Budget(c)
                      /\ (/\ phase[c] = "done"
                          /\ result[c].kind \in Raised \cap RetryOn
                          /\ Wrapped("retry") /\ ~IsStream(c))
                            => attempt[c] = MaxAttempts
    BY DEF RetryHonest
  <2>1. CallTypes /\ Placed(c) /\ Counts(c)
    BY OfCall
  <2>2. ran[c] \in Nat /\ attempt[c] \in Nat /\ attempt[c] <= MaxAttempts
    BY <2>1, AttemptsPositive DEF CallTypes
  <2>3. request[c] # Nothing => ran[c] <= Budget(c)
    BY <2>1, <2>2, AttemptsPositive DEF Placed, Counts, Budget
  <2>4. phase[c] = "done" => ~In(c, "retry")
    BY <2>1, ChainType DEF Placed, In
  <2> QED
    BY <2>1, <2>3, <2>4 DEF Counts
<1> QED
  BY <1>1, LayersInvariant, PTL

(***************************************************************************)
(* In every order of layers a call returns what a stage of its __name__    *)
(* computed on an equal context, its own unless the cache gave it; and no  *)
(* entry the cache would still give comes from a run begun ttl ago or      *)
(* earlier, however misses of one key overlap.  The entry's age is that of *)
(* the miss, and the run stored is the caller's own, begun after it.       *)
(***************************************************************************)
THEOREM CacheIsHonest == Spec => []CacheHonest
<1>1. LayersInv => CacheHonest
  <2> SUFFICES ASSUME LayersInv PROVE CacheHonest
    OBVIOUS
  <2>1. \A c \in Calls : Gives(c)
    BY DEF LayersInv
  <2>2. ASSUME NEW k \in Keys, entries[k] # Nothing
        PROVE  /\ KeyOf(request[entries[k].by]) = k
               /\ began[entries[k].by] # Nothing
               /\ Fresh(entries[k]) => began[entries[k].by] < Ttl
    <3>1. /\ entries[k] \in [by : Calls, age : 0..Ttl]
          /\ began \in [Calls -> Ages(Ttl)]
      BY <2>2 DEF LayersInv, CallTypes
    <3>2. /\ KeyOf(request[entries[k].by]) = k
          /\ began[entries[k].by] # Nothing
          /\ began[entries[k].by] <= entries[k].age
      BY <2>2 DEF LayersInv, Holds
    <3>3. began[entries[k].by] \in 0..Ttl
      BY <3>1, <3>2 DEF Ages
    <3> QED
      BY <3>1, <3>2, <3>3, TimesNat DEF Fresh
  <2> QED
    BY <2>1, <2>2 DEF CacheHonest, Gives
<1> QED
  BY <1>1, LayersInvariant, PTL
===============================================================================
