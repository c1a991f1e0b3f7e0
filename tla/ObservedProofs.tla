---------------------------- MODULE ObservedProofs ----------------------------
(***************************************************************************)
(* Observers for every number of pipelines, callers, runs and versions:    *)
(* they change nothing of what they watch, every step that ends had begun  *)
(* in the same call, and no span stays open behind a run.                  *)
(***************************************************************************)
EXTENDS Observed, DurableProofs

-----------------------------------------------------------------------------
(* Observers do not interfere.                                             *)

LEMMA ObservedStep ==
    ASSUME [ObservedNext]_observedVars
    PROVE  [Next]_vars
<1>1. ASSUME NEW c \in Calls, Starts(c) \/ ObservedProgress(c) \/ ObservedFault(c)
      PROVE  Request(c) \/ Progress(c) \/ Fault(c)
  BY <1>1 DEF Starts, ObservedProgress, ObservedFault, Progress, Fault
<1>2. ObservedOutage => Outage
  BY DEF ObservedOutage, Outage
<1>3. UNCHANGED observedVars => UNCHANGED vars
  BY DEF observedVars
<1> QED
  BY <1>1, <1>2, <1>3 DEF ObservedNext, Next

(***************************************************************************)
(* Observed adds callbacks that neither fail nor hold up a call (the       *)
(* header of Observed says which do not): its behaviours are those of      *)
(* Durable, so that the invariants proved there may be used here.          *)
(***************************************************************************)
LEMMA ObservedIsDurable == ObservedSpec => Spec
BY ObservedStep, PTL DEF ObservedSpec, ObservedInit, Spec

-----------------------------------------------------------------------------
(* The brackets.                                                           *)

LEMMA OpIs ==
    ASSUME NEW v \in Versions, NEW k \in Configurations, OpAt(v, k) # "end"
    PROVE  k.ip \in DOMAIN Code[v] /\ OpAt(v, k) = Code[v][k.ip].op
BY CodeTyped DEF OpAt, InstrAt, Configurations, Ips

LEMMA EventIs ==
    ASSUME NEW v \in Versions, NEW k \in Configurations, NEW event
    PROVE  IsEvent(v, k.ip, event) <=>
               OpAt(v, k) = "emit" /\ InstrAt(v, k).event = event
BY OpIs, CodeTyped DEF IsEvent, OpAt, InstrAt, Configurations, Ips

LEMMA BegunNext ==
    ASSUME NEW v, NEW ip \in Ips
    PROVE  /\ IsEvent(v, ip, "step_start") =>
                  BegunAt(v, ip + 1) =
                      BegunAt(v, ip) \cup ({Code[v][ip].node} \cap Nodes)
           /\ IsEvent(v, ip, "step_end") =>
                  BegunAt(v, ip + 1) = BegunAt(v, ip) \ {Code[v][ip].node}
           /\ (/\ ~IsEvent(v, ip, "step_start")
               /\ ~IsEvent(v, ip, "step_end")) =>
                  BegunAt(v, ip + 1) = BegunAt(v, ip)
<1> DEFINE Ends(j, n) == IsEvent(v, j, "step_end") /\ Code[v][j].node = n
           Opened(q, n) == IsEvent(v, q, "step_start") /\ Code[v][q].node = n
           Open(q, i, n) == Opened(q, n) /\ \A j \in (q + 1)..(i - 1) : ~Ends(j, n)
<1>1. ASSUME NEW i \in Ips, NEW n \in Nodes
      PROVE  n \in BegunAt(v, i) <=> \E q \in 1..(i - 1) : Open(q, i, n)
  BY DEF BegunAt
<1>2. ASSUME NEW n \in Nodes
      PROVE  n \in BegunAt(v, ip + 1) <=>
                 Opened(ip, n) \/ (n \in BegunAt(v, ip) /\ ~Ends(ip, n))
  <2>1. ip + 1 \in Ips /\ (ip + 1) - 1 = ip /\ ip \in Nat
    BY DEF Ips
  <2>2. Open(ip, ip + 1, n) <=> Opened(ip, n)
    BY <2>1
  <2>3. ASSUME NEW q \in 1..(ip - 1)
        PROVE  Open(q, ip + 1, n) <=> Open(q, ip, n) /\ ~Ends(ip, n)
    <3>1. \A j : j \in (q + 1)..((ip + 1) - 1) <=> j \in (q + 1)..(ip - 1) \/ j = ip
      BY <2>1
    <3> HIDE DEF Ends, Opened
    <3> QED
      BY <3>1
  <2>4. \A q : q \in 1..((ip + 1) - 1) <=> q \in 1..(ip - 1) \/ q = ip
    BY <2>1 DEF Ips
  <2> HIDE DEF Ends, Opened, Open
  <2> QED
    BY <1>1, <2>1, <2>2, <2>3, <2>4
<1>3. BegunAt(v, ip) \subseteq Nodes /\ BegunAt(v, ip + 1) \subseteq Nodes
  BY DEF BegunAt
<1>4. \A n : ~(IsEvent(v, ip, "step_start") /\ IsEvent(v, ip, "step_end"))
  BY DEF IsEvent
<1> QED
  BY <1>2, <1>3, <1>4

LEMMA UnderwayNext ==
    ASSUME NEW v, NEW ip \in Ips
    PROVE  UnderwayAt(v, ip + 1) <=>
               \/ IsEvent(v, ip, "pipeline_start")
               \/ UnderwayAt(v, ip) /\ ~IsEvent(v, ip, "pipeline_end")
<1> DEFINE Open(q, i) == /\ IsEvent(v, q, "pipeline_start")
                         /\ \A j \in (q + 1)..(i - 1) :
                                 ~IsEvent(v, j, "pipeline_end")
<1>1. ASSUME NEW i \in Ips
      PROVE  UnderwayAt(v, i) <=> \E q \in 1..(i - 1) : Open(q, i)
  BY DEF UnderwayAt
<1>2. ip + 1 \in Ips /\ (ip + 1) - 1 = ip /\ ip \in Nat
  BY DEF Ips
<1>3. Open(ip, ip + 1) <=> IsEvent(v, ip, "pipeline_start")
  BY <1>2
<1>4. ASSUME NEW q \in 1..(ip - 1)
      PROVE  Open(q, ip + 1) <=> Open(q, ip) /\ ~IsEvent(v, ip, "pipeline_end")
  <2>1. \A j : j \in (q + 1)..((ip + 1) - 1) <=> j \in (q + 1)..(ip - 1) \/ j = ip
    BY <1>2
  <2> QED
    BY <2>1
<1>5. \A q : q \in 1..((ip + 1) - 1) <=> q \in 1..(ip - 1) \/ q = ip
  BY <1>2 DEF Ips
<1> HIDE DEF Open
<1> QED
  BY <1>1, <1>2, <1>3, <1>4, <1>5

\* Nothing is open behind the last instruction.
LEMMA NothingBegunAtEnd ==
    ASSUME StepsAreBracketed, NEW v \in Versions, NEW k \in Configurations,
           OpAt(v, k) = "end"
    PROVE  BegunAt(v, k.ip) = {} /\ ~UnderwayAt(v, k.ip)
<1> DEFINE last == Len(Code[v]) + 1
<1>1. /\ DOMAIN Code[v] = 1..Len(Code[v]) /\ Len(Code[v]) \in Nat
      /\ k.ip \in Ips
  BY CodeTyped DEF Configurations
<1>2. BegunAt(v, last) = {} /\ ~UnderwayAt(v, last)
  BY DEF StepsAreBracketed
<1>3. CASE k.ip >= last
  <2>1. ASSUME NEW q \in 1..(k.ip - 1), q \in DOMAIN Code[v]
        PROVE  /\ q \in 1..(last - 1)
               /\ \A j \in (q + 1)..(last - 1) : j \in (q + 1)..(k.ip - 1)
    BY <1>1, <1>3, <2>1 DEF Ips
  <2> HIDE DEF last
  <2>2. BegunAt(v, k.ip) \subseteq BegunAt(v, last)
    BY <2>1 DEF BegunAt, IsEvent
  <2>3. UnderwayAt(v, k.ip) => UnderwayAt(v, last)
    BY <2>1 DEF UnderwayAt, IsEvent
  <2> QED
    BY <1>2, <2>2, <2>3
<1>4. CASE k.ip < last
  <2>1. k.ip \in DOMAIN Code[v] /\ Code[v][k.ip].op = "end"
    BY <1>1, <1>4 DEF OpAt, InstrAt, Ips
  <2> QED
    BY <2>1, CodeTyped
<1> QED
  BY <1>1, <1>3, <1>4 DEF Ips

\* Instructions that are no events leave the steps that have begun.
LEMMA AfterEvents ==
    ASSUME StepsAreBracketed, NEW v \in Versions, NEW k \in Configurations,
           NEW next \in After(v, k), OpAt(v, k) # "emit"
    PROVE  /\ BegunAt(v, next.ip) = BegunAt(v, k.ip)
           /\ UnderwayAt(v, k.ip) => UnderwayAt(v, next.ip)
<1> DEFINE i == InstrAt(v, k)
           Same(ip) == /\ BegunAt(v, ip) = BegunAt(v, k.ip)
                       /\ UnderwayAt(v, k.ip) => UnderwayAt(v, ip)
<1>1. OpAt(v, k) # "end" /\ k.ip \in DOMAIN Code[v] /\ i.op = OpAt(v, k)
  BY OpIs DEF After, InstrAt
<1>2. k.ip \in Ips /\ i = Code[v][k.ip]
  BY DEF Configurations, InstrAt
<1>3. Same(k.ip + 1)
  <2>1. \A event : ~IsEvent(v, k.ip, event)
    BY EventIs
  <2> QED
    BY <1>2, <2>1, BegunNext, UnderwayNext
<1>4. CASE i.op = "route"
  <2>1. PICK route \in DOMAIN i.targets : next.ip = i.targets[route]
    BY <1>1, <1>4 DEF After, AfterRoute
  <2>2. BegunAt(v, k.ip) = {}
    BY <1>1, <1>2, <1>4 DEF StepsAreBracketed
  <2>3. BetweenSteps(v, i.targets[route])
    BY <1>1, <1>2, <1>4 DEF StepsAreBracketed
  <2> QED
    BY <2>1, <2>2, <2>3 DEF BetweenSteps
<1>5. CASE i.op = "jump"
  <2>1. next.ip = i.target
    BY <1>1, <1>5 DEF After, Configurations
  <2>2. BegunAt(v, k.ip) = {}
    BY <1>1, <1>2, <1>5 DEF StepsAreBracketed
  <2>3. BetweenSteps(v, i.target)
    BY <1>1, <1>2, <1>5 DEF StepsAreBracketed
  <2> QED
    BY <2>1, <2>2, <2>3 DEF BetweenSteps
<1>6. CASE i.op = "fork"
  <2>1. \/ next.ip = k.ip + 1
        \/ next.ip = k.ip + 2 /\ OpAt(v, Skip(k)) = "join"
    BY <1>1, <1>6 DEF After, AfterFork, Skip, Configurations
  <2>2. Skip(k) \in Configurations /\ Skip(k).ip = k.ip + 1
    BY DEF Skip, Configurations, Ips
  <2>3. OpAt(v, Skip(k)) = "join" => Same(k.ip + 1 + 1)
    <3>1. OpAt(v, Skip(k)) = "join" => \A event : ~IsEvent(v, k.ip + 1, event)
      BY <2>2, EventIs
    <3>2. k.ip + 1 \in Ips
      BY <1>2 DEF Ips
    <3> QED
      BY <1>3, <3>1, <3>2, BegunNext, UnderwayNext
  <2>4. k.ip + 1 + 1 = k.ip + 2
    BY <1>2 DEF Ips
  <2> QED
    BY <1>3, <2>1, <2>3, <2>4
<1>7. CASE i.op \notin {"route", "jump", "fork"}
  <2>1. next.ip = k.ip + 1
    BY <1>1, <1>7 DEF After, AfterCall, Skip, Configurations
  <2> QED
    BY <1>3, <2>1
<1> QED
  BY <1>4, <1>5, <1>6, <1>7

-----------------------------------------------------------------------------
(* The timers: a running call has timed the steps begun before its ip.     *)

Begun(c) == BegunAt(VersionOf(c), conf[c].ip)

Timed(c) == IF pc[c] = "run" THEN Begun(c) ELSE {}

\* Wherever a call is about to start or could be taken over, no step is open.
StartsClean(c) == pc[c] \in {"reset", "rewrite"} => Begun(c) = {}

StoredClean(r) ==
    store[r] # Nothing => BegunAt(store[r].version, store[r].ip) = {}

TimersInv ==
    /\ timers = [c \in Calls |-> Timed(c)]
    /\ \A c \in Calls : AtFork(c) /\ StartsClean(c)
    /\ \A r \in Runs : StoredClean(r)

LEMMA NothingBegunAtEntry ==
    ASSUME NEW v
    PROVE  BegunAt(v, 1) = {} /\ ~UnderwayAt(v, 1)
BY DEF BegunAt, UnderwayAt

\* Where a call is, in the code it runs.
LEMMA CallAt ==
    ASSUME TypeOK, NEW c \in Calls
    PROVE  /\ VersionOf(c) \in Versions
           /\ pc[c] \in {"reset", "rewrite", "run", "fork"} =>
                  conf[c] \in Configurations /\ conf[c].ip \in Ips
BY CallsUsePipes DEF TypeOK, VersionOf, Configurations

LEMMA TimersOf ==
    ASSUME TimersInv, NEW c \in Calls
    PROVE  /\ timers[c] = Timed(c) /\ AtFork(c) /\ StartsClean(c)
           /\ \A steps : timers' = [timers EXCEPT ![c] = steps] =>
                             timers'[c] = steps
           /\ timers' = timers => timers' = [timers EXCEPT ![c] = timers[c]]
BY DEF TimersInv

\* An instruction of these kinds stands between the steps.
LEMMA BetweenHere ==
    ASSUME StepsAreBracketed, NEW v \in Versions, NEW k \in Configurations,
           OpAt(v, k) \in {"checkpoint", "fork", "route", "jump"}
    PROVE  BegunAt(v, k.ip) = {}
BY OpIs DEF StepsAreBracketed

\* An event sets and clears the timer of its step.
LEMMA EmitsTimers ==
    ASSUME StepsAreBracketed, TypeOK, TimersInv,
           NEW c \in Calls, Advance(c), Emits(c), Op(c) = "emit"
    PROVE  timers' = [timers EXCEPT ![c] = Timed(c)']
<1> DEFINE v == VersionOf(c)
           ip == conf[c].ip
           i == Code[v][ip]
<1>1. /\ v \in Versions /\ conf[c] \in Configurations /\ ip \in Ips
      /\ i = Instr(c) /\ pc[c] = "run"
  BY CallAt DEF Advance, Instr, InstrAt
<1>2. /\ ip \in DOMAIN Code[v]
      /\ \A event : IsEvent(v, ip, event) <=> i.event = event
  <2>1. OpAt(v, conf[c]) = "emit" /\ InstrAt(v, conf[c]) = i
    BY <1>1 DEF Op, Instr
  <2> HIDE DEF v, ip, i
  <2>2. ip \in DOMAIN Code[v]
    BY <1>1, <2>1, OpIs DEF ip
  <2>3. ASSUME NEW event
        PROVE  IsEvent(v, ip, event) <=> i.event = event
    BY <1>1, <2>1, EventIs DEF ip
  <2> QED
    BY <2>2, <2>3
<1>3. timers[c] = BegunAt(v, ip)
  BY <1>1, TimersOf DEF Timed, Begun
<1>4. Timed(c)' = BegunAt(v, ip + 1)
  <2>1. conf'[c].ip = ip + 1 /\ pc'[c] = "run" /\ VersionOf(c)' = v
    BY <1>1 DEF Advance, After, Op, Skip, TypeOK, control, VersionOf,
                Configurations
  <2> QED
    BY <2>1 DEF Timed, Begun
<1>5. /\ i.event = "step_start" => i.node \in Nodes
      /\ BegunAt(v, ip) \subseteq Nodes
  BY <1>1, <1>2 DEF StepsAreBracketed, BegunAt
<1> HIDE DEF v, ip, i
<1>6. CASE i.event = "step_start"
  <2>1. timers' = [timers EXCEPT ![c] = timers[c] \cup {i.node}]
    BY <1>1, <1>6 DEF Emits, SetTimers
  <2>2. BegunAt(v, ip + 1) = BegunAt(v, ip) \cup {i.node}
    BY <1>1, <1>2, <1>5, <1>6, BegunNext DEF i
  <2> QED
    BY <1>3, <1>4, <2>1, <2>2
<1>7. CASE i.event = "step_end"
  <2>1. timers' = [timers EXCEPT ![c] = timers[c] \ {i.node}]
    BY <1>1, <1>7 DEF Emits, SetTimers
  <2>2. BegunAt(v, ip + 1) = BegunAt(v, ip) \ {i.node}
    BY <1>1, <1>2, <1>7, BegunNext DEF i
  <2> QED
    BY <1>3, <1>4, <2>1, <2>2
<1>8. CASE i.event \notin {"step_start", "step_end"}
  <2>1. timers' = timers
    BY <1>1, <1>8 DEF Emits
  <2>2. BegunAt(v, ip + 1) = BegunAt(v, ip)
    BY <1>1, <1>2, <1>8, BegunNext
  <2> QED
    BY <1>3, <1>4, <2>1, <2>2, TimersOf
<1> QED
  BY <1>6, <1>7, <1>8

\* A call that is begun afresh is at the entry.
LEMMA BeginsAtEntry ==
    ASSUME TypeOK, NEW c \in Calls, Request(c)
    PROVE  /\ pc[c] = "idle" /\ pc'[c] \in {"reset", "run", "load", "replay"}
           /\ pc'[c] \in {"reset", "run"} => conf'[c].ip = 1
<1> PICK r \in Runs :
        \/ \E input \in Inputs : Invoke(c, r, input)
        \/ Resume(c, r)
        \/ \E step \in FromSteps \cup {NoStep} : Replay(c, r, step)
  BY DEF Request
<1>1. ASSUME NEW input \in Inputs, Invoke(c, r, input)
      PROVE  pc[c] = "idle" /\ pc'[c] \in {"reset", "run"} /\ conf'[c] = Entry
  BY <1>1 DEF Invoke, Begin, TypeOK
<1>2. ASSUME Resume(c, r) \/ \E step \in FromSteps \cup {NoStep} : Replay(c, r, step)
      PROVE  pc[c] = "idle" /\ pc'[c] \in {"load", "replay"}
  BY <1>2 DEF Resume, Replay, Begin, TypeOK
<1> QED
  BY <1>1, <1>2 DEF Entry

\* The branches run, and an address is taken up, only where they may.
LEMMA CallStands ==
    ASSUME StepsAreBracketed, TypeOK, TimersInv,
           NEW c \in Calls, Request(c) \/ Progress(c) \/ Fault(c)
    PROVE  AtFork(c)' /\ StartsClean(c)'
<1>0. VersionOf(c)' = VersionOf(c) /\ VersionOf(c) \in Versions
  BY CallAlone, CallAt DEF VersionOf
<1>1. CASE Request(c)
  BY <1>1, BeginsAtEntry, NothingBegunAtEntry DEF AtFork, StartsClean, Begun
<1>2. CASE Progress(c)
  <2>1. AtFork(c)'
    BY <1>2, TimersOf
       DEF Progress, Reset, Load, LoadFails, ReplayLoad, ReplayFails,
           Rewrite, Save, Advance, StageReturns, RouteFails, StartBranches,
           BranchEnds, Merge, Finish, Fail, End, control, TypeOK,
           AtFork, Op, VersionOf
  <2>2. CASE ReplayLoad(c) /\ pc'[c] = "rewrite"
    <3>1. IsEvent(VersionOf(c), conf'[c].ip, "step_start")
      BY <2>2 DEF ReplayLoad, TypeOK, StepStarts, IsFirst, IsEvent
    <3>2. BegunAt(VersionOf(c), conf'[c].ip) = {}
      BY <1>0, <3>1 DEF StepsAreBracketed, IsEvent
    <3> QED
      BY <1>0, <2>1, <3>2 DEF StartsClean, Begun
  <2>3. CASE ~(ReplayLoad(c) /\ pc'[c] = "rewrite")
    <3>1. pc'[c] \notin {"reset", "rewrite"}
      BY <1>2, <2>3
         DEF Progress, Reset, Load, LoadFails, ReplayLoad, ReplayFails,
             Rewrite, Save, Advance, StageReturns, RouteFails, StartBranches,
             BranchEnds, Merge, Finish, Fail, End, control, TypeOK
    <3> QED
      BY <2>1, <3>1 DEF StartsClean
  <2> QED
    BY <2>2, <2>3
<1>3. CASE Fault(c)
  <2>1. pc'[c] = "idle"
    BY <1>3 DEF Fault, StageFails, BranchFails, MergeFails, StoreFails, Cancel,
                Fail, End, TypeOK
  <2> QED
    BY <2>1 DEF AtFork, StartsClean
<1> QED
  BY <1>1, <1>2, <1>3

\* Nothing is timed where a call neither runs nor has a step open.
LEMMA NothingTimed ==
    ASSUME StepsAreBracketed, TypeOK, TimersInv, NEW c \in Calls,
           pc[c] # "run" \/ Op(c) \in {"checkpoint", "end", "fork", "route"}
    PROVE  Timed(c) = {}
BY CallAt, NothingBegunAtEnd, BetweenHere DEF Timed, Begun, Op

LEMMA StartsTimers ==
    ASSUME TypeOK, TimersInv, NEW c \in Calls, Starts(c)
    PROVE  timers' = [timers EXCEPT ![c] = Timed(c)']
<1>1. Timed(c) = {} /\ Timed(c)' = {}
  BY BeginsAtEntry, NothingBegunAtEntry DEF Starts, Timed, Begun
<1> QED
  BY <1>1, TimersOf DEF Starts

LEMMA ProgressTimers ==
    ASSUME StepsAreBracketed, TypeOK, TimersInv,
           NEW c \in Calls, ObservedProgress(c)
    PROVE  timers' = [timers EXCEPT ![c] = Timed(c)']
<1>0. /\ VersionOf(c)' = VersionOf(c) /\ VersionOf(c) \in Versions
      /\ StartsClean(c) /\ AtFork(c)
  <2>1. Progress(c)
    BY DEF ObservedProgress, Progress
  <2> QED
    BY <2>1, CallAlone, CallAt, TimersOf DEF VersionOf
<1>1. SUFFICES \/ timers' = timers /\ Timed(c)' = Timed(c)
               \/ timers' = [timers EXCEPT ![c] = Timed(c)']
  BY TimersOf
<1>2. CASE Reset(c) /\ Quiet
  <2>1. pc[c] = "reset" /\ conf' = conf
    BY <1>2 DEF Reset
  <2> QED
    BY <1>0, <1>2, <2>1 DEF Quiet, observers, Timed, StartsClean, Begun
<1>3. CASE Load(c) /\ Quiet
  <2> DEFINE stored == store[job[c].run]
  <2>1. /\ pc[c] = "load" /\ conf'[c].ip = stored.ip /\ job[c].run \in Runs
        /\ stored # Nothing /\ stored.version = VersionOf(c)
    BY <1>3 DEF Load, Restorable, TypeOK, Jobs
  <2>2. BegunAt(stored.version, stored.ip) = {}
    BY <2>1 DEF TimersInv, StoredClean
  <2> QED
    BY <1>0, <1>3, <2>1, <2>2 DEF Quiet, observers, Timed, Begun
<1>4. CASE /\ LoadFails(c) \/ ReplayFails(c) \/ ReplayLoad(c) \/ Rewrite(c)
                           \/ Finish(c)
           /\ Quiet
  <2>1. Timed(c) = {}
    BY <1>4, NothingTimed
       DEF LoadFails, ReplayFails, ReplayLoad, Rewrite, Finish
  <2>2. pc'[c] # "run"
    BY <1>4 DEF LoadFails, ReplayFails, ReplayLoad, Rewrite, Finish, Fail, End,
                TypeOK
  <2> QED
    BY <1>4, <2>1, <2>2 DEF Quiet, observers, Timed
<1>5. CASE (Save(c) \/ StageReturns(c) \/ Merge(c)) /\ Quiet
  <2>1. /\ conf[c] \in Configurations /\ conf'[c] \in After(VersionOf(c), conf[c])
        /\ Op(c) # "emit" /\ pc'[c] = "run"
        /\ pc[c] # "run" => Op(c) = "fork"
    BY <1>0, <1>5, CallAt
       DEF Save, StageReturns, Merge, TypeOK, AtFork, After, Op
  <2>2. Begun(c)' = Begun(c)
    BY <1>0, <2>1, AfterEvents DEF Op, Begun
  <2>3. pc[c] # "run" => Begun(c) = {}
    BY <1>0, <2>1, BetweenHere DEF Op, Begun
  <2> QED
    BY <1>5, <2>1, <2>2, <2>3 DEF Quiet, observers, Timed
<1>6. CASE Advance(c) /\ Emits(c)
  <2>1. CASE Op(c) # "emit"
    <3>1. /\ conf[c] \in Configurations
          /\ conf'[c] \in After(VersionOf(c), conf[c])
          /\ pc[c] = "run" /\ pc'[c] = "run" /\ timers' = timers
      BY <1>6, <2>1, CallAt DEF Advance, Emits, TypeOK
    <3>2. Begun(c)' = Begun(c)
      BY <1>0, <2>1, <3>1, AfterEvents DEF Op, Begun
    <3> QED
      BY <3>1, <3>2 DEF Timed
  <2>2. CASE Op(c) = "emit"
    BY <1>6, <2>2, EmitsTimers
  <2> QED
    BY <2>1, <2>2
<1>7. CASE RouteFails(c) /\ OnError(c, {})
  BY <1>7 DEF RouteFails, OnError, SetTimers, Fail, End, Timed, TypeOK
<1>8. CASE StartBranches(c) /\ BranchSpansOpen(c)
  <2>1. Timed(c) = {}
    BY <1>8, NothingTimed DEF StartBranches
  <2> QED
    BY <1>8, <2>1 DEF StartBranches, BranchSpansOpen, Timed, TypeOK
<1>9. CASE \E b \in Nodes : BranchEnds(c, b) /\ BranchSpanCloses(c, b)
  BY <1>9 DEF BranchEnds, BranchSpanCloses, Timed
<1> QED
  BY <1>2, <1>3, <1>4, <1>5, <1>6, <1>7, <1>8, <1>9 DEF ObservedProgress

LEMMA FaultTimers ==
    ASSUME StepsAreBracketed, TypeOK, TimersInv,
           NEW c \in Calls, ObservedFault(c)
    PROVE  timers' = [timers EXCEPT ![c] = Timed(c)']
<1>1. Timed(c)' = {}
  BY DEF ObservedFault, StageFails, BranchFails, MergeFails, StoreFails, Cancel,
         Fail, End, Timed, TypeOK
<1>2. CASE StoreFails(c) /\ Quiet /\ ~(pc[c] = "run" /\ Op(c) = "checkpoint")
  <2>1. pc[c] = "run" => Op(c) = "end"
    BY <1>2 DEF StoreFails, AtStore
  <2>2. Timed(c) = {}
    BY <2>1, NothingTimed
  <2> QED
    BY <1>1, <1>2, <2>2, TimersOf DEF Quiet, observers
<1>3. CASE timers' = [timers EXCEPT ![c] = {}]
  BY <1>1, <1>3
<1> QED
  BY <1>2, <1>3 DEF ObservedFault, OnError, CancelCloses, SetTimers

\* What a call saves stands between two steps.
LEMMA SavesBetween ==
    ASSUME StepsAreBracketed, TypeOK, TimersInv,
           NEW c \in Calls, Request(c) \/ Progress(c) \/ Fault(c),
           NEW r \in Runs
    PROVE  StoredClean(r)'
<1>1. CASE store'[r] = store[r] \/ store'[r] = Nothing
  BY <1>1 DEF TimersInv, StoredClean
<1>2. CASE store'[r] # store[r] /\ store'[r] # Nothing
  <2>1. /\ AtStore(c) \/ (pc[c] = "run" /\ Op(c) = "end" /\ job[c].durable)
        /\ store' = Effect(c)
    BY <1>2, CallEffect
  <2>2. /\ pc[c] = "rewrite" \/ (pc[c] = "run" /\ Op(c) = "checkpoint")
        /\ store'[r] = Record(c)
    BY <1>2, <2>1 DEF AtStore, Effect, TypeOK
  <2>3. Begun(c) = {}
    BY <2>2, CallAt, BetweenHere, TimersOf DEF Op, Begun, StartsClean
  <2> QED
    BY <2>2, <2>3 DEF StoredClean, Record, Begun
<1> QED
  BY <1>1, <1>2

LEMMA TimersStep ==
    ASSUME StepsAreBracketed, TypeOK, TimersInv, [ObservedNext]_observedVars
    PROVE  TimersInv'
<1>1. ASSUME NEW c \in Calls,
             Starts(c) \/ ObservedProgress(c) \/ ObservedFault(c)
      PROVE  TimersInv'
  <2>1. Request(c) \/ Progress(c) \/ Fault(c)
    BY <1>1 DEF Starts, ObservedProgress, ObservedFault, Progress, Fault
  <2>2. timers' = [timers EXCEPT ![c] = Timed(c)']
    BY <1>1, StartsTimers, ProgressTimers, FaultTimers
  <2>3. ASSUME NEW d \in Calls, d # c
        PROVE  Timed(d)' = Timed(d) /\ AtFork(d)' /\ StartsClean(d)'
    <3>1. /\ pc'[d] = pc[d] /\ conf'[d] = conf[d]
          /\ VersionOf(d)' = VersionOf(d)
      BY <2>1, <2>3, CallAlone DEF Others, VersionOf
    <3> QED
      BY <3>1, TimersOf DEF Timed, Begun, AtFork, StartsClean, Op
  <2>4. timers' = [d \in Calls |-> Timed(d)']
    BY <2>2, <2>3 DEF TimersInv
  <2>5. \A d \in Calls : AtFork(d)' /\ StartsClean(d)'
    BY <2>1, <2>3, CallStands
  <2>6. \A r \in Runs : StoredClean(r)'
    BY <2>1, SavesBetween
  <2> QED
    BY <2>4, <2>5, <2>6 DEF TimersInv
<1>2. ASSUME NEW p \in Pipes, NEW v \in Versions, Crash(p, v), SpansDie(p)
      PROVE  TimersInv'
  <2>1. ASSUME NEW c \in Calls
        PROVE  /\ Timed(c)' = IF PipeOf[c] = p THEN {} ELSE Timed(c)
               /\ AtFork(c)' /\ StartsClean(c)'
    <3>1. CASE PipeOf[c] = p
      <4>1. pc'[c] = "idle"
        BY <1>2, <3>1 DEF Crash
      <4> QED
        BY <3>1, <4>1 DEF Timed, AtFork, StartsClean
    <3>2. CASE PipeOf[c] # p
      <4>1. /\ pc'[c] = pc[c] /\ conf'[c] = conf[c]
            /\ VersionOf(c)' = VersionOf(c)
        BY <1>2, <3>2, CallsUsePipes DEF Crash, VersionOf, TypeOK
      <4> QED
        BY <3>2, <4>1, TimersOf DEF Timed, Begun, AtFork, StartsClean, Op
    <3> QED
      BY <3>1, <3>2
  <2>2. timers' = [c \in Calls |-> IF PipeOf[c] = p THEN {} ELSE Timed(c)]
    BY <1>2 DEF SpansDie, TimersInv
  <2>3. timers' = [c \in Calls |-> Timed(c)']
    BY <2>1, <2>2
  <2>4. ASSUME NEW r \in Runs PROVE StoredClean(r)'
    <3>1. store'[r] = store[r] \/ store'[r] = Nothing
      BY <1>2 DEF Crash
    <3> QED
      BY <3>1 DEF StoredClean, TimersInv
  <2> QED
    BY <2>1, <2>3, <2>4 DEF TimersInv
<1>3. CASE \/ OrphanEnds /\ \E o \in orphans \ orphans' : OrphanSpanCloses(o)
           \/ \E r \in Runs : Expire(r) /\ Quiet
           \/ UNCHANGED observedVars
  <2>1. /\ pc' = pc /\ conf' = conf /\ version' = version /\ timers' = timers
        /\ \A r \in Runs : store'[r] = store[r] \/ store'[r] = Nothing
    BY <1>3 DEF OrphanEnds, OrphanSpanCloses, Expire, control, Quiet,
                observers, observedVars, vars, TypeOK
  <2>2. \A c \in Calls : Timed(c)' = Timed(c) /\ AtFork(c)' /\ StartsClean(c)'
    BY <2>1, TimersOf DEF Timed, Begun, AtFork, StartsClean, Op, VersionOf
  <2>3. timers' = [c \in Calls |-> Timed(c)']
    BY <2>1, <2>2 DEF TimersInv
  <2>4. \A r \in Runs : StoredClean(r)'
    BY <2>1 DEF StoredClean, TimersInv
  <2> QED
    BY <2>2, <2>3, <2>4 DEF TimersInv
<1> QED
  BY <1>1, <1>2, <1>3 DEF ObservedNext, ObservedOutage

LEMMA TimersCorrect ==
    ASSUME StepsAreBracketed
    PROVE  ObservedSpec => []TimersInv
<1>1. ObservedInit => TimersInv
  BY DEF ObservedInit, Init, TimersInv, Timed, AtFork, StartsClean, StoredClean
<1>2. TypeOK /\ TimersInv /\ [ObservedNext]_observedVars => TimersInv'
  BY TimersStep
<1> QED
  BY <1>1, <1>2, TypeCorrect, ObservedIsDurable, PTL DEF ObservedSpec

(***************************************************************************)
(* With code whose events are brackets: an on_step_end of a call ends a    *)
(* step which the same call has started, wherever it was resumed or        *)
(* replayed from, and no step is left open at a CHECKPOINT, in a branch or *)
(* by a call that is over.                                                 *)
(***************************************************************************)
THEOREM StepsEndWhereBegun ==
    ASSUME StepsAreBracketed
    PROVE  ObservedSpec => []EndsWhatItStarted
<1>1. TypeOK /\ TimersInv => EndsWhatItStarted
  <2> SUFFICES ASSUME TypeOK, TimersInv, NEW c \in Calls
               PROVE  IF pc[c] # "run" THEN timers[c] = {}
                      ELSE /\ Op(c) \in {"checkpoint", "end", "fork", "route"} =>
                                  timers[c] = {}
                           /\ (Op(c) = "emit" /\ Instr(c).event = "step_end") =>
                                  Instr(c).node \in timers[c]
    BY DEF EndsWhatItStarted
  <2>1. \/ pc[c] # "run"
        \/ Op(c) \in {"checkpoint", "end", "fork", "route"}
        => timers[c] = {}
    BY NothingTimed, TimersOf
  <2>2. ASSUME pc[c] = "run", Op(c) = "emit", Instr(c).event = "step_end"
        PROVE  Instr(c).node \in timers[c]
    <3>1. /\ VersionOf(c) \in Versions /\ conf[c] \in Configurations
          /\ IsEvent(VersionOf(c), conf[c].ip, "step_end")
      BY <2>2, CallAt, EventIs DEF Op, Instr
    <3>2. Instr(c).node \in Begun(c)
      BY <3>1 DEF StepsAreBracketed, IsEvent, Instr, InstrAt, Begun
    <3> QED
      BY <2>2, <3>2, TimersOf DEF Timed
  <2> QED
    BY <2>1, <2>2
<1> QED
  BY <1>1, TimersCorrect, TypeCorrect, ObservedIsDurable, PTL

-----------------------------------------------------------------------------
(* The spans, of pipelines that are all durable.                           *)

AllAreDurable == \A p \in Pipes : IsDurable[p]

\* Every call in progress is locked; branches run only at their FORK.
Parked(c) ==
    /\ pc[c] # "idle" => Locked(c)
    /\ pc[c] # "fork" => running[c] = {}

ParkedInv == \A c \in Calls : Parked(c)

\* Why c may hold the span of step s open.
HeldBy(c, s) ==
    \/ /\ s = Root /\ pc[c] \in {"run", "fork"}
       /\ UnderwayAt(VersionOf(c), conf[c].ip)
    \/ s \in Timed(c)
    \/ pc[c] = "fork" /\ s \in running[c]

Owns(c, p, r) == pc[c] # "idle" /\ PipeOf[c] = p /\ job[c].run = r

HeldByOrphan(p, r, s) ==
    \E o \in orphans : o.pipe = p /\ o.run = r /\ o.node = s

\* Every open span has a call or a branch left behind that will close it.
OpenIsHeld(p) ==
    \A key \in spans[p] :
        key[1] \notin cut[p] =>
            \/ \E c \in Calls : Owns(c, p, key[1]) /\ HeldBy(c, key[2])
            \/ HeldByOrphan(p, key[1], key[2])

\* No run is begun while branches of it go on, or it is cut.
OrphansAlone(p) ==
    \A o \in orphans :
        (o.pipe = p /\ o.run \notin cut[p]) => \A c \in Calls : ~Owns(c, p, o.run)

\* Only spans of runs that are cut are replaced unended.
LeakedIsCut(p) == \A key \in leaked[p] : key[1] \in cut[p]

SpanKeys == Runs \X (Nodes \cup {Root})

SpanTypes ==
    /\ spans \in [Pipes -> SUBSET SpanKeys]
    /\ leaked \in [Pipes -> SUBSET SpanKeys]
    /\ cut \in [Pipes -> SUBSET Runs]

SpansInv ==
    /\ SpanTypes
    /\ \A p \in Pipes : OpenIsHeld(p) /\ OrphansAlone(p) /\ LeakedIsCut(p)

\* What the spans need of the rest.
Rest == TypeOK /\ SingleFlight /\ TimersInv /\ ParkedInv

\* A step of c changes no running branches of others, and ends no orphan.
LEMMA BranchesAlone ==
    ASSUME TypeOK, NEW c \in Calls, Request(c) \/ Progress(c) \/ Fault(c)
    PROVE  /\ \A d \in Calls \ {c} : running'[d] = running[d]
           /\ orphans \subseteq orphans'
<1>1. CASE Request(c)
  BY <1>1 DEF Request, Invoke, Resume, Replay, Begin
<1>2. CASE Progress(c)
  BY <1>2 DEF Progress, Reset, Load, LoadFails, ReplayLoad, ReplayFails,
              Rewrite, Save, Advance, StageReturns, RouteFails,
              StartBranches, BranchEnds, Merge, Finish, Fail, End, control,
              TypeOK
<1>3. CASE Fault(c)
  BY <1>3 DEF Fault, StageFails, BranchFails, MergeFails, StoreFails, Cancel,
              Fail, End, TypeOK
<1> QED
  BY <1>1, <1>2, <1>3

LEMMA RequestParked ==
    ASSUME AllAreDurable, TypeOK, ParkedInv, NEW c \in Calls, Request(c)
    PROVE  Parked(c)'
<1> PICK r \in Runs :
        \/ \E input \in Inputs : Invoke(c, r, input)
        \/ Resume(c, r)
        \/ \E step \in FromSteps \cup {NoStep} : Replay(c, r, step)
  BY DEF Request
<1>1. IsDurable[PipeOf[c]] = TRUE
  BY CallsUsePipes, DurableFlags DEF AllAreDurable
<1>2. PICK step \in FromSteps \cup {NoStep},
           phase \in {"reset", "load", "replay"} :
              Begin(c, r, TRUE, step, phase)
  BY <1>1 DEF Invoke, Resume, Replay
<1>3. pc[c] = "idle" /\ pc'[c] # "fork" /\ running' = running
  BY <1>2 DEF Begin, TypeOK
<1>4. job'[c].durable
  BY <1>2 DEF Begin, TypeOK
<1> QED
  BY <1>3, <1>4 DEF Parked, ParkedInv, Locked

LEMMA ParkedStep ==
    ASSUME AllAreDurable, TypeOK, ParkedInv, [Next]_vars
    PROVE  ParkedInv'
<1>1. ASSUME NEW c \in Calls, Request(c) \/ Progress(c) \/ Fault(c)
      PROVE  ParkedInv'
  <2>1. Parked(c)'
    <3>1. CASE Progress(c)
      <4>1. /\ pc'[c] # "idle" => pc[c] # "idle" /\ job'[c] = job[c]
            /\ pc'[c] # "fork" => running'[c] = {}
        BY <3>1 DEF Progress, Reset, Load, LoadFails, ReplayLoad, ReplayFails,
                    Rewrite, Save, Advance, StageReturns, RouteFails,
                    StartBranches, BranchEnds, Merge, Finish, Fail, End, control,
                    TypeOK, Parked, ParkedInv
      <4> QED
        BY <4>1 DEF Parked, ParkedInv, Locked
    <3>2. CASE Fault(c)
      BY <3>2 DEF Fault, StageFails, BranchFails, MergeFails, StoreFails,
                  Cancel, Fail, End, TypeOK, Parked
    <3> QED
      BY <1>1, <3>1, <3>2, RequestParked
  <2>2. ASSUME NEW d \in Calls, d # c PROVE Parked(d)'
    BY <1>1, <2>2, CallAlone, BranchesAlone DEF Others, Parked, ParkedInv, Locked
  <2> QED
    BY <2>1, <2>2 DEF ParkedInv
<1>2. CASE Outage
  <2>1. ASSUME NEW c \in Calls
        PROVE  \/ pc'[c] = "idle" /\ running'[c] = {}
               \/ pc'[c] = pc[c] /\ job'[c] = job[c] /\ running'[c] = running[c]
    BY <1>2 DEF Outage, Crash, Expire, control, TypeOK
  <2> QED
    BY <2>1 DEF Parked, ParkedInv, Locked
<1>3. CASE OrphanEnds \/ UNCHANGED vars
  BY <1>3 DEF OrphanEnds, vars, Parked, ParkedInv, Locked
<1> QED
  BY <1>1, <1>2, <1>3 DEF Next

LEMMA ParkedCorrect ==
    ASSUME AllAreDurable
    PROVE  Spec => []ParkedInv
<1>1. Init => ParkedInv
  BY DEF Init, ParkedInv, Parked
<1>2. TypeOK /\ ParkedInv /\ [Next]_vars => ParkedInv'
  BY ParkedStep
<1> QED
  BY <1>1, <1>2, TypeCorrect, PTL DEF Spec

\* A span of the run that c works on is one that c holds.
LEMMA HeldAlone ==
    ASSUME Rest, SpansInv, NEW c \in Calls, pc[c] # "idle",
           job[c].run \notin cut[PipeOf[c]],
           NEW s, <<job[c].run, s>> \in spans[PipeOf[c]]
    PROVE  HeldBy(c, s)
<1> DEFINE p == PipeOf[c]
           r == job[c].run
<1>1. p \in Pipes /\ Owns(c, p, r) /\ Locked(c)
  BY CallsUsePipes DEF Owns, Rest, ParkedInv, Parked
<1>2. ~HeldByOrphan(p, r, s)
  BY <1>1 DEF SpansInv, OrphansAlone, HeldByOrphan
<1>3. PICK d \in Calls : Owns(d, p, r) /\ HeldBy(d, s)
  BY <1>1, <1>2 DEF SpansInv, OpenIsHeld
<1>4. d = c
  BY <1>1, <1>3 DEF Owns, Rest, ParkedInv, Parked, SingleFlight
<1> QED
  BY <1>3, <1>4

\* What a step of c does to spans and cuts: it touches those of its pipeline;
\* a span it opens it holds, and one it held it closes, holds on to, or leaves
\* to a branch; what it replaces is cut.
SpanStep(c) ==
    LET p == PipeOf[c]
    IN  /\ \A q \in Pipes \ {p} : /\ spans'[q] = spans[q] /\ cut'[q] = cut[q]
                                  /\ leaked'[q] = leaked[q]
        /\ cut[p] \subseteq cut'[p]
        /\ \A key \in spans'[p] \ spans[p] : Owns(c, p, key[1])' /\ HeldBy(c, key[2])'
        /\ \A r, s : (/\ Owns(c, p, r) /\ r \notin cut'[p] /\ HeldBy(c, s)
                      /\ <<r, s>> \in spans'[p]) =>
                         \/ Owns(c, p, r)' /\ HeldBy(c, s)'
                         \/ HeldByOrphan(p, r, s)'
        /\ \A key \in leaked'[p] : key \in leaked[p] \/ key[1] \in cut'[p]

\* It begins no run that has branches left, and leaves only branches of its own.
OrphanStep(c) ==
    \A o \in orphans' :
        /\ Owns(c, o.pipe, o.run)' => o.run \in cut'[o.pipe]
        /\ o \in orphans \/ Owns(c, o.pipe, o.run)

LEMMA SpanStepKeeps ==
    ASSUME Rest, SpansInv, NEW c \in Calls,
           Request(c) \/ Progress(c) \/ Fault(c),
           SpanStep(c), OrphanStep(c), SpanTypes'
    PROVE  SpansInv'
<1>0. PipeOf[c] \in Pipes /\ TypeOK
  BY CallsUsePipes DEF Rest
<1>1. ASSUME NEW d \in Calls, d # c
      PROVE  /\ \A s : HeldBy(d, s)' <=> HeldBy(d, s)
             /\ \A p, r : Owns(d, p, r)' <=> Owns(d, p, r)
  <2>1. /\ pc'[d] = pc[d] /\ job'[d] = job[d] /\ conf'[d] = conf[d]
        /\ running'[d] = running[d] /\ VersionOf(d)' = VersionOf(d)
    BY <1>0, <1>1, CallAlone, BranchesAlone DEF Others, VersionOf
  <2> QED
    BY <2>1 DEF HeldBy, Owns, Timed, Begun
<1>2. \A p \in Pipes : cut[p] \subseteq cut'[p]
  BY DEF SpanStep
<1>3. \A p, r, s : HeldByOrphan(p, r, s) => HeldByOrphan(p, r, s)'
  BY <1>0, BranchesAlone DEF HeldByOrphan
<1>4. ASSUME NEW p \in Pipes, NEW key \in spans'[p], key[1] \notin cut'[p]
      PROVE  \/ \E d \in Calls : Owns(d, p, key[1])' /\ HeldBy(d, key[2])'
             \/ HeldByOrphan(p, key[1], key[2])'
  <2>1. CASE key \notin spans[p]
    BY <1>4, <2>1 DEF SpanStep
  <2>2. CASE key \in spans[p] /\ HeldByOrphan(p, key[1], key[2])
    BY <1>3, <2>2
  <2>3. ASSUME key \in spans[p], NEW d \in Calls,
               Owns(d, p, key[1]), HeldBy(d, key[2])
        PROVE  \/ \E e \in Calls : Owns(e, p, key[1])' /\ HeldBy(e, key[2])'
               \/ HeldByOrphan(p, key[1], key[2])'
    <3>1. CASE d # c
      BY <1>1, <2>3, <3>1
    <3>2. CASE d = c
      <4>1. PICK r : r = key[1]
        OBVIOUS
      <4>2. p = PipeOf[c] /\ Owns(c, p, r) /\ HeldBy(c, key[2])
        BY <2>3, <3>2, <4>1 DEF Owns
      <4>3. <<r, key[2]>> \in spans'[p] /\ r \notin cut'[p]
        BY <1>4, <2>3, <4>1 DEF SpansInv, SpanTypes, SpanKeys
      <4>4. \/ Owns(c, p, r)' /\ HeldBy(c, key[2])'
            \/ HeldByOrphan(p, r, key[2])'
        BY <4>2, <4>3 DEF SpanStep
      <4> QED
        BY <4>1, <4>4
    <3> QED
      BY <3>1, <3>2
  <2> QED
    BY <1>2, <1>4, <2>1, <2>2, <2>3 DEF SpansInv, OpenIsHeld
<1>5. ASSUME NEW p \in Pipes, NEW o \in orphans', o.pipe = p,
             o.run \notin cut'[p], NEW d \in Calls
      PROVE  ~Owns(d, p, o.run)'
  <2>1. CASE d = c
    BY <1>5, <2>1 DEF OrphanStep
  <2>2. CASE d # c /\ o \in orphans
    BY <1>1, <1>2, <1>5, <2>2 DEF SpansInv, OrphansAlone
  <2>3. CASE d # c /\ Owns(c, p, o.run)
    <3>1. ~Owns(d, p, o.run)
      BY <2>3 DEF Owns, Rest, ParkedInv, Parked, SingleFlight
    <3> QED
      BY <1>1, <2>3, <3>1
  <2> QED
    BY <1>5, <2>1, <2>2, <2>3 DEF OrphanStep
<1>6. ASSUME NEW p \in Pipes, NEW key \in leaked'[p]
      PROVE  key[1] \in cut'[p]
  <2>1. key \in leaked[p] \/ key[1] \in cut'[p]
    BY <1>6 DEF SpanStep
  <2> QED
    BY <1>2, <2>1 DEF SpansInv, LeakedIsCut
<1>7. \A p \in Pipes : OpenIsHeld(p)' /\ OrphansAlone(p)' /\ LeakedIsCut(p)'
  BY <1>4, <1>5, <1>6 DEF OpenIsHeld, OrphansAlone, LeakedIsCut
<1> QED
  BY <1>7 DEF SpansInv

GoesOn(c) == pc'[c] # "idle" /\ job'[c] = job[c]

\* A step that closes spans of its run closes or keeps what it held.
LEMMA ClosingStep ==
    ASSUME Rest, SpansInv, NEW c \in Calls, pc[c] # "idle",
           NEW steps, Closes(c, steps), cut' = cut,
           NEW run, run = job[c].run,
           \A s : HeldBy(c, s) => \/ s \in steps
                                  \/ GoesOn(c) /\ HeldBy(c, s)'
                                  \/ HeldByOrphan(PipeOf[c], run, s)'
    PROVE  SpanStep(c) /\ SpanTypes'
<1> DEFINE p == PipeOf[c]
<1>1. p \in Pipes /\ SpanTypes
  BY CallsUsePipes DEF SpansInv
<1>2. /\ spans'[p] = spans[p] \ {<<run, s>> : s \in steps}
      /\ \A q \in Pipes \ {p} : spans'[q] = spans[q]
      /\ leaked' = leaked
  BY <1>1 DEF Closes, SpanTypes
<1>3. SpanTypes'
  BY <1>1 DEF Closes, SpanTypes
<1>4. ASSUME NEW r, NEW s, Owns(c, p, r), HeldBy(c, s), <<r, s>> \in spans'[p]
      PROVE  \/ Owns(c, p, r)' /\ HeldBy(c, s)'
             \/ HeldByOrphan(p, r, s)'
  <2>1. r = run
    BY <1>4 DEF Owns
  <2>2. s \notin steps
    BY <1>2, <1>4, <2>1
  <2>3. GoesOn(c) => Owns(c, p, r)'
    BY <1>4 DEF GoesOn, Owns
  <2> QED
    BY <1>4, <2>1, <2>2, <2>3
<1> QED
  BY <1>2, <1>3, <1>4 DEF SpanStep

\* A step that opens spans of its run, of steps it does not hold yet.
LEMMA OpeningStep ==
    ASSUME Rest, SpansInv, NEW c \in Calls, pc[c] # "idle",
           NEW steps \in SUBSET (Nodes \cup {Root}), NEW keys,
           keys \subseteq {<<job[c].run, s>> : s \in steps},
           Opens(c, keys), cut' = cut, GoesOn(c),
           \A s \in steps : ~HeldBy(c, s) /\ HeldBy(c, s)',
           \A s : HeldBy(c, s) => HeldBy(c, s)'
    PROVE  SpanStep(c) /\ SpanTypes'
<1> DEFINE p == PipeOf[c]
<1>1. p \in Pipes /\ SpanTypes /\ job[c].run \in Runs
  BY CallsUsePipes DEF SpansInv, Rest, TypeOK, Jobs
<1>2. keys \subseteq SpanKeys
  BY <1>1 DEF SpanKeys
<1>3. /\ spans'[p] = spans[p] \cup keys
      /\ leaked'[p] = leaked[p] \cup {k \in spans[p] \cap keys : k[1] \notin cut[p]}
      /\ \A q \in Pipes \ {p} : spans'[q] = spans[q] /\ leaked'[q] = leaked[q]
  BY <1>1 DEF Opens, Spans, SpanTypes
<1>4. SpanTypes'
  BY <1>1, <1>2 DEF Opens, Spans, SpanTypes
<1>5. \A r : Owns(c, p, r)' <=> Owns(c, p, r)
  BY DEF GoesOn, Owns
<1>6. ASSUME NEW key \in keys
      PROVE  /\ Owns(c, p, key[1])' /\ HeldBy(c, key[2])'
             /\ key \in spans[p] => key[1] \in cut[p]
  <2>1. PICK s \in steps : key = <<job[c].run, s>>
    BY <1>6
  <2>2. Owns(c, p, key[1])
    BY <2>1 DEF Owns
  <2>3. key \in spans[p] => job[c].run \in cut[p]
    BY <2>1, HeldAlone
  <2> QED
    BY <1>5, <2>1, <2>2, <2>3
<1>7. \A r, s : Owns(c, p, r) /\ HeldBy(c, s) => Owns(c, p, r)' /\ HeldBy(c, s)'
  BY <1>5
<1>8. \A key \in leaked'[p] : key \in leaked[p] \/ key[1] \in cut[p]
  BY <1>3, <1>6
<1> QED
  BY <1>3, <1>4, <1>6, <1>7, <1>8 DEF SpanStep

\* Who holds on to no branches leaves none, and begins no run.
LEMMA NoOrphans ==
    ASSUME Rest, SpansInv, NEW c \in Calls, orphans' = orphans, cut' = cut,
           pc[c] # "idle", pc'[c] = "idle" \/ GoesOn(c)
    PROVE  OrphanStep(c)
<1> SUFFICES ASSUME NEW o \in orphans, Owns(c, o.pipe, o.run)'
             PROVE  o.run \in cut[o.pipe]
  BY DEF OrphanStep
<1>1. Owns(c, o.pipe, o.run)
  BY DEF Owns, GoesOn
<1>2. o.pipe \in Pipes
  BY DEF Rest, TypeOK
<1> QED
  BY <1>1, <1>2 DEF SpansInv, OrphansAlone

\* Callbacks that are not called.
LEMMA QuietSpans ==
    ASSUME Rest, SpansInv, NEW c \in Calls, pc[c] # "idle",
           spans' = spans, leaked' = leaked, cut' = cut, orphans' = orphans,
           pc'[c] = "idle" \/ GoesOn(c),
           \A s : HeldBy(c, s) => GoesOn(c) /\ HeldBy(c, s)'
    PROVE  SpanStep(c) /\ OrphanStep(c) /\ SpanTypes'
<1>1. Closes(c, {})
  BY CallsUsePipes DEF Closes, SpansInv, SpanTypes
<1>2. PICK run : run = job[c].run
  OBVIOUS
<1> QED
  BY <1>1, <1>2, ClosingStep, NoOrphans

\* Nobody holds a span but in the pipeline, between its start and its end.
LEMMA NothingHeld ==
    ASSUME StepsAreBracketed, Rest, NEW c \in Calls,
           pc[c] \notin {"run", "fork"} \/ (pc[c] = "run" /\ Op(c) = "end"),
           NEW s
    PROVE  ~HeldBy(c, s)
<1>1. Timed(c) = {}
  BY NothingTimed DEF Rest
<1>2. pc[c] = "run" => ~UnderwayAt(VersionOf(c), conf[c].ip)
  BY CallAt, NothingBegunAtEnd DEF Rest, Op
<1> QED
  BY <1>1, <1>2 DEF HeldBy

\* The spans stay with a call that moves on without an event.
LEMMA HeldThroughout ==
    ASSUME StepsAreBracketed, Rest, NEW c \in Calls, Progress(c),
           Save(c) \/ StageReturns(c) \/ Merge(c) \/ (Advance(c) /\ Op(c) # "emit"),
           NEW s, HeldBy(c, s)
    PROVE  GoesOn(c) /\ HeldBy(c, s)'
<1>0. TypeOK /\ AtFork(c) /\ VersionOf(c)' = VersionOf(c)
  BY CallAlone, TimersOf DEF Rest, VersionOf
<1>1. /\ VersionOf(c) \in Versions /\ conf[c] \in Configurations
      /\ conf'[c] \in After(VersionOf(c), conf[c])
      /\ Op(c) # "emit" /\ pc'[c] = "run" /\ job'[c] = job[c]
      /\ \/ pc[c] = "run"
         \/ pc[c] = "fork" /\ running[c] = {}
  <2>1. CASE Save(c)
    BY <1>0, <2>1, CallAt DEF Save, TypeOK, After, Op, control
  <2>2. CASE StageReturns(c)
    BY <1>0, <2>2, CallAt DEF StageReturns, TypeOK, control
  <2>3. CASE Merge(c)
    BY <1>0, <2>3, CallAt DEF Merge, TypeOK, AtFork, control
  <2>4. CASE Advance(c) /\ Op(c) # "emit"
    BY <1>0, <2>4, CallAt DEF Advance, TypeOK, control
  <2> QED
    BY <2>1, <2>2, <2>3, <2>4
<1>2. /\ Begun(c)' = Begun(c)
      /\ UnderwayAt(VersionOf(c), conf[c].ip) =>
             UnderwayAt(VersionOf(c)', conf'[c].ip)
  BY <1>0, <1>1, AfterEvents DEF Op, Begun
<1> QED
  BY <1>1, <1>2 DEF HeldBy, Timed, GoesOn

LEMMA StartsSpans ==
    ASSUME Rest, SpansInv, NEW c \in Calls, Starts(c)
    PROVE  SpanStep(c) /\ OrphanStep(c) /\ SpanTypes'
<1> DEFINE p == PipeOf[c]
<1>1. /\ Request(c) /\ pc[c] = "idle" /\ orphans' = orphans
      /\ spans' = spans /\ leaked' = leaked
  BY BeginsAtEntry
     DEF Starts, Rest, Request, Invoke, Resume, Replay, Begin
<1>2. p \in Pipes /\ TypeOK
  BY CallsUsePipes DEF Rest
<1>3. job'[c].run \in Runs
  BY <1>1, <1>2, RequestType, BeginsAtEntry DEF TypeOK, Jobs
<1>4. /\ \A q \in Pipes \ {p} : cut'[q] = cut[q]
      /\ cut[p] \subseteq cut'[p] /\ cut' \in [Pipes -> SUBSET Runs]
      /\ Orphaned(p, job'[c].run) => job'[c].run \in cut'[p]
  BY <1>2, <1>3 DEF Starts, SpansInv, SpanTypes
<1>5. OrphanStep(c)
  BY <1>1, <1>4 DEF OrphanStep, Owns, Orphaned
<1>6. SpanStep(c)
  BY <1>1, <1>4 DEF SpanStep, Owns
<1> QED
  BY <1>1, <1>4, <1>5, <1>6 DEF SpansInv, SpanTypes

\* EMIT.
LEMMA EmitsSpans ==
    ASSUME StepsAreBracketed, Rest, SpansInv,
           NEW c \in Calls, Advance(c), Emits(c), Op(c) = "emit"
    PROVE  SpanStep(c) /\ OrphanStep(c) /\ SpanTypes'
<1> DEFINE v == VersionOf(c)
           ip == conf[c].ip
           i == Code[v][ip]
           run == job[c].run
<1>0. TypeOK /\ TimersInv
  BY DEF Rest
<1>1. /\ v \in Versions /\ conf[c] \in Configurations /\ ip \in Ips
      /\ i = Instr(c) /\ pc[c] = "run"
  BY <1>0, CallAt DEF Advance, Instr, InstrAt
<1>2. /\ ip \in DOMAIN Code[v]
      /\ \A event : IsEvent(v, ip, event) <=> i.event = event
  <2>1. OpAt(v, conf[c]) = "emit" /\ InstrAt(v, conf[c]) = i
    BY <1>1 DEF Op, Instr
  <2> HIDE DEF v, ip, i
  <2>2. ip \in DOMAIN Code[v]
    BY <1>1, <2>1, OpIs DEF ip
  <2>3. ASSUME NEW event
        PROVE  IsEvent(v, ip, event) <=> i.event = event
    BY <1>1, <2>1, EventIs DEF ip
  <2> QED
    BY <2>2, <2>3
<1>3. /\ conf'[c].ip = ip + 1 /\ pc'[c] = "run" /\ VersionOf(c)' = v
      /\ orphans' = orphans /\ GoesOn(c)
  BY <1>0, <1>1 DEF Advance, After, Op, Skip, TypeOK, control, VersionOf,
                    Configurations, GoesOn
<1>4. ASSUME NEW s
      PROVE  /\ HeldBy(c, s) <=> \/ s = Root /\ UnderwayAt(v, ip)
                                 \/ s \in BegunAt(v, ip)
             /\ HeldBy(c, s)' <=> \/ s = Root /\ UnderwayAt(v, ip + 1)
                                  \/ s \in BegunAt(v, ip + 1)
  BY <1>1, <1>3 DEF HeldBy, Timed, Begun
<1>5. /\ i.event = "step_start" => i.node \in Nodes /\ BegunAt(v, ip) = {}
      /\ i.event = "pipeline_start" => ~UnderwayAt(v, ip) /\ BegunAt(v, ip) = {}
      /\ BegunAt(v, ip) \subseteq Nodes
  <2>1. BegunAt(v, ip) \subseteq Nodes
    BY DEF BegunAt
  <2>2. i.event = "step_start" => i.node \in Nodes /\ BegunAt(v, ip) = {}
    BY <1>1, <1>2 DEF StepsAreBracketed
  <2>3. i.event = "pipeline_start" => ~UnderwayAt(v, ip) /\ BegunAt(v, ip) = {}
    BY <1>1, <1>2 DEF StepsAreBracketed
  <2> QED
    BY <2>1, <2>2, <2>3
<1>6. cut' = cut
  BY DEF Emits
<1>7. OrphanStep(c)
  BY <1>1, <1>3, <1>6, NoOrphans
<1>8. /\ i.event # "pipeline_start" /\ i.event # "pipeline_end" =>
            (UnderwayAt(v, ip + 1) <=> UnderwayAt(v, ip))
      /\ i.event = "pipeline_start" => UnderwayAt(v, ip + 1)
      /\ i.event # "step_start" /\ i.event # "step_end" =>
            BegunAt(v, ip + 1) = BegunAt(v, ip)
      /\ i.event = "step_start" => BegunAt(v, ip + 1) = BegunAt(v, ip) \cup {i.node}
      /\ i.event = "step_end" => BegunAt(v, ip + 1) = BegunAt(v, ip) \ {i.node}
  BY <1>1, <1>2, <1>5, BegunNext, UnderwayNext
<1> HIDE DEF v, ip, i
<1>9. CASE i.event = "pipeline_start"
  <2>1. Opens(c, {<<run, Root>>})
    BY <1>1, <1>9 DEF Emits, OnPipelineStart
  <2>2. \A s \in {Root} : ~HeldBy(c, s) /\ HeldBy(c, s)'
    BY <1>4, <1>5, <1>8, <1>9
  <2>3. \A s : HeldBy(c, s) => HeldBy(c, s)'
    BY <1>4, <1>8, <1>9
  <2>4. /\ {<<run, Root>>} \subseteq {<<run, s>> : s \in {Root}}
        /\ {Root} \in SUBSET (Nodes \cup {Root})
    OBVIOUS
  <2> QED
    BY <1>1, <1>3, <1>6, <1>7, <2>1, <2>2, <2>3, <2>4, OpeningStep
<1>10. CASE i.event = "pipeline_end"
  <2>1. Closes(c, {Root})
    BY <1>1, <1>10 DEF Emits, OnPipelineEnd
  <2>2. PICK r : r = job[c].run
    OBVIOUS
  <2>3. \A s : HeldBy(c, s) => \/ s \in {Root}
                               \/ GoesOn(c) /\ HeldBy(c, s)'
                               \/ HeldByOrphan(PipeOf[c], r, s)'
    BY <1>3, <1>4, <1>8, <1>10
  <2> HIDE DEF run
  <2>4. SpanStep(c) /\ SpanTypes'
    BY <1>1, <1>6, <2>1, <2>2, <2>3, ClosingStep
  <2> QED
    BY <1>7, <2>4
<1>11. CASE i.event = "step_start"
  <2> DEFINE keys == Parented(Spans(c), run, {i.node})
  <2>1. Opens(c, keys)
    BY <1>1, <1>11 DEF Emits, OnStepStart
  <2>2. \A s \in {i.node} : ~HeldBy(c, s) /\ HeldBy(c, s)'
    BY <1>4, <1>5, <1>8, <1>11, RootIsNoStep
  <2>3. \A s : HeldBy(c, s) => HeldBy(c, s)'
    BY <1>4, <1>8, <1>11
  <2>4. keys \subseteq {<<run, s>> : s \in {i.node}}
    BY DEF Parented
  <2>5. {i.node} \in SUBSET (Nodes \cup {Root})
    BY <1>5, <1>11
  <2> QED
    BY <1>1, <1>3, <1>6, <1>7, <2>1, <2>2, <2>3, <2>4, <2>5, OpeningStep
<1>12. CASE i.event = "step_end"
  <2>1. Closes(c, {i.node})
    BY <1>1, <1>12 DEF Emits, OnStepEnd
  <2>2. PICK r : r = job[c].run
    OBVIOUS
  <2>3. \A s : HeldBy(c, s) => \/ s \in {i.node}
                               \/ GoesOn(c) /\ HeldBy(c, s)'
                               \/ HeldByOrphan(PipeOf[c], r, s)'
    BY <1>3, <1>4, <1>8, <1>12
  <2> HIDE DEF run
  <2>4. SpanStep(c) /\ SpanTypes'
    BY <1>1, <1>6, <2>1, <2>2, <2>3, ClosingStep
  <2> QED
    BY <1>7, <2>4
<1>13. CASE i.event \notin {"pipeline_start", "pipeline_end",
                            "step_start", "step_end"}
  <2>1. spans' = spans /\ leaked' = leaked
    BY <1>1, <1>13 DEF Emits
  <2>2. \A s : HeldBy(c, s) => HeldBy(c, s)'
    BY <1>4, <1>8, <1>13
  <2> QED
    BY <1>1, <1>3, <1>6, <2>1, <2>2, QuietSpans
<1> QED
  BY <1>9, <1>10, <1>11, <1>12, <1>13

\* FORK.
LEMMA BranchesSpans ==
    ASSUME StepsAreBracketed, Rest, SpansInv, NEW c \in Calls,
           StartBranches(c), BranchSpansOpen(c)
    PROVE  SpanStep(c) /\ OrphanStep(c) /\ SpanTypes'
<1> DEFINE steps == BranchSet(c)
           keys == Parented(Spans(c), job[c].run, steps)
<1>0. TypeOK /\ TimersInv /\ pc[c] = "run" /\ Op(c) = "fork"
  BY DEF Rest, StartBranches
<1>1. /\ VersionOf(c) \in Versions /\ conf[c] \in Configurations
      /\ conf[c].ip \in DOMAIN Code[VersionOf(c)]
      /\ Instr(c) = Code[VersionOf(c)][conf[c].ip] /\ Instr(c).op = "fork"
  BY <1>0, CallAt, OpIs DEF Op, Instr, InstrAt
<1>2. steps \subseteq Nodes
  BY <1>1, CodeTyped DEF BranchSet
<1>3. /\ pc'[c] = "fork" /\ conf' = conf /\ running'[c] = steps
      /\ VersionOf(c)' = VersionOf(c) /\ orphans' = orphans /\ GoesOn(c)
  BY <1>0 DEF StartBranches, TypeOK, VersionOf, GoesOn
<1>4. Opens(c, keys) /\ cut' = cut
  BY DEF BranchSpansOpen, OnStepStart
<1>5. Timed(c) = {}
  BY <1>0, NothingTimed
<1>6. \A s \in steps : ~HeldBy(c, s) /\ HeldBy(c, s)'
  BY <1>0, <1>2, <1>3, <1>5, RootIsNoStep DEF HeldBy
<1>7. \A s : HeldBy(c, s) => HeldBy(c, s)'
  BY <1>0, <1>3, <1>5 DEF HeldBy
<1>8. keys \subseteq {<<job[c].run, s>> : s \in steps}
  BY DEF Parented
<1>9. OrphanStep(c)
  BY <1>0, <1>3, <1>4, NoOrphans
<1> HIDE DEF keys, steps
<1> QED
  BY <1>0, <1>2, <1>3, <1>4, <1>6, <1>7, <1>8, <1>9, OpeningStep

LEMMA BranchEndSpans ==
    ASSUME StepsAreBracketed, Rest, SpansInv, NEW c \in Calls, NEW b \in Nodes,
           BranchEnds(c, b), BranchSpanCloses(c, b)
    PROVE  SpanStep(c) /\ OrphanStep(c) /\ SpanTypes'
<1>0. TypeOK /\ pc[c] = "fork"
  BY DEF Rest, BranchEnds
<1>1. /\ pc' = pc /\ conf' = conf /\ running'[c] = running[c] \ {b}
      /\ VersionOf(c)' = VersionOf(c) /\ orphans' = orphans /\ GoesOn(c)
  BY <1>0 DEF BranchEnds, TypeOK, VersionOf, GoesOn
<1>2. Closes(c, {b}) /\ cut' = cut
  BY DEF BranchSpanCloses, OnStepEnd
<1>3. \A s : HeldBy(c, s) => s \in {b} \/ HeldBy(c, s)'
  BY <1>0, <1>1 DEF HeldBy, Timed
<1>4. OrphanStep(c)
  BY <1>0, <1>1, <1>2, NoOrphans
<1>5. PICK run : run = job[c].run
  OBVIOUS
<1> QED
  BY <1>0, <1>1, <1>2, <1>3, <1>4, <1>5, ClosingStep

\* on_error closes all that a call holds, but for what it leaves to branches.
LEMMA ErrorSpans ==
    ASSUME Rest, SpansInv, NEW c \in Calls, pc[c] # "idle",
           NEW branches, OnError(c, branches),
           NEW run, run = job[c].run,
           \A s : pc[c] = "fork" /\ s \in running[c] =>
                      s \in branches \/ HeldByOrphan(PipeOf[c], run, s)'
    PROVE  SpanStep(c) /\ SpanTypes'
<1> DEFINE steps == ErrorCloses(c) \cup branches
<1>1. Closes(c, steps) /\ cut' = cut
  BY DEF OnError
<1>2. Root \in steps /\ Timed(c) \subseteq steps
  BY TimersOf DEF ErrorCloses, ClosedByError, Rest
<1>3. branches \subseteq steps
  OBVIOUS
<1>4. \A s : HeldBy(c, s) => s \in steps \/ HeldByOrphan(PipeOf[c], run, s)'
  BY <1>2, <1>3 DEF HeldBy
<1> HIDE DEF steps
<1> QED
  BY <1>1, <1>4, ClosingStep

LEMMA ProgressSpans ==
    ASSUME StepsAreBracketed, Rest, SpansInv, NEW c \in Calls,
           ObservedProgress(c)
    PROVE  SpanStep(c) /\ OrphanStep(c) /\ SpanTypes'
<1>0. TypeOK /\ Progress(c)
  BY DEF Rest, ObservedProgress, Progress
<1>1. CASE /\ Reset(c) \/ Load(c) \/ LoadFails(c) \/ ReplayLoad(c)
              \/ ReplayFails(c) \/ Rewrite(c) \/ Finish(c)
           /\ Quiet
  <2>1. /\ pc[c] # "idle" /\ orphans' = orphans
        /\ pc'[c] = "idle" \/ GoesOn(c)
        /\ pc[c] \notin {"run", "fork"} \/ (pc[c] = "run" /\ Op(c) = "end")
    BY <1>0, <1>1 DEF Reset, Load, LoadFails, ReplayLoad, ReplayFails, Rewrite,
                      Finish, Fail, End, control, GoesOn, TypeOK
  <2>2. \A s : ~HeldBy(c, s)
    BY <2>1, NothingHeld
  <2> QED
    BY <1>1, <2>1, <2>2, QuietSpans DEF Quiet, observers
<1>2. CASE /\ Save(c) \/ StageReturns(c) \/ Merge(c)
                      \/ (Advance(c) /\ Op(c) # "emit")
           /\ spans' = spans /\ leaked' = leaked /\ cut' = cut
  <2>1. pc[c] # "idle" /\ orphans' = orphans /\ GoesOn(c)
    BY <1>0, <1>2 DEF Save, StageReturns, Merge, Advance, control, GoesOn, TypeOK
  <2>2. \A s : HeldBy(c, s) => GoesOn(c) /\ HeldBy(c, s)'
    BY <1>0, <1>2, HeldThroughout
  <2> QED
    BY <1>2, <2>1, <2>2, QuietSpans
<1>3. CASE Advance(c) /\ Emits(c)
  BY <1>2, <1>3, EmitsSpans DEF Emits
<1>4. CASE RouteFails(c) /\ OnError(c, {})
  <2>1. /\ pc[c] = "run" /\ pc'[c] = "idle" /\ orphans' = orphans /\ cut' = cut
    BY <1>0, <1>4 DEF RouteFails, OnError, Fail, End, TypeOK
  <2>2. PICK run : run = job[c].run
    OBVIOUS
  <2>3. SpanStep(c) /\ SpanTypes'
    BY <1>4, <2>1, <2>2, ErrorSpans
  <2> QED
    BY <2>1, <2>3, NoOrphans
<1>5. CASE StartBranches(c) /\ BranchSpansOpen(c)
  BY <1>5, BranchesSpans
<1>6. CASE \E b \in Nodes : BranchEnds(c, b) /\ BranchSpanCloses(c, b)
  BY <1>6, BranchEndSpans
<1>7. Quiet => spans' = spans /\ leaked' = leaked /\ cut' = cut
  BY DEF Quiet, observers
<1> QED
  BY <1>1, <1>2, <1>3, <1>4, <1>5, <1>6, <1>7 DEF ObservedProgress

LEMMA FaultSpans ==
    ASSUME StepsAreBracketed, Rest, SpansInv, NEW c \in Calls,
           ObservedFault(c)
    PROVE  SpanStep(c) /\ OrphanStep(c) /\ SpanTypes'
<1> DEFINE p == PipeOf[c]
<1>0. /\ TypeOK /\ p \in Pipes /\ pc[c] # "idle" /\ pc'[c] = "idle"
      /\ job[c].run \in Runs
  BY CallsUsePipes
     DEF Rest, ObservedFault, StageFails, BranchFails, MergeFails, StoreFails,
         Cancel, Fail, End, AtStore, TypeOK, Jobs
<1>1. PICK run : run = job[c].run
  OBVIOUS
<1>2. CASE \/ (StageFails(c) \/ MergeFails(c)) /\ OnError(c, {})
           \/ StoreFails(c) /\ pc[c] = "run" /\ OnError(c, {})
  <2>1. /\ pc[c] = "fork" => running[c] = {}
        /\ orphans' = orphans /\ cut' = cut /\ OnError(c, {})
    BY <1>2 DEF StageFails, MergeFails, StoreFails, OnError
  <2>2. SpanStep(c) /\ SpanTypes'
    BY <1>0, <1>1, <2>1, ErrorSpans
  <2> QED
    BY <1>0, <2>1, <2>2, NoOrphans
<1>3. ASSUME NEW b \in Nodes, BranchFails(c, b), OnError(c, {b})
      PROVE  SpanStep(c) /\ OrphanStep(c) /\ SpanTypes'
  <2>1. /\ orphans' = orphans \cup LeftBehind(c, b)
        /\ \A o \in LeftBehind(c, b) : Owns(c, o.pipe, o.run)
    BY <1>0, <1>3 DEF BranchFails, LeftBehind, Owns
  <2>2. \A s \in running[c] \ {b} :
            [pipe |-> p, run |-> run, node |-> s] \in orphans'
    BY <1>1, <2>1 DEF LeftBehind
  <2>3. ASSUME NEW s \in running[c] \ {b}
        PROVE  HeldByOrphan(p, run, s)'
    <3>1. PICK o : o = [pipe |-> p, run |-> run, node |-> s]
      OBVIOUS
    <3>2. o \in orphans' /\ o.pipe = p /\ o.run = run /\ o.node = s
      BY <2>2, <3>1
    <3> QED
      BY <3>2 DEF HeldByOrphan
  <2>4. SpanStep(c) /\ SpanTypes'
    BY <1>0, <1>1, <1>3, <2>3, ErrorSpans
  <2>5. OrphanStep(c)
    BY <1>0, <2>1 DEF OrphanStep, Owns
  <2> QED
    BY <2>4, <2>5
<1>4. CASE StoreFails(c) /\ Quiet /\ ~(pc[c] = "run" /\ Op(c) = "checkpoint")
  <2>1. pc[c] \notin {"run", "fork"} \/ (pc[c] = "run" /\ Op(c) = "end")
    BY <1>4 DEF StoreFails, AtStore
  <2>2. /\ \A s : ~HeldBy(c, s)
        /\ orphans' = orphans
    BY <1>4, <2>1, NothingHeld DEF StoreFails
  <2> QED
    BY <1>0, <1>4, <2>2, QuietSpans DEF Quiet, observers
<1>5. CASE Cancel(c) /\ CancelCloses(c) /\ ~InProgress(c)
  <2>1. Closes(c, running[c]) /\ cut' = cut /\ orphans' = orphans
    BY <1>5 DEF CancelCloses, Cancel
  <2>2. \A s : ~HeldBy(c, s)
    BY <1>5, NothingHeld DEF InProgress
  <2>3. SpanStep(c) /\ SpanTypes'
    BY <1>0, <1>1, <2>1, <2>2, ClosingStep
  <2> QED
    BY <1>0, <2>1, <2>3, NoOrphans
<1>6. CASE Cancel(c) /\ CancelCloses(c) /\ InProgress(c)
  <2>1. /\ cut' = [cut EXCEPT ![p] = @ \cup {run}]
        /\ Closes(c, running[c]) /\ orphans' = orphans
    BY <1>1, <1>6 DEF CancelCloses, Cancel
  <2>2. /\ spans' \in [Pipes -> SUBSET SpanKeys] /\ spans'[p] \subseteq spans[p]
        /\ \A q \in Pipes \ {p} : spans'[q] = spans[q]
        /\ leaked' = leaked
    BY <1>0, <2>1 DEF Closes, SpansInv, SpanTypes
  <2>3. /\ run \in cut'[p] /\ cut[p] \subseteq cut'[p]
        /\ \A q \in Pipes \ {p} : cut'[q] = cut[q]
        /\ cut' \in [Pipes -> SUBSET Runs]
    BY <1>0, <1>1, <2>1 DEF SpansInv, SpanTypes
  <2>4. SpanTypes'
    BY <2>2, <2>3 DEF SpansInv, SpanTypes
  <2>5. SpanStep(c)
    BY <1>1, <2>2, <2>3 DEF SpanStep, Owns
  <2>6. OrphanStep(c)
    BY <1>0, <2>1 DEF OrphanStep, Owns
  <2> QED
    BY <2>4, <2>5, <2>6
<1> QED
  BY <1>2, <1>3, <1>4, <1>5, <1>6 DEF ObservedFault

LEMMA SpansStep ==
    ASSUME StepsAreBracketed, Rest, SpansInv, [ObservedNext]_observedVars
    PROVE  SpansInv'
<1>0. TypeOK /\ SpanTypes
  BY DEF Rest, SpansInv
<1>1. ASSUME NEW c \in Calls,
             Starts(c) \/ ObservedProgress(c) \/ ObservedFault(c)
      PROVE  SpansInv'
  <2>1. Request(c) \/ Progress(c) \/ Fault(c)
    BY <1>1 DEF Starts, ObservedProgress, ObservedFault, Progress, Fault
  <2>2. SpanStep(c) /\ OrphanStep(c) /\ SpanTypes'
    BY <1>1, StartsSpans, ProgressSpans, FaultSpans
  <2> QED
    BY <2>1, <2>2, SpanStepKeeps
<1>2. ASSUME NEW o \in orphans \ orphans', OrphanEnds, OrphanSpanCloses(o)
      PROVE  SpansInv'
  <2>1. /\ orphans' = orphans \ {o} /\ version' = version /\ pc' = pc
        /\ job' = job /\ conf' = conf /\ running' = running
        /\ cut' = cut /\ leaked' = leaked /\ o.pipe \in Pipes
    BY <1>0, <1>2 DEF OrphanEnds, OrphanSpanCloses, TypeOK
  <2>2. /\ spans'[o.pipe] = spans[o.pipe] \ {<<o.run, o.node>>}
        /\ \A p \in Pipes \ {o.pipe} : spans'[p] = spans[p]
        /\ SpanTypes'
    BY <1>0, <1>2, <2>1 DEF OrphanSpanCloses, SpanTypes
  <2>3. \A c \in Calls : /\ \A s : HeldBy(c, s)' <=> HeldBy(c, s)
                         /\ \A p, r : Owns(c, p, r)' <=> Owns(c, p, r)
    BY <2>1 DEF HeldBy, Owns, Timed, Begun, VersionOf
  <2>4. ASSUME NEW p \in Pipes, NEW key \in spans'[p], key[1] \notin cut[p]
        PROVE  \/ \E c \in Calls : Owns(c, p, key[1])' /\ HeldBy(c, key[2])'
               \/ HeldByOrphan(p, key[1], key[2])'
    <3>1. key \in spans[p] /\ key = <<key[1], key[2]>>
      BY <1>0, <2>2, <2>4 DEF SpanTypes, SpanKeys
    <3>2. CASE \E c \in Calls : Owns(c, p, key[1]) /\ HeldBy(c, key[2])
      BY <2>3, <3>2
    <3>3. ASSUME NEW q \in orphans, q.pipe = p, q.run = key[1], q.node = key[2]
          PROVE  HeldByOrphan(p, key[1], key[2])'
      <4>1. q # o
        BY <2>2, <2>4, <3>1, <3>3
      <4> QED
        BY <2>1, <3>3, <4>1 DEF HeldByOrphan
    <3> QED
      BY <2>4, <3>1, <3>2, <3>3 DEF SpansInv, OpenIsHeld, HeldByOrphan
  <2>5. \A p \in Pipes : OpenIsHeld(p)' /\ OrphansAlone(p)' /\ LeakedIsCut(p)'
    BY <2>1, <2>3, <2>4 DEF OpenIsHeld, OrphansAlone, LeakedIsCut, SpansInv
  <2> QED
    BY <2>2, <2>5 DEF SpansInv
<1>3. ASSUME NEW p \in Pipes, NEW v \in Versions, Crash(p, v), SpansDie(p)
      PROVE  SpansInv'
  <2>1. /\ spans'[p] = {} /\ leaked'[p] = {}
        /\ \A q \in Pipes \ {p} : /\ spans'[q] = spans[q]
                                  /\ leaked'[q] = leaked[q] /\ cut'[q] = cut[q]
        /\ SpanTypes'
    BY <1>0, <1>3 DEF SpansDie, SpanTypes
  <2>2. ASSUME NEW c \in Calls
        PROVE  IF PipeOf[c] = p THEN pc'[c] = "idle"
               ELSE /\ \A s : HeldBy(c, s)' <=> HeldBy(c, s)
                    /\ \A q, r : Owns(c, q, r)' <=> Owns(c, q, r)
    <3>1. CASE PipeOf[c] = p
      BY <1>3, <3>1 DEF Crash
    <3>2. CASE PipeOf[c] # p
      <4>1. /\ pc'[c] = pc[c] /\ conf'[c] = conf[c] /\ job'[c] = job[c]
            /\ running'[c] = running[c] /\ VersionOf(c)' = VersionOf(c)
        BY <1>0, <1>3, <3>2, CallsUsePipes DEF Crash, VersionOf, TypeOK
      <4> QED
        BY <3>2, <4>1 DEF HeldBy, Owns, Timed, Begun
    <3> QED
      BY <3>1, <3>2
  <2>3. \A c \in Calls : \A r : ~Owns(c, p, r)'
    BY <2>2 DEF Owns
  <2>4. \A o : o \in orphans' <=> o \in orphans /\ o.pipe # p
    BY <1>3 DEF Crash
  <2>5. ASSUME NEW q \in Pipes, q # p
        PROVE  OpenIsHeld(q)' /\ OrphansAlone(q)' /\ LeakedIsCut(q)'
    <3>1. \A c \in Calls : \A r :
              /\ Owns(c, q, r)' <=> Owns(c, q, r)
              /\ Owns(c, q, r) => \A s : HeldBy(c, s)' <=> HeldBy(c, s)
      BY <2>2, <2>5 DEF Owns
    <3>2. \A r, s : HeldByOrphan(q, r, s)' <=> HeldByOrphan(q, r, s)
      BY <2>4, <2>5 DEF HeldByOrphan
    <3>3. OpenIsHeld(q)'
      BY <2>1, <2>5, <3>1, <3>2 DEF OpenIsHeld, SpansInv
    <3>4. OrphansAlone(q)' /\ LeakedIsCut(q)'
      BY <2>1, <2>4, <2>5, <3>1 DEF OrphansAlone, LeakedIsCut, SpansInv
    <3> QED
      BY <3>3, <3>4
  <2>6. OpenIsHeld(p)' /\ OrphansAlone(p)' /\ LeakedIsCut(p)'
    BY <2>1, <2>4 DEF OpenIsHeld, OrphansAlone, LeakedIsCut
  <2> QED
    BY <2>1, <2>5, <2>6 DEF SpansInv
<1>4. CASE (\E r \in Runs : Expire(r) /\ Quiet) \/ UNCHANGED observedVars
  <2>1. /\ version' = version /\ pc' = pc /\ job' = job /\ conf' = conf
        /\ running' = running /\ orphans' = orphans /\ observers' = observers
    BY <1>4 DEF Expire, Quiet, control, observedVars, vars, observers
  <2> QED
    BY <2>1 DEF SpansInv, SpanTypes, OpenIsHeld, OrphansAlone, LeakedIsCut,
                HeldByOrphan, HeldBy, Owns, Timed, Begun, VersionOf, observers
<1> QED
  BY <1>1, <1>2, <1>3, <1>4 DEF ObservedNext, ObservedOutage

(***************************************************************************)
(* langfuse.py, "Spans are always closed", with durable pipelines and code *)
(* whose events are brackets: wherever calls of a run failed, were resumed *)
(* or left branches behind, once nobody works on the run none of its spans *)
(* is open or was replaced unended; but for runs in which a call was       *)
(* cancelled, or begun while branches of an older one went on.             *)
(***************************************************************************)
THEOREM SpansAreClosed ==
    ASSUME StepsAreBracketed
    PROVE  ObservedSpec => []SpansClosed
<1>1. CASE AllAreDurable
  <2>1. ObservedInit => SpansInv
    BY DEF ObservedInit, Init, SpansInv, SpanTypes, OpenIsHeld, OrphansAlone,
           LeakedIsCut
  <2>2. Rest /\ SpansInv /\ [ObservedNext]_observedVars => SpansInv'
    BY SpansStep
  <2>3. SpansInv => SpansClosed
    BY DEF SpansInv, SpansClosed, OpenIsHeld, LeakedIsCut, Working, Orphaned,
           Owns, HeldByOrphan
  <2>4. Spec => [](TypeOK /\ SingleFlight /\ ParkedInv)
    BY <1>1, TypeCorrect, LockCorrect, ParkedCorrect, PTL
  <2>5. TypeOK /\ SingleFlight /\ ParkedInv /\ TimersInv => Rest
    BY DEF Rest
  <2> QED
    BY <2>1, <2>2, <2>3, <2>4, <2>5, TimersCorrect, ObservedIsDurable, PTL
       DEF ObservedSpec
<1>2. CASE ~AllAreDurable
  <2>1. SpansClosed
    BY <1>2 DEF SpansClosed, AllAreDurable
  <2> QED
    BY <2>1, PTL
<1> QED
  BY <1>1, <1>2
=============================================================================
