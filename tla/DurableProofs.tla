---------------------------- MODULE DurableProofs ----------------------------
(***************************************************************************)
(* The safety of durable execution for every number of pipelines, callers, *)
(* runs and code versions: its locks and its data, its contract, and what  *)
(* is stored for a run against what its call has computed.                 *)
(***************************************************************************)
EXTENDS DurableProps, SequenceTheorems, TLAPS

-----------------------------------------------------------------------------
(* Types.                                                                  *)

Stores == [Runs -> Checkpoints \cup {Nothing}]
Orphans == SUBSET [pipe : Pipes, run : Runs, node : Nodes]

\* The interpreter goes from configurations to configurations.
LEMMA AfterType ==
    ASSUME NEW v \in Versions, NEW k \in Configurations
    PROVE  After(v, k) \subseteq Configurations
<1> DEFINE i == InstrAt(v, k)
<1> USE DEF Configurations, Ips
<1>1. ASSUME OpAt(v, k) # "end"
      PROVE  k.ip \in DOMAIN Code[v] /\ i.op = OpAt(v, k)
  BY <1>1, CodeTyped DEF OpAt, InstrAt
<1>2. Skip(k) \in Configurations
  BY DEF Skip
<1>3. ASSUME OpAt(v, k) = "call"
      PROVE  AfterCall(i, k) \subseteq Configurations
  <2>1. i.node \in Nodes /\ Outcomes[i.node] \subseteq Routes \cup {NoRoute}
    BY <1>1, <1>3, CodeTyped DEF InstrAt
  <2>2. Append(k.trail, {i.node}) \in Trails
    BY <2>1 DEF Trails
  <2>3. k.ip + 1 \in Ips
    OBVIOUS
  <2>4. SUFFICES ASSUME NEW route \in Outcomes[i.node]
                 PROVE  [ip |-> k.ip + 1, trail |-> Append(k.trail, {i.node}),
                         pending |-> IF route = NoRoute THEN k.pending ELSE route]
                            \in Configurations
    BY DEF AfterCall
  <2> QED
    BY <2>1, <2>2, <2>3
<1>4. ASSUME OpAt(v, k) = "route"
      PROVE  AfterRoute(i, k) \subseteq Configurations
  <2>1. \A r \in DOMAIN i.targets : i.targets[r] \in Ips
    BY <1>1, <1>4, CodeTyped DEF InstrAt
  <2> QED
    BY <2>1 DEF AfterRoute
<1>5. ASSUME OpAt(v, k) = "jump"
      PROVE  [k EXCEPT !.ip = i.target] \in Configurations
  BY <1>1, <1>5, CodeTyped DEF InstrAt
<1>6. ASSUME OpAt(v, k) = "fork"
      PROVE  AfterFork(v, i, k) \subseteq Configurations
  <2> DEFINE joined == {i.branches[b] : b \in DOMAIN i.branches}
  <2>1. joined \subseteq Nodes
    BY <1>1, <1>6, CodeTyped DEF InstrAt
  <2>2. Append(k.trail, joined) \in Trails
    BY <2>1 DEF Trails
  <2>3. [ip |-> k.ip + 2, pending |-> k.pending,
         trail |-> Append(k.trail, joined)] \in Configurations
    BY <2>2
  <2> QED
    BY <1>2, <2>3 DEF AfterFork
<1> QED
  BY <1>2, <1>3, <1>4, <1>5, <1>6 DEF After

\* What a call leaves in the store is a store.
LEMMA EffectType ==
    ASSUME TypeOK, NEW c \in Calls,
           AtStore(c) \/ (pc[c] = "run" /\ Op(c) = "end")
    PROVE  Effect(c) \in Stores
<1>1. job[c].run \in Runs
  BY DEF TypeOK, AtStore, Jobs
<1>2. VersionOf(c) \in Versions
  BY CallsUsePipes DEF TypeOK, VersionOf
<1>3. ASSUME pc[c] \in {"rewrite", "run"}
      PROVE  Record(c) \in Checkpoints
  BY <1>2, <1>3 DEF TypeOK, Record, Configurations, Checkpoints
<1> QED
  BY <1>1, <1>3 DEF TypeOK, Effect, Stores

\* A call that ends, however it does, leaves well-typed state.
LEMMA EndType ==
    ASSUME TypeOK, NEW c \in Calls, pc[c] # "idle", End(c),
           store' \in Stores, orphans' \in Orphans
    PROVE  TypeOK'
<1>1. active' \in [Pipes -> SUBSET Runs]
  BY DEF TypeOK, End, Released
<1>2. pc' \in [Calls -> Phases]
  BY DEF TypeOK, End, Phases
<1> QED
  BY <1>1, <1>2 DEF TypeOK, End, Stores, Orphans

\* Entering a call.
LEMMA BeginType ==
    ASSUME TypeOK, NEW c \in Calls, NEW r \in Runs, NEW durable \in BOOLEAN,
           NEW step \in FromSteps \cup {NoStep}, NEW phase \in Phases,
           Begin(c, r, durable, step, phase)
    PROVE  /\ version' = version /\ store' = store
           /\ running' = running /\ orphans' = orphans
           /\ active' \in [Pipes -> SUBSET Runs]
           /\ pc' = [pc EXCEPT ![c] = phase] /\ pc' \in [Calls -> Phases]
           /\ job' \in [Calls -> Jobs \cup {Nothing}]
           /\ job'[c] \in Jobs /\ job'[c].durable = durable
           /\ \A d \in Calls \ {c} : job'[d] = job[d]
  BY CallsUsePipes DEF TypeOK, Begin, Acquire, Jobs

LEMMA RequestType ==
    ASSUME TypeOK, NEW c \in Calls, Request(c)
    PROVE  TypeOK'
<1> PICK r \in Runs :
        \/ \E input \in Inputs : Invoke(c, r, input)
        \/ Resume(c, r)
        \/ \E step \in FromSteps \cup {NoStep} : Replay(c, r, step)
  BY DEF Request
<1>0. VersionOf(c) \in Versions /\ IsDurable[PipeOf[c]] \in BOOLEAN
  BY CallsUsePipes, DurableFlags DEF TypeOK, VersionOf
<1>1. ASSUME NEW input \in Inputs, Invoke(c, r, input) PROVE TypeOK'
  <2> DEFINE d == IsDurable[PipeOf[c]]
  <2> DEFINE phase == IF d THEN "reset" ELSE "run"
  <2>1. Begin(c, r, d, NoStep, phase) /\ phase \in Phases
    BY <1>1 DEF Invoke, Phases
  <2>2. Entry \in Configurations
    BY DEF Entry, Configurations, Ips, Trails
  <2>3. conf' = [conf EXCEPT ![c] = Entry]
        /\ source' = [source EXCEPT ![c] = [input |-> input,
                                            version |-> VersionOf(c)]]
    BY <1>1 DEF Invoke
  <2> HIDE DEF phase, d
  <2>4. d \in BOOLEAN /\ (phase = "reset" <=> d)
    BY <1>0 DEF d, phase
  <2>5. /\ conf' \in [Calls -> Configurations \cup {Nothing}]
        /\ source' \in [Calls -> Sources \cup {Nothing}]
        /\ conf'[c] \in Configurations /\ source'[c] \in Sources
        /\ \A e \in Calls \ {c} : conf'[e] = conf[e] /\ source'[e] = source[e]
    BY <1>0, <2>2, <2>3 DEF TypeOK, Sources
  <2>6. phase \notin {"replay", "rewrite"}
    BY DEF phase
  <2>7. /\ version' = version /\ store' = store
        /\ running' = running /\ orphans' = orphans
        /\ active' \in [Pipes -> SUBSET Runs]
        /\ pc' = [pc EXCEPT ![c] = phase] /\ pc' \in [Calls -> Phases]
        /\ job' \in [Calls -> Jobs \cup {Nothing}]
        /\ job'[c] \in Jobs /\ job'[c].durable = d
        /\ \A e \in Calls \ {c} : job'[e] = job[e]
    BY <2>1, <2>4, BeginType
  <2> QED
    BY <2>4, <2>5, <2>6, <2>7 DEF TypeOK
<1>2. ASSUME Resume(c, r) PROVE TypeOK'
  <2> DEFINE d == IsDurable[PipeOf[c]]
  <2>1. Begin(c, r, d, NoStep, "load") /\ conf' = conf /\ source' = source
    BY <1>2 DEF Resume
  <2> HIDE DEF d
  <2>2. d \in BOOLEAN /\ "load" \in Phases
    BY <1>0 DEF Phases, d
  <2>3. /\ version' = version /\ store' = store
        /\ running' = running /\ orphans' = orphans
        /\ active' \in [Pipes -> SUBSET Runs]
        /\ pc' = [pc EXCEPT ![c] = "load"] /\ pc' \in [Calls -> Phases]
        /\ job' \in [Calls -> Jobs \cup {Nothing}]
        /\ job'[c] \in Jobs
        /\ \A e \in Calls \ {c} : job'[e] = job[e]
    BY <2>1, <2>2, BeginType
  <2> QED
    BY <2>1, <2>3 DEF TypeOK
<1>3. ASSUME NEW step \in FromSteps \cup {NoStep}, Replay(c, r, step)
      PROVE  TypeOK'
  <2>1. Begin(c, r, TRUE, step, "replay") /\ conf' = conf /\ source' = source
    BY <1>3 DEF Replay
  <2>2. "replay" \in Phases
    BY DEF Phases
  <2>3. /\ version' = version /\ store' = store
        /\ running' = running /\ orphans' = orphans
        /\ active' \in [Pipes -> SUBSET Runs]
        /\ pc' = [pc EXCEPT ![c] = "replay"] /\ pc' \in [Calls -> Phases]
        /\ job' \in [Calls -> Jobs \cup {Nothing}]
        /\ job'[c] \in Jobs /\ job'[c].durable
        /\ \A e \in Calls \ {c} : job'[e] = job[e]
    BY <2>1, <2>2, BeginType
  <2> QED
    BY <2>1, <2>3 DEF TypeOK
<1> QED
  BY <1>1, <1>2, <1>3

\* A step of a call that leaves its job alone and moves on in a typed way.
LEMMA MoveType ==
    ASSUME TypeOK, NEW c \in Calls, pc[c] # "idle",
           UNCHANGED <<version, active, job, orphans>>,
           store' \in Stores,
           NEW phase \in Phases, pc' = [pc EXCEPT ![c] = phase],
           NEW k \in Configurations \cup {Nothing}, conf' = [conf EXCEPT ![c] = k],
           NEW s \in Sources \cup {Nothing}, source' = [source EXCEPT ![c] = s],
           running' \in [Calls -> SUBSET Nodes],
           phase \in {"reset", "rewrite", "run", "fork"} =>
               k \in Configurations /\ s \in Sources,
           phase \in {"reset", "replay", "rewrite"} => job[c].durable
    PROVE  TypeOK'
BY DEF TypeOK, Stores

LEMMA ProgressType ==
    ASSUME TypeOK, NEW c \in Calls, Progress(c)
    PROVE  TypeOK'
<1> USE DEF Phases
<1>0. /\ VersionOf(c) \in Versions
      /\ store \in Stores /\ orphans \in Orphans
      /\ conf = [conf EXCEPT ![c] = conf[c]]
      /\ source = [source EXCEPT ![c] = source[c]]
      /\ pc = [pc EXCEPT ![c] = pc[c]]
      /\ conf[c] \in Configurations \cup {Nothing}
      /\ source[c] \in Sources \cup {Nothing}
      /\ running \in [Calls -> SUBSET Nodes]
  BY CallsUsePipes DEF TypeOK, VersionOf, Stores, Orphans
<1>1. CASE Reset(c)
  <2>1. Effect(c) \in Stores
    BY <1>1, EffectType DEF Reset, AtStore
  <2>2. /\ conf[c] \in Configurations /\ source[c] \in Sources
        /\ pc[c] # "idle"
    BY <1>1 DEF Reset, TypeOK
  <2>3. /\ UNCHANGED <<version, active, job, orphans>>
        /\ store' = Effect(c) /\ running' = running
        /\ conf' = conf /\ source' = source
        /\ pc' = [pc EXCEPT ![c] = "run"]
    BY <1>1 DEF Reset, control
  <2>4. "run" \in Phases
    OBVIOUS
  <2> HIDE DEF Phases
  <2> QED
    BY <1>0, <2>1, <2>2, <2>3, <2>4, MoveType, ZenonT(60)
<1>2. CASE Load(c)
  <2> DEFINE checkpoint == store[job[c].run]
  <2>1. checkpoint \in Checkpoints
    BY <1>2 DEF Load, Restorable, TypeOK, Jobs
  <2>2. /\ [ip |-> checkpoint.ip, trail |-> checkpoint.trail, pending |-> NoRoute]
              \in Configurations
        /\ checkpoint.source \in Sources
    BY <2>1 DEF Checkpoints, Configurations
  <2> QED
    BY <1>0, <1>2, <2>2, MoveType DEF Load, control
<1>3. CASE ReplayLoad(c)
  <2> DEFINE checkpoint == store[job[c].run]
  <2>1. checkpoint \in Checkpoints
    BY <1>3 DEF ReplayLoad, TypeOK, Jobs
  <2>2. CASE pc' = [pc EXCEPT ![c] = "load"] /\ UNCHANGED <<conf, source>>
    <3>1. /\ UNCHANGED <<version, active, job, orphans>>
          /\ pc[c] # "idle" /\ store' = store /\ running' = running
      BY <1>3 DEF ReplayLoad, control
    <3>2. /\ conf' = [conf EXCEPT ![c] = conf[c]]
          /\ source' = [source EXCEPT ![c] = source[c]]
          /\ "load" \notin {"reset", "rewrite", "run", "fork"}
          /\ "load" \notin {"reset", "replay", "rewrite"}
          /\ "load" \in Phases
      BY <1>0, <2>2
    <3> HIDE DEF Phases
    <3> QED
      BY <1>0, <2>2, <3>1, <3>2, MoveType
  <2>3. ASSUME NEW ip \in StepStarts(VersionOf(c), job[c].step),
               pc' = [pc EXCEPT ![c] = "rewrite"],
               conf' = [conf EXCEPT ![c] = [ip |-> ip,
                                            trail |-> checkpoint.trail,
                                            pending |-> NoRoute]],
               source' = [source EXCEPT ![c] = checkpoint.source]
        PROVE  TypeOK'
    <3>1. ip \in Ips
      BY <1>0, CodeTyped DEF StepStarts, Ips
    <3>2. /\ [ip |-> ip, trail |-> checkpoint.trail, pending |-> NoRoute]
                \in Configurations
          /\ checkpoint.source \in Sources
      BY <2>1, <3>1 DEF Checkpoints, Configurations
    <3>3. job[c].durable /\ pc[c] # "idle"
      BY <1>3 DEF ReplayLoad, TypeOK
    <3>4. /\ UNCHANGED <<version, active, job, orphans>>
          /\ store' = store /\ running' = running
      BY <1>3 DEF ReplayLoad, control
    <3>5. "rewrite" \in Phases
      OBVIOUS
    <3> DEFINE k == [ip |-> ip, trail |-> checkpoint.trail, pending |-> NoRoute]
    <3> DEFINE s == checkpoint.source
    <3>6. /\ k \in Configurations /\ s \in Sources
          /\ pc' = [pc EXCEPT ![c] = "rewrite"]
          /\ conf' = [conf EXCEPT ![c] = k]
          /\ source' = [source EXCEPT ![c] = s]
      BY <2>3, <3>2
    <3> HIDE DEF Phases, k, s
    <3> QED
      BY <1>0, <3>3, <3>4, <3>5, <3>6, MoveType
  <2> QED
    BY <1>3, <2>2, <2>3 DEF ReplayLoad
<1>4. CASE Rewrite(c)
  <2>1. Effect(c) \in Stores
    BY <1>4, EffectType DEF Rewrite, AtStore
  <2> QED
    BY <1>0, <1>4, <2>1, MoveType DEF Rewrite, control
<1>5. CASE Save(c)
  <2>1. Effect(c) \in Stores
    BY <1>5, EffectType DEF Save, AtStore
  <2>2. Skip(conf[c]) \in Configurations /\ source[c] \in Sources
    BY <1>5 DEF Save, Skip, TypeOK, Configurations, Ips
  <2> QED
    BY <1>0, <1>5, <2>1, <2>2, MoveType, ZenonT(60) DEF Save, control
<1>6. CASE Advance(c) \/ StageReturns(c) \/ Merge(c)
  <2>1. PICK k \in After(VersionOf(c), conf[c]) : conf' = [conf EXCEPT ![c] = k]
    BY <1>6 DEF Advance, StageReturns, Merge
  <2>2. conf[c] \in Configurations /\ source[c] \in Sources
    BY <1>6 DEF Advance, StageReturns, Merge, TypeOK
  <2>3. k \in Configurations
    BY <1>0, <2>2, AfterType
  <2>4. /\ UNCHANGED <<version, active, job, orphans>>
        /\ store' = store /\ running' = running /\ source' = source
        /\ pc[c] # "idle" /\ pc' = [pc EXCEPT ![c] = "run"]
    BY <1>0, <1>6 DEF Advance, StageReturns, Merge, control
  <2>5. "run" \in Phases
    OBVIOUS
  <2> HIDE DEF Phases
  <2> QED
    BY <1>0, <2>1, <2>2, <2>3, <2>4, <2>5, MoveType
<1>7. CASE StartBranches(c)
  <2>1. BranchSet(c) \subseteq Nodes
    BY <1>0, <1>7, CodeTyped
       DEF StartBranches, BranchSet, Instr, InstrAt, Op, OpAt, TypeOK,
           Configurations, Ips
  <2>2. running' \in [Calls -> SUBSET Nodes]
    BY <1>0, <1>7, <2>1 DEF StartBranches
  <2>3. conf[c] \in Configurations /\ source[c] \in Sources
    BY <1>7 DEF StartBranches, TypeOK
  <2> QED
    BY <1>0, <1>7, <2>2, <2>3, MoveType DEF StartBranches
<1>8. ASSUME NEW b \in Nodes, BranchEnds(c, b) PROVE TypeOK'
  BY <1>8 DEF BranchEnds, TypeOK
<1>9. CASE LoadFails(c) \/ ReplayFails(c) \/ RouteFails(c)
  BY <1>0, <1>9, EndType DEF LoadFails, ReplayFails, RouteFails, Fail
<1>10. CASE Finish(c)
  <2>1. store' \in Stores
    BY <1>0, <1>10, EffectType DEF Finish
  <2> QED
    BY <1>0, <1>10, <2>1, EndType DEF Finish
<1> QED
  BY <1>1, <1>2, <1>3, <1>4, <1>5, <1>6, <1>7, <1>8, <1>9, <1>10 DEF Progress

LEMMA FaultType ==
    ASSUME TypeOK, NEW c \in Calls, Fault(c)
    PROVE  TypeOK'
<1>0. store \in Stores /\ orphans \in Orphans
  BY DEF TypeOK, Stores, Orphans
<1>1. Lost(c) \subseteq Stores
  BY <1>0, EffectType DEF Lost
<1>2. CASE StageFails(c) \/ MergeFails(c)
  BY <1>0, <1>2, EndType DEF StageFails, MergeFails, Fail
<1>3. CASE StoreFails(c)
  BY <1>0, <1>1, <1>3, EndType DEF StoreFails, AtStore, Fail
<1>4. CASE Cancel(c)
  BY <1>0, <1>1, <1>4, EndType DEF Cancel
<1>5. ASSUME NEW b \in Nodes, BranchFails(c, b) PROVE TypeOK'
  <2>1. LeftBehind(c, b) \in Orphans
    BY <1>5, CallsUsePipes DEF BranchFails, LeftBehind, TypeOK, Orphans, Jobs
  <2>2. orphans' \in Orphans
    BY <1>0, <1>5, <2>1 DEF BranchFails, Orphans
  <2> QED
    BY <1>0, <1>5, <2>2, EndType DEF BranchFails, Fail
<1> QED
  BY <1>2, <1>3, <1>4, <1>5 DEF Fault

LEMMA OutageType ==
    ASSUME TypeOK, Outage \/ OrphanEnds
    PROVE  TypeOK'
<1>1. ASSUME NEW p \in Pipes, NEW v \in Versions, Crash(p, v) PROVE TypeOK'
  BY <1>1 DEF Crash, TypeOK, Phases
<1>2. ASSUME NEW r \in Runs, Expire(r) PROVE TypeOK'
  BY <1>2 DEF Expire, TypeOK, control
<1>3. CASE OrphanEnds
  BY <1>3 DEF OrphanEnds, TypeOK
<1> QED
  BY <1>1, <1>2, <1>3 DEF Outage

LEMMA StutterType ==
    ASSUME TypeOK, UNCHANGED vars
    PROVE  TypeOK'
BY DEF TypeOK, vars

(***************************************************************************)
(* The state of every call, lock and checkpoint stays well-typed.          *)
(***************************************************************************)
THEOREM TypeCorrect == Spec => []TypeOK
<1>1. Init => TypeOK
  BY DEF Init, TypeOK, Phases
<1>2. TypeOK /\ [Next]_vars => TypeOK'
  BY RequestType, ProgressType, FaultType, OutageType, StutterType DEF Next
<1> QED
  BY <1>1, <1>2, PTL DEF Spec

-----------------------------------------------------------------------------
(* The run lock.  Neither part is inductive alone: a lock is taken safely  *)
(* because _active_runs names every durable call, and given back safely    *)
(* because no other call of the Pipeline has the same run.                 *)

LockInv == SingleFlight /\ LocksMatchCalls

LEMMA BeginLocks ==
    ASSUME TypeOK, LockInv, NEW c \in Calls, NEW r \in Runs,
           NEW durable \in BOOLEAN, NEW step \in FromSteps \cup {NoStep},
           NEW phase \in Phases \ {"idle"}, Begin(c, r, durable, step, phase)
    PROVE  LockInv'
<1>1. /\ pc[c] = "idle" /\ pc'[c] # "idle"
      /\ job'[c].run = r /\ job'[c].durable = durable
      /\ \A d \in Calls \ {c} : pc'[d] = pc[d] /\ job'[d] = job[d]
  BY DEF TypeOK, Begin
<1>2. /\ Locked(c)' <=> durable
      /\ ~Locked(c)
      /\ \A d \in Calls \ {c} : Locked(d)' <=> Locked(d)
  BY <1>1 DEF Locked
<1>3. durable => r \notin active[PipeOf[c]]
  BY DEF Begin, Acquire
<1>4. active' = IF durable
                THEN [active EXCEPT ![PipeOf[c]] = @ \cup {r}] ELSE active
  BY DEF Begin, Acquire
<1>5. SingleFlight'
  <2>1. ASSUME NEW d \in Calls \ {c}, Locked(d), PipeOf[d] = PipeOf[c]
        PROVE  job[d].run \in active[PipeOf[c]]
    BY <2>1, CallsUsePipes DEF LockInv, LocksMatchCalls
  <2> QED
    BY <1>1, <1>2, <1>3, <2>1 DEF LockInv, SingleFlight
<1>6. LocksMatchCalls'
  <2> SUFFICES ASSUME NEW p \in Pipes
               PROVE  active'[p] = {job'[d].run : d \in {e \in Calls :
                                        PipeOf[e] = p /\ Locked(e)'}}
    BY DEF LocksMatchCalls
  <2>1. active[p] = {job[d].run : d \in {e \in Calls : PipeOf[e] = p /\ Locked(e)}}
    BY DEF LockInv, LocksMatchCalls
  <2>2. active \in [Pipes -> SUBSET Runs]
    BY DEF TypeOK
  <2>3. CASE durable /\ p = PipeOf[c]
    BY <1>1, <1>2, <1>4, <2>1, <2>2, <2>3
  <2>4. CASE ~(durable /\ p = PipeOf[c])
    BY <1>1, <1>2, <1>4, <2>1, <2>2, <2>4
  <2> QED
    BY <2>3, <2>4
<1> QED
  BY <1>5, <1>6 DEF LockInv

LEMMA EndLocks ==
    ASSUME TypeOK, LockInv, NEW c \in Calls, pc[c] # "idle", End(c)
    PROVE  LockInv'
<1>1. /\ pc'[c] = "idle"
      /\ \A d \in Calls \ {c} : pc'[d] = pc[d] /\ job'[d] = job[d]
  BY DEF TypeOK, End
<1>2. /\ ~Locked(c)'
      /\ Locked(c) <=> job[c].durable
      /\ \A d \in Calls \ {c} : Locked(d)' <=> Locked(d)
  BY <1>1 DEF Locked
<1>3. SingleFlight'
  BY <1>1, <1>2 DEF LockInv, SingleFlight
<1>4. LocksMatchCalls'
  <2> SUFFICES ASSUME NEW p \in Pipes
               PROVE  active'[p] = {job'[d].run : d \in {e \in Calls :
                                        PipeOf[e] = p /\ Locked(e)'}}
    BY DEF LocksMatchCalls
  <2>1. active[p] = {job[d].run : d \in {e \in Calls : PipeOf[e] = p /\ Locked(e)}}
    BY DEF LockInv, LocksMatchCalls
  <2>2. active \in [Pipes -> SUBSET Runs]
    BY DEF TypeOK
  <2>3. CASE Locked(c) /\ p = PipeOf[c]
    <3>1. active'[p] = active[p] \ {job[c].run}
      BY <1>2, <2>2, <2>3 DEF End, Released
    <3>2. \A d \in Calls \ {c} : Locked(d) /\ PipeOf[d] = p => job[d].run # job[c].run
      BY <2>3 DEF LockInv, SingleFlight
    <3> QED
      BY <1>1, <1>2, <2>1, <3>1, <3>2
  <2>4. CASE ~(Locked(c) /\ p = PipeOf[c])
    <3>1. active'[p] = active[p]
      BY <1>2, <2>2, <2>4 DEF End, Released
    <3> QED
      BY <1>1, <1>2, <2>1, <2>4, <3>1
  <2> QED
    BY <2>3, <2>4
<1> QED
  BY <1>3, <1>4 DEF LockInv

\* A step that leaves every call's job, and whether it is idle, alone.
LEMMA KeepLocks ==
    ASSUME LockInv, UNCHANGED <<active, job>>,
           \A d \in Calls : pc'[d] = "idle" <=> pc[d] = "idle"
    PROVE  LockInv'
<1>1. \A d \in Calls : Locked(d)' <=> Locked(d)
  BY DEF Locked
<1> QED
  BY <1>1 DEF LockInv, SingleFlight, LocksMatchCalls

LEMMA RequestLocks ==
    ASSUME TypeOK, LockInv, NEW c \in Calls, Request(c)
    PROVE  LockInv'
<1>1. IsDurable[PipeOf[c]] \in BOOLEAN
  BY CallsUsePipes, DurableFlags
<1>2. {"reset", "run", "load", "replay"} \subseteq Phases \ {"idle"}
  BY DEF Phases
<1>3. PICK r \in Runs, durable \in BOOLEAN, step \in FromSteps \cup {NoStep},
           phase \in {"reset", "run", "load", "replay"} :
                Begin(c, r, durable, step, phase)
  BY <1>1 DEF Request, Invoke, Resume, Replay
<1> QED
  BY <1>2, <1>3, BeginLocks

LEMMA ProgressLocks ==
    ASSUME TypeOK, LockInv, NEW c \in Calls, Progress(c)
    PROVE  LockInv'
<1>1. CASE LoadFails(c) \/ ReplayFails(c) \/ RouteFails(c) \/ Finish(c)
  BY <1>1, EndLocks DEF LoadFails, ReplayFails, RouteFails, Finish, Fail
<1>2. CASE Reset(c) \/ Load(c) \/ ReplayLoad(c) \/ Rewrite(c) \/ Merge(c)
           \/ StartBranches(c)
  <2>1. UNCHANGED <<active, job>>
    BY <1>2 DEF Reset, Load, ReplayLoad, Rewrite, Merge, StartBranches, control
  <2>2. pc[c] # "idle"
    BY <1>2 DEF Reset, Load, ReplayLoad, Rewrite, Merge, StartBranches
  <2>3. PICK phase \in {"run", "load", "rewrite", "fork"} :
            pc' = [pc EXCEPT ![c] = phase]
    BY <1>2 DEF Reset, Load, ReplayLoad, Rewrite, Merge, StartBranches
  <2>4. \A d \in Calls : pc'[d] = "idle" <=> pc[d] = "idle"
    BY <2>2, <2>3 DEF TypeOK
  <2> QED
    BY <2>1, <2>4, KeepLocks
<1>3. CASE Save(c) \/ Advance(c) \/ StageReturns(c)
  BY <1>3, KeepLocks DEF Save, Advance, StageReturns, control
<1>4. ASSUME NEW b \in Nodes, BranchEnds(c, b) PROVE LockInv'
  BY <1>4, KeepLocks DEF BranchEnds
<1> QED
  BY <1>1, <1>2, <1>3, <1>4 DEF Progress

LEMMA FaultLocks ==
    ASSUME TypeOK, LockInv, NEW c \in Calls, Fault(c)
    PROVE  LockInv'
<1>1. pc[c] # "idle" /\ End(c)
  BY DEF Fault, StageFails, BranchFails, MergeFails, StoreFails, Cancel, Fail,
         AtStore
<1> QED
  BY <1>1, EndLocks

LEMMA CrashLocks ==
    ASSUME TypeOK, LockInv, NEW p \in Pipes, NEW v \in Versions, Crash(p, v)
    PROVE  LockInv'
<1>1. \A d \in Calls : PipeOf[d] = p => ~Locked(d)'
  BY DEF Crash, Locked
<1>2. \A d \in Calls : PipeOf[d] # p =>
            (Locked(d)' <=> Locked(d)) /\ job'[d] = job[d]
  BY DEF Crash, Locked
<1>3. active' = [active EXCEPT ![p] = {}] /\ active \in [Pipes -> SUBSET Runs]
  BY DEF Crash, TypeOK
<1>4. SingleFlight'
  BY <1>1, <1>2 DEF LockInv, SingleFlight
<1>5. LocksMatchCalls'
  <2> SUFFICES ASSUME NEW q \in Pipes
               PROVE  active'[q] = {job'[d].run : d \in {e \in Calls :
                                        PipeOf[e] = q /\ Locked(e)'}}
    BY DEF LocksMatchCalls
  <2>1. active[q] = {job[d].run : d \in {e \in Calls : PipeOf[e] = q /\ Locked(e)}}
    BY DEF LockInv, LocksMatchCalls
  <2> QED
    BY <1>1, <1>2, <1>3, <2>1
<1> QED
  BY <1>4, <1>5 DEF LockInv

(***************************************************************************)
(* A durable run is in flight at most once per Pipeline, and its lock is   *)
(* held exactly while it is: never by two calls, never by none.            *)
(***************************************************************************)
THEOREM LockCorrect == Spec => [](SingleFlight /\ LocksMatchCalls)
<1>1. Init => LockInv
  BY CallsUsePipes DEF Init, LockInv, SingleFlight, LocksMatchCalls, Locked
<1>2. TypeOK /\ LockInv /\ [Next]_vars => LockInv'
  <2> SUFFICES ASSUME TypeOK, LockInv, [Next]_vars PROVE LockInv'
    OBVIOUS
  <2>1. ASSUME NEW c \in Calls, Request(c) \/ Progress(c) \/ Fault(c)
        PROVE  LockInv'
    BY <2>1, RequestLocks, ProgressLocks, FaultLocks
  <2>2. CASE OrphanEnds
    BY <2>2, KeepLocks DEF OrphanEnds
  <2>3. ASSUME NEW r \in Runs, Expire(r) PROVE LockInv'
    BY <2>3, KeepLocks DEF Expire, control
  <2>4. CASE UNCHANGED vars
    BY <2>4, KeepLocks DEF vars
  <2> QED
    BY <2>1, <2>2, <2>3, <2>4, CrashLocks DEF Next, Outage
<1> QED
  BY <1>1, <1>2, TypeCorrect, PTL DEF LockInv, Spec

(***************************************************************************)
(* The lock half of it, for the callers: PipelineBusyError is raised when  *)
(* and only when a call of that run is in progress.                        *)
(***************************************************************************)
THEOREM LocksFollowCalls == Spec => []LocksMatchCalls
BY LockCorrect, PTL

-----------------------------------------------------------------------------
(* Failures, crashes and resumes never leave the configurations of an      *)
(* uninterrupted run.  The invariant adds that nothing rewrites.           *)

LegalStore(s) ==
    \A r \in Runs :
        s[r] # Nothing =>
            [ip |-> s[r].ip, trail |-> s[r].trail, pending |-> NoRoute]
                \in Legal[s[r].version]

LegalInv == LegalCalls /\ LegalStore(store) /\ \A c \in Calls : pc[c] # "rewrite"

\* A checkpoint is taken at a configuration whose pending route is not lost.
LEMMA EffectLegal ==
    ASSUME TypeOK, LegalInv, SendsAreRouted, NEW c \in Calls,
           AtStore(c) \/ (pc[c] = "run" /\ Op(c) = "end")
    PROVE  LegalStore(Effect(c))
<1>0. job[c].run \in Runs /\ VersionOf(c) \in Versions /\ store \in Stores
  BY CallsUsePipes DEF TypeOK, AtStore, Jobs, VersionOf, Stores
<1>1. ASSUME NEW r \in Runs
      PROVE  LegalStore([store EXCEPT ![r] = Nothing])
  BY <1>0 DEF LegalInv, LegalStore, Stores
<1>2. ASSUME pc[c] = "run", Op(c) # "end"
      PROVE  LegalStore([store EXCEPT ![job[c].run] = Record(c)])
  <2>1. Op(c) = "checkpoint" /\ conf[c] \in Configurations
    BY <1>2 DEF AtStore, TypeOK
  <2>2. conf[c] \in Legal[VersionOf(c)] /\ conf[c].pending = NoRoute
    BY <1>0, <1>2, <2>1
       DEF LegalInv, LegalCalls, InProgress, SendsAreRouted, Op
  <2>3. conf[c] = [ip |-> conf[c].ip, trail |-> conf[c].trail, pending |-> NoRoute]
    BY <2>1, <2>2 DEF Configurations
  <2>4. /\ Record(c).ip = conf[c].ip /\ Record(c).trail = conf[c].trail
        /\ Record(c).version = VersionOf(c)
    BY DEF Record
  <2> QED
    BY <1>0, <2>2, <2>3, <2>4 DEF LegalInv, LegalStore, Stores
<1> QED
  BY <1>0, <1>1, <1>2 DEF Effect, LegalInv, AtStore

LEMMA EndLegal ==
    ASSUME TypeOK, LegalInv, NEW c \in Calls, pc[c] # "idle", End(c),
           LegalStore(store')
    PROVE  LegalInv'
<1>1. \A d \in Calls \ {c} : pc'[d] = pc[d] /\ conf'[d] = conf[d]
  BY DEF End, TypeOK
<1>2. pc'[c] = "idle" /\ version' = version
  BY DEF End, TypeOK
<1> QED
  BY <1>1, <1>2 DEF LegalInv, LegalCalls, LegalStore, InProgress, VersionOf

\* A call that moves on to a legal configuration.
LEMMA MoveLegal ==
    ASSUME TypeOK, LegalInv, NEW c \in Calls, version' = version,
           LegalStore(store'),
           NEW phase \in Phases \ {"rewrite"}, pc' = [pc EXCEPT ![c] = phase],
           NEW k, conf' = [conf EXCEPT ![c] = k],
           phase \in {"run", "fork", "reset"} => k \in Legal[VersionOf(c)]
    PROVE  LegalInv'
<1>1. \A d \in Calls \ {c} : pc'[d] = pc[d] /\ conf'[d] = conf[d]
  BY DEF TypeOK
<1>2. pc'[c] = phase /\ conf'[c] = k
  BY DEF TypeOK
<1> QED
  BY <1>1, <1>2 DEF LegalInv, LegalCalls, LegalStore, InProgress, VersionOf

LEMMA RequestLegal ==
    ASSUME TypeOK, LegalInv, NEW c \in Calls, Request(c)
    PROVE  LegalInv'
<1>0. /\ VersionOf(c) \in Versions /\ conf = [conf EXCEPT ![c] = conf[c]]
      /\ LegalStore(store) /\ {"reset", "run", "load", "replay"} \subseteq Phases
  BY CallsUsePipes DEF TypeOK, VersionOf, LegalInv, Phases
<1>1. ASSUME NEW r \in Runs, NEW input \in Inputs, Invoke(c, r, input)
      PROVE  LegalInv'
  <2>1. /\ version' = version /\ store' = store
        /\ conf' = [conf EXCEPT ![c] = Entry]
    BY <1>1 DEF Invoke, Begin
  <2>2. Entry \in Legal[VersionOf(c)]
    BY <1>0, LegalClosed
  <2>3. PICK phase \in {"reset", "run"} : pc' = [pc EXCEPT ![c] = phase]
    BY <1>1 DEF Invoke, Begin
  <2> QED
    BY <1>0, <2>1, <2>2, <2>3, MoveLegal
<1>2. ASSUME NEW r \in Runs,
             Resume(c, r) \/ \E step \in FromSteps \cup {NoStep} : Replay(c, r, step)
      PROVE  LegalInv'
  <2>1. version' = version /\ store' = store /\ conf' = conf
    BY <1>2 DEF Resume, Replay, Begin
  <2>2. PICK phase \in {"load", "replay"} : pc' = [pc EXCEPT ![c] = phase]
    BY <1>2 DEF Resume, Replay, Begin
  <2> QED
    BY <1>0, <2>1, <2>2, MoveLegal
<1> QED
  BY <1>1, <1>2 DEF Request

LEMMA ProgressLegal ==
    ASSUME TypeOK, LegalInv, SendsAreRouted, FromSteps = {},
           NEW c \in Calls, Progress(c)
    PROVE  LegalInv'
<1>0. /\ VersionOf(c) \in Versions
      /\ conf = [conf EXCEPT ![c] = conf[c]] /\ pc = [pc EXCEPT ![c] = pc[c]]
      /\ LegalStore(store) /\ pc[c] # "rewrite"
      /\ {"run", "load", "fork"} \subseteq Phases
      /\ pc[c] \in {"run", "fork", "reset"} => conf[c] \in Legal[VersionOf(c)]
  BY CallsUsePipes
     DEF TypeOK, VersionOf, LegalInv, LegalCalls, InProgress, Phases
<1>1. CASE Reset(c)
  <2>1. LegalStore(Effect(c))
    BY <1>1, EffectLegal DEF Reset, AtStore
  <2>2. /\ version' = version /\ store' = Effect(c)
        /\ conf' = [conf EXCEPT ![c] = conf[c]]
        /\ pc' = [pc EXCEPT ![c] = "run"] /\ pc[c] = "reset"
    BY <1>0, <1>1 DEF Reset, control
  <2> QED
    BY <1>0, <2>1, <2>2, MoveLegal
<1>2. CASE Load(c)
  <2> DEFINE checkpoint == store[job[c].run]
  <2> DEFINE k == [ip |-> checkpoint.ip, trail |-> checkpoint.trail,
                   pending |-> NoRoute]
  <2>1. job[c].run \in Runs
    BY <1>2 DEF Load, TypeOK, Jobs
  <2>2. k \in Legal[VersionOf(c)]
    BY <1>0, <1>2, <2>1 DEF Load, Restorable, LegalStore
  <2>3. /\ version' = version /\ store' = store
        /\ conf' = [conf EXCEPT ![c] = k] /\ pc' = [pc EXCEPT ![c] = "run"]
    BY <1>2 DEF Load, control
  <2> HIDE DEF k
  <2> QED
    BY <1>0, <2>2, <2>3, MoveLegal
<1>3. CASE ReplayLoad(c)
  <2>1. job[c].step = NoStep
    BY <1>3 DEF ReplayLoad, TypeOK, Jobs
  <2>2. /\ version' = version /\ store' = store
        /\ conf' = [conf EXCEPT ![c] = conf[c]]
        /\ pc' = [pc EXCEPT ![c] = "load"]
    BY <1>0, <1>3, <2>1 DEF ReplayLoad, control
  <2>3. /\ LegalStore(store') /\ "load" \in Phases \ {"rewrite"}
        /\ "load" \notin {"run", "fork", "reset"}
    BY <1>0, <2>2
  <2> DEFINE k == conf[c]
  <2>4. conf' = [conf EXCEPT ![c] = k]
    BY <2>2
  <2> HIDE DEF k
  <2> QED
    BY <2>2, <2>3, <2>4, MoveLegal
<1>4. CASE Rewrite(c)
  BY <1>0, <1>4 DEF Rewrite
<1>5. CASE Save(c)
  <2>1. LegalStore(Effect(c))
    BY <1>5, EffectLegal DEF Save, AtStore
  <2>2. After(VersionOf(c), conf[c]) = {Skip(conf[c])}
    BY <1>5 DEF Save, After, Op
  <2>3. Skip(conf[c]) \in Legal[VersionOf(c)]
    <3>1. After(VersionOf(c), conf[c]) \subseteq Legal[VersionOf(c)]
      BY <1>0, <1>5, LegalClosed DEF Save
    <3> QED
      BY <2>2, <3>1
  <2>4. /\ version' = version /\ store' = Effect(c)
        /\ conf' = [conf EXCEPT ![c] = Skip(conf[c])]
        /\ pc' = [pc EXCEPT ![c] = "run"]
    BY <1>0, <1>5 DEF Save, control
  <2> QED
    BY <1>0, <2>1, <2>3, <2>4, MoveLegal
<1>6. CASE Advance(c) \/ StageReturns(c) \/ Merge(c)
  <2>1. PICK k \in After(VersionOf(c), conf[c]) : conf' = [conf EXCEPT ![c] = k]
    BY <1>6 DEF Advance, StageReturns, Merge
  <2>2. k \in Legal[VersionOf(c)]
    BY <1>0, <1>6, LegalClosed DEF Advance, StageReturns, Merge
  <2>3. /\ version' = version /\ store' = store
        /\ pc' = [pc EXCEPT ![c] = "run"]
    BY <1>0, <1>6 DEF Advance, StageReturns, Merge, control
  <2> QED
    BY <1>0, <2>1, <2>2, <2>3, MoveLegal
<1>7. CASE StartBranches(c)
  <2>1. /\ version' = version /\ store' = store
        /\ conf' = [conf EXCEPT ![c] = conf[c]]
        /\ pc' = [pc EXCEPT ![c] = "fork"] /\ pc[c] = "run"
    BY <1>0, <1>7 DEF StartBranches
  <2> QED
    BY <1>0, <2>1, MoveLegal
<1>8. ASSUME NEW b \in Nodes, BranchEnds(c, b) PROVE LegalInv'
  BY <1>8 DEF BranchEnds, LegalInv, LegalCalls, LegalStore, InProgress, VersionOf
<1>9. CASE LoadFails(c) \/ ReplayFails(c) \/ RouteFails(c)
  BY <1>0, <1>9, EndLegal DEF LoadFails, ReplayFails, RouteFails, Fail
<1>10. CASE Finish(c)
  <2>1. LegalStore(store')
    BY <1>0, <1>10, EffectLegal DEF Finish
  <2> QED
    BY <1>10, <2>1, EndLegal DEF Finish
<1> QED
  BY <1>1, <1>2, <1>3, <1>4, <1>5, <1>6, <1>7, <1>8, <1>9, <1>10 DEF Progress

LEMMA FaultLegal ==
    ASSUME TypeOK, LegalInv, SendsAreRouted, NEW c \in Calls, Fault(c)
    PROVE  LegalInv'
<1>1. pc[c] # "idle" /\ End(c)
  BY DEF Fault, StageFails, BranchFails, MergeFails, StoreFails, Cancel, Fail,
         AtStore
<1>2. store' \in Lost(c) \cup {store}
  BY DEF Fault, StageFails, BranchFails, MergeFails, StoreFails, Cancel
<1>3. LegalStore(store')
  BY <1>2, EffectLegal DEF Lost, LegalInv
<1> QED
  BY <1>1, <1>3, EndLegal

LEMMA OutageLegal ==
    ASSUME TypeOK, LegalInv, Outage \/ OrphanEnds \/ UNCHANGED vars
    PROVE  LegalInv'
<1>1. ASSUME NEW p \in Pipes, NEW v \in Versions, Crash(p, v) PROVE LegalInv'
  <2>1. \A c \in Calls :
            IF PipeOf[c] = p THEN pc'[c] = "idle"
            ELSE /\ pc'[c] = pc[c] /\ conf'[c] = conf[c]
                 /\ VersionOf(c)' = VersionOf(c)
    BY <1>1, CallsUsePipes DEF Crash, VersionOf, TypeOK
  <2>2. LegalStore(store')
    BY <1>1 DEF Crash, LegalInv, LegalStore
  <2> QED
    BY <2>1, <2>2 DEF LegalInv, LegalCalls, LegalStore, InProgress
<1>2. ASSUME NEW r \in Runs, Expire(r) PROVE LegalInv'
  <2>1. LegalStore(store')
    BY <1>2 DEF Expire, LegalInv, LegalStore, TypeOK
  <2> QED
    BY <1>2, <2>1 DEF Expire, LegalInv, LegalCalls, LegalStore, InProgress,
                      VersionOf, control
<1>3. CASE OrphanEnds \/ UNCHANGED vars
  BY <1>3 DEF OrphanEnds, vars, LegalInv, LegalCalls, LegalStore, InProgress,
              VersionOf
<1> QED
  BY <1>1, <1>2, <1>3 DEF Outage

(***************************************************************************)
(* Whatever fails, crashes, is cancelled, expires or is deployed, a call   *)
(* is always where an uninterrupted run could be, and so is every          *)
(* checkpoint: no stage is skipped, doubled or reordered by durability.    *)
(***************************************************************************)
THEOREM DurableRunsAreLegal ==
    ASSUME FromSteps = {}, SendsAreRouted
    PROVE  Spec => []LegalRuns
<1>1. Init => LegalInv
  BY DEF Init, LegalInv, LegalCalls, LegalStore, InProgress
<1>2. TypeOK /\ LegalInv /\ [Next]_vars => LegalInv'
  BY RequestLegal, ProgressLegal, FaultLegal, OutageLegal DEF Next
<1>3. LegalInv => LegalRuns
  BY DEF LegalInv, LegalRuns, LegalStore, LegalCheckpoints
<1> QED
  BY <1>1, <1>2, <1>3, TypeCorrect, PTL DEF Spec

-----------------------------------------------------------------------------
(***************************************************************************)
(* Durable execution implements its contract (module DurableContract), for *)
(* every number of pipelines, callers, runs and code versions, with a      *)
(* store in memory or a remote one.                                        *)
(***************************************************************************)

\* A call that is about to reset its run has not computed anything.
ResetInv == \A c \in Calls : pc[c] = "reset" => conf[c] = Entry

LEMMA ResetStep ==
    ASSUME TypeOK, ResetInv, [Next]_vars
    PROVE  ResetInv'
<1>1. ASSUME NEW c \in Calls, Request(c) PROVE ResetInv'
  BY <1>1 DEF Request, Invoke, Resume, Replay, Begin, ResetInv, TypeOK
<1>2. ASSUME NEW c \in Calls, Progress(c) PROVE ResetInv'
  <2>1. CASE Reset(c) \/ Load(c) \/ LoadFails(c) \/ ReplayFails(c) \/ Rewrite(c)
             \/ RouteFails(c) \/ Finish(c)
    BY <2>1 DEF Reset, Load, LoadFails, ReplayFails, Rewrite, RouteFails, Finish,
                Fail, End, ResetInv, TypeOK
  <2>2. CASE ReplayLoad(c)
    BY <2>2 DEF ReplayLoad, ResetInv, TypeOK
  <2>3. CASE Save(c) \/ Advance(c) \/ StageReturns(c) \/ Merge(c)
    BY <2>3 DEF Save, Advance, StageReturns, Merge, control, ResetInv, TypeOK
  <2>4. CASE StartBranches(c) \/ \E b \in Nodes : BranchEnds(c, b)
    BY <2>4 DEF StartBranches, BranchEnds, ResetInv, TypeOK
  <2> QED
    BY <1>2, <2>1, <2>2, <2>3, <2>4 DEF Progress
<1>3. ASSUME NEW c \in Calls, Fault(c) PROVE ResetInv'
  BY <1>3 DEF Fault, StageFails, BranchFails, MergeFails, StoreFails, Cancel,
              Fail, End, ResetInv, TypeOK
<1>4. CASE Outage \/ OrphanEnds \/ UNCHANGED vars
  BY <1>4 DEF Outage, Crash, Expire, OrphanEnds, vars, control, ResetInv
<1> QED
  BY <1>1, <1>2, <1>3, <1>4 DEF Next

-----------------------------------------------------------------------------
(* What the contract sees of a step.                                       *)

\* Only the work of c can have changed.
Others(c) ==
    \A d \in Calls \ {c} : /\ pc'[d] = pc[d] /\ job'[d] = job[d]
                           /\ conf'[d] = conf[d] /\ source'[d] = source[d]

LEMMA WorkOfOne ==
    ASSUME NEW c \in Calls, Others(c)
    PROVE  Work' = [Work EXCEPT ![c] = WorkOf(c)']
BY DEF Others, Work, WorkOf

LEMMA WorkTyped ==
    ASSUME TypeOK, NEW c \in Calls, pc[c] \in {"run", "fork", "rewrite"}
    PROVE  /\ WorkOf(c) \in Works /\ WorkOf(c) # Nothing
           /\ Work[c] = [run |-> job[c].run, durable |-> job[c].durable,
                         source |-> source[c], trail |-> conf[c].trail]
<1>1. job[c] \in Jobs /\ conf[c] \in Configurations /\ source[c] \in Sources
  BY DEF TypeOK
<1>2. WorkOf(c) \in Works
  BY <1>1 DEF WorkOf, Works, Jobs, Configurations
<1> QED
  BY <1>2, NothingDistinct DEF Work, WorkOf

LEMMA NoWork ==
    ASSUME NEW c \in Calls, pc[c] \notin {"run", "fork", "rewrite"}
    PROVE  WorkOf(c) = Nothing /\ Work[c] = Nothing
BY DEF Work, WorkOf

LEMMA SafeKept ==
    ASSUME store' = store
    PROVE  Safe' = Safe
BY DEF Safe, SafeOf

LEMMA SafeDropped ==
    ASSUME TypeOK, NEW r \in Runs, store' = [store EXCEPT ![r] = Nothing]
    PROVE  Safe' = [Safe EXCEPT ![r] = Nothing]
BY DEF TypeOK, Safe, SafeOf

LEMMA SafeSaved ==
    ASSUME TypeOK, NEW c \in Calls, pc[c] \in {"run", "rewrite"},
           store' = [store EXCEPT ![job[c].run] = Record(c)]
    PROVE  Safe' = Contract!With(Work[c])
<1>1. /\ job[c] \in Jobs /\ conf[c] \in Configurations /\ source[c] \in Sources
      /\ job[c].run \in Runs
  BY DEF TypeOK, Jobs
<1>2. Record(c) \in Checkpoints
  BY <1>1, CallsUsePipes DEF TypeOK, Record, Checkpoints, Configurations, VersionOf
<1>3. Record(c) # Nothing
  BY <1>2, NothingDistinct
<1>4. Safe' = [Safe EXCEPT ![job[c].run] =
                  [source |-> source[c], trail |-> conf[c].trail]]
  BY <1>1, <1>3 DEF TypeOK, Safe, SafeOf, Record
<1>5. Work[c] = [run |-> job[c].run, durable |-> job[c].durable,
                 source |-> source[c], trail |-> conf[c].trail]
  BY WorkTyped
<1> QED
  BY <1>4, <1>5 DEF Contract!With, Contract!Value

-----------------------------------------------------------------------------
(* Steps.                                                                  *)

ContractStep == Contract!Next \/ UNCHANGED <<Safe, Work>>

\* Nothing is worked on before or after, and nothing is stored.
LEMMA QuietStep ==
    ASSUME NEW c \in Calls, Others(c), store' = store, WorkOf(c)' = WorkOf(c)
    PROVE  ContractStep
<1>1. Safe' = Safe
  BY SafeKept
<1>2. Work' = [Work EXCEPT ![c] = WorkOf(c)]
  BY WorkOfOne
<1>3. Work' = Work
  BY <1>2 DEF Work
<1> QED
  BY <1>1, <1>3 DEF ContractStep

LEMMA RequestContract ==
    ASSUME TypeOK, NEW c \in Calls, Request(c)
    PROVE  ContractStep
<1> PICK r \in Runs :
        \/ \E input \in Inputs : Invoke(c, r, input)
        \/ Resume(c, r)
        \/ \E step \in FromSteps \cup {NoStep} : Replay(c, r, step)
  BY DEF Request
<1>1. Others(c) /\ store' = store /\ pc[c] = "idle"
  BY DEF Invoke, Resume, Replay, Begin, Others, TypeOK
<1>2. WorkOf(c) = Nothing
  BY <1>1, NoWork
<1>3. CASE pc'[c] \in {"reset", "load", "replay"}
  <2>1. WorkOf(c)' = Nothing
    BY <1>3 DEF WorkOf
  <2> QED
    BY <1>1, <1>2, <2>1, QuietStep
<1>4. ASSUME NEW input \in Inputs, Invoke(c, r, input), ~IsDurable[PipeOf[c]]
      PROVE  ContractStep
  <2>1. /\ pc'[c] = "run" /\ conf'[c] = Entry
        /\ job'[c] = [run |-> r, durable |-> FALSE, step |-> NoStep]
        /\ source'[c] = [input |-> input, version |-> VersionOf(c)]
    BY <1>4, CallsUsePipes, DurableFlags DEF Invoke, Begin, TypeOK
  <2>2. source'[c] \in Sources
    BY <2>1, CallsUsePipes DEF Sources, TypeOK, VersionOf
  <2>3. WorkOf(c)' = [run |-> r, durable |-> FALSE, source |-> source'[c],
                      trail |-> <<>>]
    BY <2>1 DEF WorkOf, Entry
  <2>4. Contract!Fresh(c)
    BY <1>1, <2>2, <2>3, WorkOfOne, SafeKept DEF Contract!Fresh, Contract!Begins
  <2> QED
    BY <2>4 DEF ContractStep, Contract!Next
<1>5. \/ pc'[c] \in {"reset", "load", "replay"}
      \/ \E input \in Inputs : Invoke(c, r, input) /\ ~IsDurable[PipeOf[c]]
  BY <1>1, CallsUsePipes, DurableFlags DEF Invoke, Resume, Replay, Begin, TypeOK
<1> QED
  BY <1>3, <1>4, <1>5

\* An instruction leaves the trail alone or adds the nodes it has run.
LEMMA AfterTrail ==
    ASSUME NEW v \in Versions, NEW k \in Configurations, NEW new \in After(v, k)
    PROVE  \/ new.trail = k.trail
           \/ \E nodes \in SUBSET Nodes : new.trail = Append(k.trail, nodes)
<1> DEFINE i == InstrAt(v, k)
<1>1. ASSUME OpAt(v, k) # "end"
      PROVE  k.ip \in DOMAIN Code[v] /\ i.op = OpAt(v, k)
  BY <1>1, CodeTyped DEF OpAt, InstrAt, Configurations, Ips
<1>2. CASE OpAt(v, k) = "call"
  <2>1. i.node \in Nodes
    BY <1>1, <1>2, CodeTyped DEF InstrAt
  <2>2. new \in AfterCall(i, k)
    BY <1>2 DEF After
  <2>3. new.trail = Append(k.trail, {i.node})
    BY <2>2 DEF AfterCall
  <2>4. {i.node} \in SUBSET Nodes
    BY <2>1
  <2> QED
    BY <2>3, <2>4
<1>3. CASE OpAt(v, k) = "fork"
  <2> DEFINE joined == {i.branches[b] : b \in DOMAIN i.branches}
  <2>1. joined \in SUBSET Nodes
    BY <1>1, <1>3, CodeTyped DEF InstrAt
  <2>2. new \in AfterFork(v, i, k)
    BY <1>3 DEF After
  <2>3. new.trail = Append(k.trail, joined) \/ new.trail = Skip(k).trail
    <3> HIDE DEF i
    <3> QED
      BY <2>2 DEF AfterFork
  <2>4. Skip(k).trail = k.trail
    BY DEF Skip, Configurations
  <2> QED
    BY <2>1, <2>3, <2>4
<1>4. CASE OpAt(v, k) \notin {"call", "fork"}
  <2> HIDE DEF i
  <2>1. \/ new \in AfterRoute(i, k) \/ new = [k EXCEPT !.ip = i.target]
        \/ new = Skip(k)
    BY <1>4 DEF After, i
  <2>2. new \in AfterRoute(i, k) => new.trail = k.trail
    BY DEF AfterRoute
  <2>3. [k EXCEPT !.ip = i.target].trail = k.trail /\ Skip(k).trail = k.trail
    BY DEF Skip, Configurations
  <2> QED
    BY <2>1, <2>2, <2>3
<1> QED
  BY <1>2, <1>3, <1>4

\* A step of the interpreter that stores nothing.
LEMMA InterpretContract ==
    ASSUME TypeOK, NEW c \in Calls, Advance(c) \/ StageReturns(c) \/ Merge(c)
    PROVE  ContractStep
<1>1. PICK k \in After(VersionOf(c), conf[c]) : conf' = [conf EXCEPT ![c] = k]
  BY DEF Advance, StageReturns, Merge
<1>2. /\ pc[c] \in {"run", "fork"} /\ pc'[c] \in {"run", "fork"}
      /\ Others(c) /\ store' = store
      /\ job'[c] = job[c] /\ source'[c] = source[c] /\ conf'[c] = k
  BY <1>1 DEF Advance, StageReturns, Merge, control, Others, TypeOK
<1>3. conf[c] \in Configurations /\ VersionOf(c) \in Versions
  BY <1>2, CallsUsePipes DEF TypeOK, VersionOf
<1>4. WorkOf(c)' = [run |-> job[c].run, durable |-> job[c].durable,
                    source |-> source[c], trail |-> k.trail]
  BY <1>2 DEF WorkOf
<1>5. WorkOf(c) # Nothing /\ Work[c] = WorkOf(c)
      /\ WorkOf(c) = [run |-> job[c].run, durable |-> job[c].durable,
                      source |-> source[c], trail |-> conf[c].trail]
  BY <1>2, WorkTyped DEF Work, WorkOf
<1>6. CASE k.trail = conf[c].trail
  BY <1>2, <1>4, <1>5, <1>6, QuietStep
<1>7. ASSUME NEW nodes \in SUBSET Nodes, k.trail = Append(conf[c].trail, nodes)
      PROVE  ContractStep
  <2>1. [WorkOf(c) EXCEPT !.trail = Append(@, nodes)] = WorkOf(c)'
    <3> DEFINE longer == Append(conf[c].trail, nodes)
    <3>1. WorkOf(c).trail = conf[c].trail
      BY <1>5
    <3>2. [WorkOf(c) EXCEPT !.trail = longer]
            = [run |-> job[c].run, durable |-> job[c].durable,
               source |-> source[c], trail |-> longer]
      <4> HIDE DEF longer
      <4> QED
        BY <1>5
    <3> QED
      BY <1>4, <1>7, <3>1, <3>2
  <2>2. Work' = [Work EXCEPT ![c] = [WorkOf(c) EXCEPT !.trail = Append(@, nodes)]]
    BY <1>2, <2>1, WorkOfOne
  <2>3. Contract!Extend(c)
    BY <1>2, <1>5, <2>2, SafeKept DEF Contract!Extend, Work
  <2> QED
    BY <2>3 DEF ContractStep, Contract!Next
<1>8. \/ k.trail = conf[c].trail
      \/ \E nodes \in SUBSET Nodes : k.trail = Append(conf[c].trail, nodes)
  BY <1>1, <1>3, AfterTrail
<1> QED
  BY <1>6, <1>7, <1>8

\* A fresh durable run starts when what was stored is gone.
LEMMA ResetContract ==
    ASSUME TypeOK, ResetInv, NEW c \in Calls, Reset(c)
    PROVE  ContractStep
<1>1. /\ pc[c] = "reset" /\ pc'[c] = "run" /\ Others(c)
      /\ job'[c] = job[c] /\ source'[c] = source[c] /\ conf'[c] = conf[c]
  BY DEF Reset, control, Others, TypeOK
<1>2. /\ job[c].run \in Runs /\ job[c].durable = TRUE
      /\ source[c] \in Sources /\ conf[c].trail = <<>>
  BY <1>1 DEF TypeOK, Jobs, ResetInv, Entry
<1>3. store' = [store EXCEPT ![job[c].run] = Nothing]
  BY <1>1 DEF Reset, Effect
<1>4. WorkOf(c)' = [run |-> job[c].run, durable |-> TRUE, source |-> source[c],
                    trail |-> <<>>]
  BY <1>1, <1>2 DEF WorkOf
<1>5. Safe' = Contract!Without(job[c].run)
  BY <1>2, <1>3, SafeDropped DEF Contract!Without
<1>6. Work' = [Work EXCEPT ![c] = [run |-> job[c].run, durable |-> TRUE,
                                   source |-> source[c], trail |-> <<>>]]
  BY <1>1, <1>4, WorkOfOne
<1>7. Contract!Fresh(c)
  BY <1>2, <1>5, <1>6 DEF Contract!Fresh, Contract!Begins
<1> QED
  BY <1>7 DEF ContractStep, Contract!Next

\* A call that takes over the checkpoint of its run.
LEMMA ContinueContract ==
    ASSUME TypeOK, NEW c \in Calls, pc[c] # "idle", Others(c), store' = store,
           store[job[c].run] # Nothing, job'[c] = job[c],
           pc'[c] \in {"run", "rewrite"},
           conf'[c].trail = store[job[c].run].trail,
           source'[c] = store[job[c].run].source
    PROVE  ContractStep
<1> DEFINE r == job[c].run
<1>1. r \in Runs /\ job[c].durable \in BOOLEAN
  BY DEF TypeOK, Jobs
<1>2. Safe[r] = [source |-> store[r].source, trail |-> store[r].trail]
  BY <1>1 DEF Safe, SafeOf
<1>3. store[r] \in Checkpoints
  BY <1>1 DEF TypeOK
<1>4. [source |-> store[r].source, trail |-> store[r].trail] # Nothing
  BY <1>1, <1>3, NothingDistinct DEF Checkpoints, Values
<1>5. WorkOf(c)' = [run |-> r, durable |-> job[c].durable,
                    source |-> store[r].source, trail |-> store[r].trail]
  BY DEF WorkOf
<1>6. Contract!Continue(c)
  BY <1>1, <1>2, <1>4, <1>5, WorkOfOne, SafeKept
     DEF Contract!Continue, Contract!Begins
<1> QED
  BY <1>6 DEF ContractStep, Contract!Next

LEMMA LoadContract ==
    ASSUME TypeOK, NEW c \in Calls, Load(c) \/ ReplayLoad(c)
    PROVE  ContractStep
<1>1. /\ pc[c] \in {"load", "replay"} /\ Others(c) /\ store' = store
      /\ job'[c] = job[c] /\ store[job[c].run] # Nothing
  BY DEF Load, ReplayLoad, Restorable, control, Others, TypeOK
<1>2. CASE pc'[c] \in {"run", "rewrite"}
  <2>1. conf'[c].trail = store[job[c].run].trail
    BY <1>2 DEF Load, ReplayLoad, TypeOK
  <2>2. source'[c] = store[job[c].run].source
    BY <1>2 DEF Load, ReplayLoad, TypeOK
  <2> QED
    BY <1>1, <1>2, <2>1, <2>2, ContinueContract
<1>3. CASE pc'[c] = "load"
  <2>1. WorkOf(c)' = WorkOf(c)
    BY <1>1, <1>3 DEF WorkOf
  <2> QED
    BY <1>1, <2>1, QuietStep
<1> QED
  BY <1>2, <1>3 DEF Load, ReplayLoad, TypeOK

LEMMA SaveContract ==
    ASSUME TypeOK, NEW c \in Calls, Save(c)
    PROVE  ContractStep
<1>1. /\ pc[c] = "run" /\ pc'[c] = "run" /\ Others(c) /\ job[c].durable
      /\ job'[c] = job[c] /\ source'[c] = source[c] /\ conf'[c] = Skip(conf[c])
      /\ conf[c] \in Configurations
  BY DEF Save, control, Others, TypeOK
<1>2. store' = [store EXCEPT ![job[c].run] = Record(c)]
  BY <1>1 DEF Save, Effect
<1>3. Safe' = Contract!With(Work[c])
  BY <1>1, <1>2, SafeSaved
<1>4. conf'[c].trail = conf[c].trail
  BY <1>1 DEF Skip, Configurations
<1>5. WorkOf(c)' = WorkOf(c)
  BY <1>1, <1>4 DEF WorkOf
<1>6. Work' = Work
  BY <1>1, <1>5, WorkOfOne DEF Work
<1>7. Work[c] # Nothing /\ Work[c].durable
  BY <1>1, WorkTyped DEF Work
<1>8. Contract!Save(c)
  BY <1>3, <1>6, <1>7 DEF Contract!Save
<1> QED
  BY <1>8 DEF ContractStep, Contract!Next

-----------------------------------------------------------------------------
(* Endings.                                                                *)

\* A call that stops, with what it did to the store on the way.
LEMMA StopContract ==
    ASSUME TypeOK, NEW c \in Calls, pc[c] # "idle", Others(c),
           WorkOf(c)' = Nothing,
           store' = store \/ (AtStore(c) /\ store' = Effect(c))
    PROVE  ContractStep
<1> DEFINE r == job[c].run
<1>0. r \in Runs
  BY DEF TypeOK, Jobs
<1>1. Work' = [Work EXCEPT ![c] = Nothing]
  BY WorkOfOne
<1>2. CASE pc[c] \in {"run", "fork", "rewrite"}
  <2>1. Work[c] # Nothing /\ Work[c].run = r /\ Work[c].durable = job[c].durable
    BY <1>2, WorkTyped DEF Work
  <2>2. \/ Safe' = Safe
        \/ /\ job[c].durable
           /\ Safe' \in {Contract!With(Work[c]), Contract!Without(Work[c].run)}
    <3>1. CASE store' = store
      BY <3>1, SafeKept
    <3>2. ASSUME AtStore(c), store' = Effect(c)
          PROVE  /\ job[c].durable
                 /\ Safe' \in {Contract!With(Work[c]), Contract!Without(Work[c].run)}
      <4>1. job[c].durable /\ pc[c] \in {"run", "rewrite"}
        BY <1>2, <3>2 DEF AtStore, TypeOK
      <4>2. CASE store' = [store EXCEPT ![r] = Record(c)]
        BY <4>1, <4>2, SafeSaved
      <4>3. CASE store' = [store EXCEPT ![r] = Nothing]
        BY <1>0, <2>1, <4>1, <4>3, SafeDropped DEF Contract!Without
      <4> QED
        BY <3>2, <4>1, <4>2, <4>3 DEF Effect
    <3> QED
      BY <3>1, <3>2
  <2>3. Contract!Stop(c)
    BY <1>1, <2>1, <2>2 DEF Contract!Stop, Contract!Ends
  <2> QED
    BY <2>3 DEF ContractStep, Contract!Next
<1>3. CASE pc[c] \notin {"run", "fork", "rewrite"}
  <2>1. Work[c] = Nothing
    BY <1>3, NoWork
  <2>2. Work' = Work
    BY <1>1, <2>1 DEF Work
  <2>3. store' = store \/ store' = [store EXCEPT ![r] = Nothing]
    BY <1>3 DEF Effect
  <2>4. CASE store' = store
    BY <2>2, <2>4, SafeKept DEF ContractStep
  <2>5. CASE store' = [store EXCEPT ![r] = Nothing]
    <3>1. Contract!Lose(r)
      BY <1>0, <2>2, <2>5, SafeDropped DEF Contract!Lose, Contract!Without
    <3> QED
      BY <1>0, <3>1 DEF ContractStep, Contract!Next
  <2> QED
    BY <2>3, <2>4, <2>5
<1> QED
  BY <1>2, <1>3

LEMMA EndContract ==
    ASSUME TypeOK, NEW c \in Calls, pc[c] # "idle", End(c),
           store' = store \/ (AtStore(c) /\ store' = Effect(c))
    PROVE  ContractStep
<1>1. Others(c) /\ pc'[c] = "idle"
  BY DEF End, Others, TypeOK
<1>2. WorkOf(c)' = Nothing
  BY <1>1 DEF WorkOf
<1> QED
  BY <1>1, <1>2, StopContract

-----------------------------------------------------------------------------
(* All steps.                                                              *)

LEMMA ProgressContract ==
    ASSUME TypeOK, ResetInv, NEW c \in Calls, Progress(c)
    PROVE  ContractStep
<1>1. CASE Reset(c) \/ Load(c) \/ ReplayLoad(c) \/ Save(c) \/ Advance(c)
           \/ StageReturns(c) \/ Merge(c)
  BY <1>1, ResetContract, LoadContract, SaveContract, InterpretContract
<1>2. CASE Rewrite(c)
  <2>1. /\ pc[c] = "rewrite" /\ pc'[c] = "load" /\ Others(c)
        /\ AtStore(c) /\ store' = Effect(c)
    BY <1>2 DEF Rewrite, control, Others, AtStore, TypeOK
  <2>2. WorkOf(c)' = Nothing
    BY <2>1 DEF WorkOf
  <2> QED
    BY <2>1, <2>2, StopContract
<1>3. CASE LoadFails(c) \/ ReplayFails(c) \/ RouteFails(c)
  BY <1>3, EndContract DEF LoadFails, ReplayFails, RouteFails, Fail
<1>4. CASE Finish(c)
  <2>1. pc[c] # "idle" /\ End(c)
    BY <1>4 DEF Finish
  <2>2. store' = store \/ (AtStore(c) /\ store' = Effect(c))
    BY <1>4 DEF Finish, AtStore
  <2> QED
    BY <2>1, <2>2, EndContract
<1>5. CASE StartBranches(c) \/ \E b \in Nodes : BranchEnds(c, b)
  <2>1. /\ Others(c) /\ store' = store
        /\ pc[c] \in {"run", "fork"} /\ pc'[c] \in {"run", "fork"}
        /\ job'[c] = job[c] /\ conf'[c] = conf[c] /\ source'[c] = source[c]
    BY <1>5 DEF StartBranches, BranchEnds, Others, TypeOK
  <2>2. WorkOf(c)' = WorkOf(c)
    BY <2>1 DEF WorkOf
  <2> QED
    BY <2>1, <2>2, QuietStep
<1> QED
  BY <1>1, <1>2, <1>3, <1>4, <1>5 DEF Progress

LEMMA FaultContract ==
    ASSUME TypeOK, NEW c \in Calls, Fault(c)
    PROVE  ContractStep
<1>1. pc[c] # "idle" /\ End(c)
  BY DEF Fault, StageFails, BranchFails, MergeFails, StoreFails, Cancel, Fail,
         AtStore
<1>2. store' = store \/ (AtStore(c) /\ store' = Effect(c))
  BY DEF Fault, StageFails, BranchFails, MergeFails, StoreFails, Cancel, Lost
<1> QED
  BY <1>1, <1>2, EndContract

LEMMA OutageContract ==
    ASSUME TypeOK, Outage \/ OrphanEnds \/ UNCHANGED vars
    PROVE  ContractStep
<1>1. ASSUME NEW p \in Pipes, NEW v \in Versions, Crash(p, v)
      PROVE  ContractStep
  <2> DEFINE dead == {c \in Calls : PipeOf[c] = p}
  <2>1. \A c \in Calls : WorkOf(c)' = IF c \in dead THEN Nothing ELSE WorkOf(c)
    BY <1>1 DEF Crash, WorkOf
  <2>2. Work' = [c \in Calls |-> IF c \in dead THEN Nothing ELSE Work[c]]
    BY <2>1 DEF Work
  <2>3. Safe' = Safe \/ Safe' = [r \in Runs |-> Nothing]
    BY <1>1 DEF Crash, Safe, SafeOf
  <2>4. dead \in SUBSET Calls
    OBVIOUS
  <2>5. Contract!Crash
    BY <2>2, <2>3, <2>4 DEF Contract!Crash
  <2> QED
    BY <2>5 DEF ContractStep, Contract!Next
<1>2. ASSUME NEW r \in Runs, Expire(r) PROVE ContractStep
  <2>1. Work' = Work
    BY <1>2 DEF Expire, control, Work, WorkOf
  <2>2. Contract!Lose(r)
    BY <1>2, <2>1, SafeDropped DEF Expire, Contract!Lose, Contract!Without
  <2> QED
    BY <2>2 DEF ContractStep, Contract!Next
<1>3. CASE OrphanEnds \/ UNCHANGED vars
  BY <1>3 DEF OrphanEnds, vars, ContractStep, Safe, SafeOf, Work, WorkOf
<1> QED
  BY <1>1, <1>2, <1>3 DEF Outage

(***************************************************************************)
(* Durable execution keeps its contract: values reach a call only from the *)
(* checkpoint it loads, grow there one stage or block at a time, and reach *)
(* the store only as a whole, from the durable call that computed them;    *)
(* failures, crashes and lost answers only lose.                           *)
(***************************************************************************)
THEOREM DurableKeepsContract == Spec => KeepsContract
<1>1. Init => Contract!Init
  BY DEF Init, Contract!Init, Safe, SafeOf, Work, WorkOf
<1>2. Init => ResetInv
  BY DEF Init, ResetInv
<1>3. TypeOK /\ ResetInv /\ [Next]_vars => ResetInv'
  BY ResetStep
<1>4. TypeOK /\ ResetInv /\ [Next]_vars => [Contract!Next]_<<Safe, Work>>
  BY RequestContract, ProgressContract, FaultContract, OutageContract
     DEF Next, ContractStep
<1> QED
  BY <1>1, <1>2, <1>3, <1>4, TypeCorrect, PTL
     DEF Spec, KeepsContract, Contract!Spec

-----------------------------------------------------------------------------
(***************************************************************************)
(* What is stored for a run against what its call has computed since: the  *)
(* history a checkpoint stands for, for every number of callers, runs and  *)
(* code versions.                                                          *)
(***************************************************************************)

\* One process executes the runs.  Two that share a remote store do not
\* exclude each other: the lock is a set in the memory of a Pipeline.
OnePipeline == \A p, q \in Pipes : p = q

-----------------------------------------------------------------------------
(* Prefixes.                                                               *)

\* A checkpoint advances to itself.
LEMMA AdvancesToItself ==
    ASSUME NEW old, NEW new, new.source = old.source, new.trail = old.trail,
           old.trail \in Trails
    PROVE  Advances(old, new)
<1>1. Len(old.trail) \in Nat
  BY LenProperties DEF Trails
<1>2. SubSeq(old.trail, 1, Len(old.trail)) = old.trail
  BY SubSeqFull DEF Trails
<1> QED
  BY <1>1, <1>2 DEF Advances

\* A prefix of a trail is one of the trail with a stage or block more.
LEMMA AdvancesByOne ==
    ASSUME NEW old, NEW mid, NEW new, Advances(old, mid),
           old.trail \in Trails, mid.trail \in Trails,
           new.source = mid.source,
           NEW nodes \in SUBSET Nodes, new.trail = Append(mid.trail, nodes)
    PROVE  Advances(old, new)
<1> DEFINE s == mid.trail
<1> DEFINE n == Len(old.trail)
<1>1. s \in Seq(SUBSET Nodes) /\ Len(s) \in Nat /\ n \in Nat /\ n <= Len(s)
  BY LenProperties DEF Trails, Advances
<1>2. old.trail = SubSeq(s, 1, n)
  BY DEF Advances
<1>3. new.trail = s \o <<nodes>> /\ Len(new.trail) = Len(s) + 1
  BY <1>1, AppendIsConcat, AppendProperties, SMTT(30)
<1>4. SubSeq(new.trail, 1, n) = SubSeq(s, 1, n)
  <2>1. CASE n = 0
    <3>1. SubSeq(new.trail, 1, 0) = <<>> /\ SubSeq(s, 1, 0) = <<>>
      BY SubSeqEmpty
    <3> QED
      BY <2>1, <3>1
  <2>2. CASE n # 0
    <3>1. 1 \in 1..Len(s) /\ n \in 1..Len(s)
      BY <1>1, <2>2
    <3>2. <<nodes>> \in Seq(SUBSET Nodes)
      OBVIOUS
    <3> HIDE DEF s, n
    <3> QED
      BY <1>1, <1>3, <3>1, <3>2, SubSeqOfConcat1
  <2> QED
    BY <2>1, <2>2
<1>5. n <= Len(new.trail)
  BY <1>1, <1>3
<1>6. new.source = old.source
  BY DEF Advances
<1> QED
  BY <1>2, <1>4, <1>5, <1>6 DEF Advances

-----------------------------------------------------------------------------
(* Who writes the store.                                                   *)

\* A durable call that has something to save.
Holds(c) == pc[c] \in {"run", "fork", "rewrite"} /\ job[c].durable

\* A step of c leaves the store alone but for the run c has locked, whose
\* checkpoint it drops or replaces by what c holds.
Writes(c) ==
    \A r \in Runs :
        \/ store'[r] = store[r]
        \/ /\ Locked(c) /\ r = job[c].run
           /\ store'[r] = Nothing \/ (Holds(c) /\ store'[r] = Record(c))

LEMMA EffectWrites ==
    ASSUME TypeOK, NEW c \in Calls,
           AtStore(c) \/ (pc[c] = "run" /\ Op(c) = "end" /\ job[c].durable),
           store' = Effect(c)
    PROVE  Writes(c)
<1>1. store \in Stores /\ job[c].run \in Runs
  BY DEF TypeOK, Stores, AtStore, Jobs
<1>2. pc[c] \in {"reset", "rewrite"} => job[c].durable
  BY DEF TypeOK
<1> QED
  BY <1>1, <1>2 DEF Writes, Holds, Locked, Effect, AtStore, Stores

\* All a step of c does to the store is the operation c is at.
LEMMA CallEffect ==
    ASSUME NEW c \in Calls, Request(c) \/ Progress(c) \/ Fault(c)
    PROVE  \/ store' = store
           \/ /\ AtStore(c) \/ (pc[c] = "run" /\ Op(c) = "end" /\ job[c].durable)
              /\ store' = Effect(c)
<1>1. CASE Request(c)
  BY <1>1 DEF Request, Invoke, Resume, Replay, Begin
<1>2. CASE Progress(c)
  BY <1>2 DEF Progress, Reset, Load, LoadFails, ReplayLoad, ReplayFails,
              Rewrite, Save, Advance, StageReturns, RouteFails,
              StartBranches, BranchEnds, Merge, Finish, AtStore
<1>3. CASE Fault(c)
  BY <1>3 DEF Fault, StageFails, BranchFails, MergeFails, StoreFails, Cancel,
              Lost
<1> QED
  BY <1>1, <1>2, <1>3

LEMMA CallWrites ==
    ASSUME TypeOK, NEW c \in Calls, Request(c) \/ Progress(c) \/ Fault(c)
    PROVE  Writes(c)
<1>1. store' = store => Writes(c)
  BY DEF Writes
<1> QED
  BY <1>1, CallEffect, EffectWrites

\* A step of a call changes no other call, and no code.
LEMMA CallAlone ==
    ASSUME TypeOK, NEW c \in Calls, Request(c) \/ Progress(c) \/ Fault(c)
    PROVE  Others(c) /\ version' = version
<1>1. CASE Request(c)
  BY <1>1 DEF Request, Invoke, Resume, Replay, Begin, Others, TypeOK
<1>2. CASE Progress(c)
  BY <1>2 DEF Progress, Reset, Load, LoadFails, ReplayLoad, ReplayFails,
              Rewrite, Save, Advance, StageReturns, RouteFails,
              StartBranches, BranchEnds, Merge, Finish, Fail, End, control,
              Others, TypeOK
<1>3. CASE Fault(c)
  BY <1>3 DEF Fault, StageFails, BranchFails, MergeFails, StoreFails, Cancel,
              Fail, End, Others, TypeOK
<1> QED
  BY <1>1, <1>2, <1>3

\* A call begins with nothing to save, and has nothing to save when it ends.
LEMMA BeginsAndEndsEmpty ==
    ASSUME TypeOK, NEW c \in Calls, Request(c) \/ Fault(c)
    PROVE  ~Holds(c)' /\ pc'[c] # "fork"
<1>1. CASE Request(c)
  <2>1. IsDurable[PipeOf[c]] \in BOOLEAN
    BY CallsUsePipes, DurableFlags
  <2>2. PICK r \in Runs, durable \in BOOLEAN, step \in FromSteps \cup {NoStep},
             phase \in {"reset", "run", "load", "replay"} :
                /\ Begin(c, r, durable, step, phase)
                /\ phase = "run" => ~durable
    BY <1>1, <2>1 DEF Request, Invoke, Resume, Replay
  <2> QED
    BY <2>2 DEF Begin, Holds, TypeOK
<1>2. CASE Fault(c)
  <2>1. End(c)
    BY <1>2 DEF Fault, StageFails, BranchFails, MergeFails, StoreFails, Cancel,
                Fail
  <2> QED
    BY <2>1 DEF End, Holds, TypeOK
<1> QED
  BY <1>1, <1>2

LEMMA OutageWrites ==
    ASSUME TypeOK, Outage \/ OrphanEnds \/ UNCHANGED vars
    PROVE  \A r \in Runs : store'[r] = store[r] \/ store'[r] = Nothing
BY DEF Outage, Crash, Expire, OrphanEnds, vars, TypeOK

\* The lock: the checkpoint of a durable call is not written by another one.
LEMMA StoreOfOne ==
    ASSUME OnePipeline, SingleFlight, NEW c \in Calls, NEW d \in Calls, c # d,
           Locked(c), Holds(d)
    PROVE  job[c].run # job[d].run
<1>1. Locked(d)
  BY DEF Holds, Locked
<1>2. PipeOf[c] = PipeOf[d]
  BY CallsUsePipes DEF OnePipeline
<1> QED
  BY <1>1, <1>2 DEF SingleFlight

-----------------------------------------------------------------------------
(* What is stored is a past of what its call holds.                        *)

PastOf(c) ==
    (Holds(c) /\ store[job[c].run] # Nothing)
        => Advances(store[job[c].run], Record(c))

PastInv == \A c \in Calls : PastOf(c)

\* Whatever a step of c does, the other calls still hold a future of what is
\* stored for them.
LEMMA OthersPast ==
    ASSUME OnePipeline, TypeOK, SingleFlight, PastInv,
           NEW c \in Calls, Writes(c), Others(c), PastOf(c)'
    PROVE  PastInv'
<1> SUFFICES ASSUME NEW d \in Calls, d # c PROVE PastOf(d)'
  BY DEF PastInv
<1>1. /\ Holds(d)' <=> Holds(d)
      /\ job'[d] = job[d]
      /\ Record(d)'.source = Record(d).source
      /\ Record(d)'.trail = Record(d).trail
  BY DEF Others, Holds, Record
<1>2. Holds(d) => job[d].run \in Runs
  BY DEF Holds, TypeOK, Jobs
<1>3. Holds(d) => store'[job[d].run] = store[job[d].run]
  BY <1>2, StoreOfOne DEF Writes
<1>4. PastOf(d)
  BY DEF PastInv
<1> QED
  BY <1>1, <1>3, <1>4 DEF PastOf, Advances

\* A call that leaves its values alone, and stores them or nothing.
LEMMA SamePast ==
    ASSUME TypeOK, PastInv, NEW c \in Calls, Writes(c),
           Holds(c), Holds(c)', job'[c] = job[c],
           source'[c] = source[c], conf'[c].trail = conf[c].trail
    PROVE  PastOf(c)'
<1>1. /\ Record(c)'.source = Record(c).source
      /\ Record(c)'.trail = Record(c).trail
  BY DEF Record
<1>2. job[c].run \in Runs
  BY DEF Holds, TypeOK, Jobs
<1>3. Record(c).trail \in Trails
  BY DEF Holds, Record, TypeOK, Configurations
<1>4. CASE store'[job[c].run] = store[job[c].run]
  BY <1>1, <1>4 DEF PastInv, PastOf, Advances
<1>5. CASE store'[job[c].run] = Nothing
  BY <1>5 DEF PastOf
<1>6. CASE store'[job[c].run] = Record(c)
  BY <1>1, <1>3, <1>6, AdvancesToItself DEF PastOf
<1> QED
  BY <1>2, <1>4, <1>5, <1>6 DEF Writes

\* A call that continues from the checkpoint it has read.
LEMMA LoadedPast ==
    ASSUME TypeOK, NEW c \in Calls, job[c].run \in Runs, store' = store,
           job'[c] = job[c], store[job[c].run] # Nothing,
           source'[c] = store[job[c].run].source,
           conf'[c].trail = store[job[c].run].trail
    PROVE  PastOf(c)'
<1>1. store[job[c].run].trail \in Trails
  BY DEF TypeOK, Checkpoints
<1>2. /\ Record(c)'.source = store[job[c].run].source
      /\ Record(c)'.trail = store[job[c].run].trail
  BY DEF Record
<1>3. store'[job'[c].run] = store[job[c].run]
  OBVIOUS
<1>4. Advances(store[job[c].run], Record(c)')
  BY <1>1, <1>2, AdvancesToItself
<1> QED
  BY <1>3, <1>4 DEF PastOf

LEMMA ProgressPast ==
    ASSUME TypeOK, PastInv, NEW c \in Calls, Progress(c), Writes(c)
    PROVE  PastOf(c)'
<1>1. CASE Reset(c)
  <2>1. job[c].run \in Runs /\ store' = [store EXCEPT ![job[c].run] = Nothing]
        /\ job'[c] = job[c]
    BY <1>1 DEF Reset, Effect, TypeOK, Jobs, control
  <2> QED
    BY <2>1 DEF PastOf, TypeOK
<1>2. CASE Load(c)
  BY <1>2, LoadedPast DEF Load, Restorable, TypeOK, Jobs, control
<1>3. CASE ReplayLoad(c)
  <2>1. pc'[c] = "load" \/ pc'[c] = "rewrite"
    BY <1>3 DEF ReplayLoad, TypeOK
  <2>2. CASE pc'[c] = "load"
    BY <2>2 DEF PastOf, Holds
  <2>3. CASE pc'[c] = "rewrite"
    BY <1>3, <2>3, LoadedPast DEF ReplayLoad, TypeOK, Jobs, control
  <2> QED
    BY <2>1, <2>2, <2>3
<1>4. CASE LoadFails(c) \/ ReplayFails(c) \/ RouteFails(c) \/ Finish(c)
           \/ Rewrite(c)
  <2>1. pc'[c] \in {"idle", "load"}
    BY <1>4 DEF LoadFails, ReplayFails, RouteFails, Finish, Rewrite, Fail, End,
                TypeOK
  <2> QED
    BY <2>1 DEF PastOf, Holds
<1>5. CASE Save(c) \/ StartBranches(c) \/ \E b \in Nodes : BranchEnds(c, b)
  <2>1. /\ Holds(c)' <=> Holds(c)
        /\ job'[c] = job[c] /\ source'[c] = source[c]
        /\ conf[c] \in Configurations
        /\ conf'[c] = conf[c] \/ conf'[c] = Skip(conf[c])
    BY <1>5 DEF Save, StartBranches, BranchEnds, Holds, TypeOK, control
  <2>2. conf'[c].trail = conf[c].trail
    BY <2>1 DEF Skip, Configurations
  <2>3. ~Holds(c)' => PastOf(c)'
    BY DEF PastOf
  <2> QED
    BY <2>1, <2>2, <2>3, SamePast
<1>6. CASE Advance(c) \/ StageReturns(c) \/ Merge(c)
  <2>1. PICK k \in After(VersionOf(c), conf[c]) : conf' = [conf EXCEPT ![c] = k]
    BY <1>6 DEF Advance, StageReturns, Merge
  <2>2. /\ conf[c] \in Configurations /\ VersionOf(c) \in Versions
        /\ conf'[c] = k /\ store' = store /\ source'[c] = source[c]
        /\ job'[c] = job[c]
        /\ Holds(c)' <=> Holds(c)
    BY <1>6, <2>1, CallsUsePipes
       DEF Advance, StageReturns, Merge, TypeOK, VersionOf, control, Holds
  <2>3. CASE k.trail = conf[c].trail
    <3>1. ~Holds(c)' => PastOf(c)'
      BY DEF PastOf
    <3> QED
      BY <2>2, <2>3, <3>1, SamePast
  <2>4. ASSUME NEW nodes \in SUBSET Nodes, k.trail = Append(conf[c].trail, nodes),
               Holds(c)', store'[job'[c].run] # Nothing
        PROVE  Advances(store'[job'[c].run], Record(c)')
    <3>1. Advances(store[job[c].run], Record(c))
      BY <2>2, <2>4 DEF PastInv, PastOf
    <3>2. /\ Record(c)'.source = Record(c).source
          /\ Record(c)'.trail = Append(Record(c).trail, nodes)
          /\ Record(c).trail \in Trails
      BY <2>2, <2>4 DEF Record, Configurations
    <3>3. store[job[c].run].trail \in Trails
      BY <2>2, <2>4 DEF Holds, TypeOK, Jobs, Checkpoints
    <3> QED
      BY <2>2, <3>1, <3>2, <3>3, AdvancesByOne
  <2> QED
    BY <2>1, <2>2, <2>3, <2>4, AfterTrail DEF PastOf
<1> QED
  BY <1>1, <1>2, <1>3, <1>4, <1>5, <1>6 DEF Progress

LEMMA PastStep ==
    ASSUME OnePipeline, TypeOK, SingleFlight, PastInv, [Next]_vars
    PROVE  PastInv'
<1>1. ASSUME NEW c \in Calls, Request(c) \/ Fault(c) PROVE PastInv'
  BY <1>1, CallAlone, BeginsAndEndsEmpty, CallWrites, OthersPast DEF PastOf
<1>2. ASSUME NEW c \in Calls, Progress(c) PROVE PastInv'
  BY <1>2, CallAlone, CallWrites, ProgressPast, OthersPast
<1>3. CASE Outage \/ OrphanEnds \/ UNCHANGED vars
  <2> SUFFICES ASSUME NEW d \in Calls PROVE PastOf(d)'
    BY DEF PastInv
  <2>1. /\ Holds(d)' => Holds(d)
        /\ Holds(d)' => /\ job'[d] = job[d] /\ conf'[d] = conf[d]
                        /\ source'[d] = source[d]
    BY <1>3 DEF Outage, Crash, Expire, OrphanEnds, vars, control, Holds
  <2>2. Holds(d)' => /\ Record(d)'.source = Record(d).source
                     /\ Record(d)'.trail = Record(d).trail
    BY <2>1 DEF Record
  <2>3. Holds(d) => job[d].run \in Runs
    BY DEF Holds, TypeOK, Jobs
  <2>4. PastOf(d)
    BY DEF PastInv
  <2> QED
    BY <1>3, <2>1, <2>2, <2>3, <2>4, OutageWrites DEF PastOf, Advances
<1> QED
  BY <1>1, <1>2, <1>3 DEF Next

\* The invariant of a Pipeline in one process.
LEMMA PastCorrect ==
    ASSUME OnePipeline
    PROVE  Spec => []PastInv
<1>1. Init => PastInv
  BY DEF Init, PastInv, PastOf, Holds
<1>2. TypeOK /\ SingleFlight /\ PastInv /\ [Next]_vars => PastInv'
  BY PastStep
<1> QED
  BY <1>1, <1>2, TypeCorrect, LockCorrect, PTL DEF Spec

(***************************************************************************)
(* In one process, however calls interleave, fail and resume: what is      *)
(* stored for a run has the initial values of the call that executes it    *)
(* and a prefix of its stages.                                             *)
(***************************************************************************)
THEOREM StoredIsPastHolds ==
    ASSUME OnePipeline
    PROVE  Spec => []StoredIsPast
<1>1. PastInv => StoredIsPast
  BY DEF PastInv, PastOf, StoredIsPast, InProgress, Holds, Advances, Record
<1> QED
  BY <1>1, PastCorrect, PTL

(***************************************************************************)
(* In one process a checkpoint that is not dropped only moves forward: no  *)
(* interleaving overwrites the progress of a run with an older or another  *)
(* run's values.                                                           *)
(***************************************************************************)
THEOREM CheckpointsAdvance ==
    ASSUME OnePipeline
    PROVE  Spec => CheckpointAdvances
<1> DEFINE Forward ==
        \A r \in Runs : (store[r] # Nothing /\ store'[r] # Nothing) =>
                            Advances(store[r], store'[r])
<1>1. ASSUME TypeOK, PastInv, [Next]_vars PROVE Forward
  <2> SUFFICES ASSUME NEW r \in Runs, store[r] # Nothing, store'[r] # Nothing
               PROVE  Advances(store[r], store'[r])
    OBVIOUS
  <2>1. \/ store'[r] \in {store[r], Nothing}
        \/ \E c \in Calls : Writes(c)
    BY <1>1, CallWrites, OutageWrites DEF Next
  <2>2. CASE store'[r] = store[r]
    <3>1. store[r].trail \in Trails
      BY <1>1 DEF TypeOK, Checkpoints
    <3> QED
      BY <2>2, <3>1, AdvancesToItself
  <2>3. ASSUME NEW c \in Calls, Holds(c), r = job[c].run, store'[r] = Record(c)
        PROVE  Advances(store[r], store'[r])
    BY <1>1, <2>3 DEF PastInv, PastOf
  <2> QED
    BY <2>1, <2>2, <2>3 DEF Writes
<1>2. TypeOK /\ PastInv /\ [Next]_vars => [Forward]_vars
  BY <1>1
<1> QED
  BY <1>2, PastCorrect, TypeCorrect, PTL DEF Spec, CheckpointAdvances

-----------------------------------------------------------------------------
(* A CALL finds the checkpoint of its own context, with a store in memory. *)

Saved(c) ==
    LET stored == store[job[c].run]
    IN  /\ stored # Nothing
        /\ stored.version = VersionOf(c)
        /\ stored.trail = conf[c].trail
        /\ stored.source = source[c]
        /\ stored.ip <= conf[c].ip

SavedOf(c) ==
    (/\ pc[c] = "run" /\ job[c].durable
     /\ conf[c].ip \in Checkpointed(VersionOf(c))) => Saved(c)

\* The branches of a FORK run while the call stands at it.
AtFork(c) == pc[c] = "fork" => Op(c) = "fork"

SavedInv == \A c \in Calls : SavedOf(c) /\ AtFork(c)

\* How such an address is reached from the one before it.
LEMMA CheckpointedBefore ==
    ASSUME NEW v \in Versions, NEW ip \in Ips, ip + 1 \in Checkpointed(v)
    PROVE  /\ ip \in DOMAIN Code[v]
           /\ Code[v][ip].op \in {"checkpoint", "emit", "validate_input"}
           /\ Code[v][ip].op # "checkpoint" => ip \in Checkpointed(v)
<1>1. /\ DOMAIN Code[v] = 1..Len(Code[v]) /\ Len(Code[v]) \in Nat
      /\ ip \in DOMAIN Code[v]
  BY CodeTyped DEF Checkpointed, Ips
<1>2. PICK q \in 1..ip :
        /\ Code[v][q].op = "checkpoint"
        /\ \A j \in (q + 1)..ip : Code[v][j].op \in {"emit", "validate_input"}
  BY DEF Checkpointed, Ips
<1>3. CASE q = ip
  BY <1>1, <1>2, <1>3
<1>4. CASE q # ip
  <2>1. q \in 1..(ip - 1) /\ ip \in (q + 1)..ip
    BY <1>2, <1>4 DEF Ips
  <2>2. \A j \in (q + 1)..(ip - 1) : j \in (q + 1)..ip
    BY DEF Ips
  <2> QED
    BY <1>1, <1>2, <2>1, <2>2 DEF Checkpointed
<1> QED
  BY <1>3, <1>4

\* One step of the interpreter to such an address comes from the CHECKPOINT,
\* or from another one without changing the context.
LEMMA AfterCheckpointed ==
    ASSUME CallsAreCheckpointed, NEW v \in Versions, NEW k \in Configurations,
           NEW new \in After(v, k), new.ip \in Checkpointed(v),
           OpAt(v, k) # "checkpoint"
    PROVE  /\ k.ip \in Checkpointed(v)
           /\ new.trail = k.trail /\ k.ip <= new.ip
           /\ OpAt(v, k) \in {"emit", "validate_input"}
<1> DEFINE i == InstrAt(v, k)
<1>0. k.ip \in Ips /\ k.ip + 1 \in Ips
  BY DEF Configurations, Ips
<1>1. OpAt(v, k) # "end" /\ k.ip \in DOMAIN Code[v] /\ i.op = OpAt(v, k)
  BY CodeTyped DEF OpAt, InstrAt, Configurations, Ips, After
<1>2. CASE new = Skip(k)
  <2>1. new.ip = k.ip + 1 /\ new.trail = k.trail
    BY <1>2 DEF Skip, Configurations
  <2> QED
    BY <1>0, <1>1, <2>1, CheckpointedBefore DEF InstrAt, Ips
<1>3. CASE OpAt(v, k) = "call"
  <2>1. new.ip = k.ip + 1
    BY <1>3 DEF After, AfterCall
  <2> QED
    BY <1>0, <1>1, <1>3, <2>1, CheckpointedBefore DEF InstrAt
<1>4. CASE OpAt(v, k) = "route"
  <2>1. \E r \in DOMAIN i.targets : new.ip = i.targets[r]
    BY <1>4 DEF After, AfterRoute
  <2> QED
    BY <1>1, <1>4, <2>1 DEF CallsAreCheckpointed, InstrAt
<1>5. CASE OpAt(v, k) = "jump"
  <2>1. new.ip = i.target
    BY <1>5 DEF After, Configurations
  <2> QED
    BY <1>1, <1>5, <2>1 DEF CallsAreCheckpointed, InstrAt
<1>6. CASE OpAt(v, k) = "fork" /\ new # Skip(k)
  <2>1. new.ip = k.ip + 2 /\ OpAt(v, Skip(k)) = "join"
    BY <1>6 DEF After, AfterFork
  <2>2. Skip(k).ip = k.ip + 1 /\ k.ip + 2 = (k.ip + 1) + 1
    BY <1>0 DEF Skip, Configurations, Ips
  <2>3. /\ k.ip + 1 \in DOMAIN Code[v]
        /\ Code[v][k.ip + 1].op \in {"checkpoint", "emit", "validate_input"}
    BY <1>0, <2>1, <2>2, CheckpointedBefore
  <2> QED
    BY <2>1, <2>2, <2>3 DEF OpAt, InstrAt
<1> QED
  BY <1>1, <1>2, <1>3, <1>4, <1>5, <1>6 DEF After

LEMMA OthersSaved ==
    ASSUME OnePipeline, TypeOK, SingleFlight, SavedInv,
           NEW c \in Calls, Writes(c), Others(c), version' = version,
           SavedOf(c)', AtFork(c)'
    PROVE  SavedInv'
<1> SUFFICES ASSUME NEW d \in Calls, d # c PROVE SavedOf(d)' /\ AtFork(d)'
  BY DEF SavedInv
<1>1. /\ pc'[d] = pc[d] /\ job'[d] = job[d] /\ conf'[d] = conf[d]
      /\ source'[d] = source[d] /\ VersionOf(d)' = VersionOf(d)
  BY DEF Others, VersionOf
<1>2. AtFork(d)'
  BY <1>1 DEF SavedInv, AtFork, Op
<1>3. CASE pc[d] = "run" /\ job[d].durable
  <2>1. job[d].run \in Runs /\ Holds(d)
    BY <1>3 DEF Holds, TypeOK, Jobs
  <2>2. store'[job[d].run] = store[job[d].run]
    BY <2>1, StoreOfOne DEF Writes
  <2> QED
    BY <1>1, <1>2, <2>2 DEF SavedInv, SavedOf, Saved
<1> QED
  BY <1>1, <1>2, <1>3 DEF SavedOf

LEMMA ProgressSaved ==
    ASSUME CallsAreCheckpointed, TypeOK, ResetInv, SavedInv,
           NEW c \in Calls, Progress(c)
    PROVE  SavedOf(c)' /\ AtFork(c)'
<1>0. VersionOf(c) \in Versions
  BY CallsUsePipes DEF TypeOK, VersionOf
<1>9. AtFork(c)'
  BY DEF Progress, Reset, Load, LoadFails, ReplayLoad, ReplayFails,
         Rewrite, Save, Advance, StageReturns, RouteFails, StartBranches,
         BranchEnds, Merge, Finish, Fail, End, control, TypeOK, SavedInv,
         AtFork, Op, VersionOf
<1> SUFFICES SavedOf(c)'
  BY <1>9
<1>1. CASE Reset(c)
  <2>1. conf'[c].ip = 1 /\ VersionOf(c)' = VersionOf(c)
    BY <1>1 DEF Reset, control, VersionOf, ResetInv, Entry
  <2>2. 1 \notin Checkpointed(VersionOf(c))
    BY DEF Checkpointed
  <2> QED
    BY <2>1, <2>2 DEF SavedOf
<1>2. CASE Load(c)
  <2> DEFINE stored == store[job[c].run]
  <2>1. /\ stored # Nothing /\ stored \in Checkpoints
        /\ stored.version = VersionOf(c)
    BY <1>2 DEF Load, Restorable, TypeOK, Jobs
  <2>2. /\ store' = store /\ job' = job /\ VersionOf(c)' = VersionOf(c)
        /\ conf'[c].ip = stored.ip /\ conf'[c].trail = stored.trail
        /\ source'[c] = stored.source
    BY <1>2 DEF Load, control, VersionOf, TypeOK
  <2>3. stored.ip <= stored.ip
    BY <2>1 DEF Checkpoints, Ips
  <2> QED
    BY <2>1, <2>2, <2>3 DEF SavedOf, Saved
<1>3. CASE Save(c)
  <2>1. job[c].run \in Runs /\ conf[c] \in Configurations
    BY <1>3 DEF Save, TypeOK, Jobs
  <2>2. Record(c) \in Checkpoints
    BY <1>0, <1>3, <2>1 DEF Save, Record, TypeOK, Configurations, Checkpoints
  <2>3. store'[job[c].run] = Record(c)
    BY <1>3, <2>1 DEF Save, Effect, TypeOK
  <2>4. /\ job' = job /\ VersionOf(c)' = VersionOf(c) /\ source' = source
        /\ conf'[c].ip = conf[c].ip + 1 /\ conf'[c].trail = conf[c].trail
    BY <1>3, <2>1 DEF Save, control, VersionOf, TypeOK, Skip, Configurations
  <2>5. Record(c) # Nothing
    BY <2>2, NothingDistinct
  <2>6. conf[c].ip <= conf[c].ip + 1
    BY <2>1 DEF Configurations, Ips
  <2> QED
    BY <2>3, <2>4, <2>5, <2>6 DEF SavedOf, Saved, Record
<1>4. CASE Advance(c) \/ StageReturns(c) \/ Merge(c)
  <2>1. PICK k \in After(VersionOf(c), conf[c]) : conf' = [conf EXCEPT ![c] = k]
    BY <1>4 DEF Advance, StageReturns, Merge
  <2>2. /\ conf[c] \in Configurations /\ conf'[c] = k /\ store' = store
        /\ source' = source /\ job' = job /\ VersionOf(c)' = VersionOf(c)
        /\ pc[c] \in {"run", "fork"}
        /\ pc[c] = "fork" => Op(c) = "fork"
        /\ (job[c].durable /\ pc[c] = "run") => Op(c) # "checkpoint"
    BY <1>4, <2>1 DEF Advance, StageReturns, Merge, TypeOK, control, VersionOf,
                      SavedInv, AtFork
  <2> SUFFICES ASSUME job[c].durable, k.ip \in Checkpointed(VersionOf(c))
               PROVE  Saved(c)'
    BY <2>2 DEF SavedOf
  <2>3. Op(c) # "checkpoint"
    BY <2>2
  <2>4. /\ conf[c].ip \in Checkpointed(VersionOf(c))
        /\ k.trail = conf[c].trail /\ conf[c].ip <= k.ip
        /\ pc[c] = "run"
    BY <1>0, <2>2, <2>3, AfterCheckpointed DEF Op
  <2>5. Saved(c)
    BY <2>2, <2>4 DEF SavedInv, SavedOf
  <2>6. store[job[c].run].ip \in Nat /\ conf[c].ip \in Nat /\ k.ip \in Nat
    BY <1>0, <2>2, <2>5, AfterType
       DEF Saved, TypeOK, Jobs, Checkpoints, Configurations, Ips
  <2> QED
    BY <2>2, <2>4, <2>5, <2>6 DEF Saved
<1>5. CASE \/ LoadFails(c) \/ ReplayFails(c) \/ RouteFails(c) \/ Finish(c)
           \/ Rewrite(c) \/ ReplayLoad(c) \/ StartBranches(c)
           \/ \E b \in Nodes : BranchEnds(c, b)
  <2>1. pc'[c] # "run"
    BY <1>5 DEF LoadFails, ReplayFails, RouteFails, Finish, Rewrite, ReplayLoad,
                StartBranches, BranchEnds, Fail, End, TypeOK
  <2> QED
    BY <2>1 DEF SavedOf
<1> QED
  BY <1>1, <1>2, <1>3, <1>4, <1>5 DEF Progress
LEMMA SavedStep ==
    ASSUME ~Remote, CallsAreCheckpointed, TypeOK, SingleFlight, ResetInv,
           SavedInv, [Next]_vars
    PROVE  SavedInv'
<1>0. OnePipeline
  BY MemoryIsLocal DEF OnePipeline
<1>1. ASSUME NEW c \in Calls, Request(c) \/ Fault(c) PROVE SavedInv'
  BY <1>0, <1>1, CallAlone, BeginsAndEndsEmpty, CallWrites, OthersSaved
     DEF SavedOf, AtFork, Holds
<1>2. ASSUME NEW c \in Calls, Progress(c) PROVE SavedInv'
  BY <1>0, <1>2, CallAlone, CallWrites, ProgressSaved, OthersSaved
<1>3. CASE Outage
  <2>1. PICK p \in Pipes, v \in Versions : Crash(p, v)
    BY <1>3 DEF Outage, Expire
  <2>2. \A c \in Calls : pc'[c] = "idle"
    BY <1>0, <2>1, CallsUsePipes DEF Crash, OnePipeline
  <2> QED
    BY <2>2 DEF SavedInv, SavedOf, AtFork
<1>4. CASE OrphanEnds \/ UNCHANGED vars
  BY <1>4 DEF OrphanEnds, vars, SavedInv, SavedOf, Saved, AtFork, Op, VersionOf
<1> QED
  BY <1>1, <1>2, <1>3, <1>4 DEF Next

(***************************************************************************)
(* With the store in memory, and code whose CALLs a CHECKPOINT precedes:   *)
(* whatever else runs, fails and is replayed, a stage of a durable call    *)
(* starts with exactly the context that is stored for its run.             *)
(***************************************************************************)
THEOREM CallsAreResumable ==
    ASSUME ~Remote, CallsAreCheckpointed
    PROVE  Spec => []CallIsCheckpointed
<1>1. Init => ResetInv /\ SavedInv
  BY DEF Init, ResetInv, SavedInv, SavedOf, AtFork
<1>2. TypeOK /\ ResetInv /\ [Next]_vars => ResetInv'
  BY ResetStep
<1>3. TypeOK /\ SingleFlight /\ ResetInv /\ SavedInv /\ [Next]_vars => SavedInv'
  BY SavedStep
<1>4. TypeOK /\ SavedInv => CallIsCheckpointed
  <2> SUFFICES ASSUME TypeOK, SavedInv, NEW c \in Calls,
                      pc[c] = "run", job[c].durable, Op(c) = "call"
               PROVE  Saved(c)
    BY DEF CallIsCheckpointed, Saved
  <2>1. VersionOf(c) \in Versions /\ conf[c].ip \in Ips
    BY CallsUsePipes DEF TypeOK, VersionOf, Configurations
  <2>2. /\ conf[c].ip \in DOMAIN Code[VersionOf(c)]
        /\ Code[VersionOf(c)][conf[c].ip].op = "call"
    BY <2>1, CodeTyped DEF Op, OpAt, InstrAt, Ips
  <2> QED
    BY <2>1, <2>2 DEF CallsAreCheckpointed, SavedInv, SavedOf
<1> QED
  BY <1>1, <1>2, <1>3, <1>4, TypeCorrect, LockCorrect, PTL DEF Spec

-----------------------------------------------------------------------------
(* Values stay with the code that computed them.                           *)

\* Without replay(from_step) nothing is saved under another version.
SameCodeInv ==
    /\ \A c \in Calls :
        /\ pc[c] \in {"reset", "run", "fork"} => source[c].version = VersionOf(c)
        /\ pc[c] # "rewrite"
    /\ \A r \in Runs :
        store[r] # Nothing => store[r].version = store[r].source.version

LEMMA SameCodeCall ==
    ASSUME FromSteps = {}, TypeOK, SameCodeInv,
           NEW c \in Calls, Request(c) \/ Progress(c) \/ Fault(c)
    PROVE  /\ pc'[c] \in {"reset", "run", "fork"} =>
                  source'[c].version = VersionOf(c)
           /\ pc'[c] # "rewrite"
<1>1. CASE Request(c)
  <2>1. CASE \E r \in Runs, input \in Inputs : Invoke(c, r, input)
    BY <2>1 DEF Invoke, Begin, TypeOK
  <2>2. CASE \E r \in Runs :
                 \/ Resume(c, r)
                 \/ \E step \in FromSteps \cup {NoStep} : Replay(c, r, step)
    BY <2>2 DEF Resume, Replay, Begin, TypeOK
  <2> QED
    BY <1>1, <2>1, <2>2 DEF Request
<1>2. CASE Load(c)
  <2>1. /\ store[job[c].run] # Nothing
        /\ store[job[c].run].version = VersionOf(c) /\ job[c].run \in Runs
        /\ source'[c] = store[job[c].run].source /\ pc'[c] = "run"
    BY <1>2 DEF Load, Restorable, TypeOK, Jobs
  <2> QED
    BY <2>1 DEF SameCodeInv
<1>3. CASE ReplayLoad(c)
  <2>1. job[c].step = NoStep
    BY <1>3 DEF ReplayLoad, TypeOK, Jobs
  <2> QED
    BY <1>3, <2>1 DEF ReplayLoad, TypeOK
<1>4. CASE \/ Reset(c) \/ Save(c) \/ Advance(c) \/ StageReturns(c)
           \/ StartBranches(c) \/ Merge(c) \/ \E b \in Nodes : BranchEnds(c, b)
  BY <1>4 DEF Reset, Save, Advance, StageReturns, StartBranches, Merge,
              BranchEnds, control, TypeOK, SameCodeInv
<1>5. CASE LoadFails(c) \/ ReplayFails(c) \/ RouteFails(c) \/ Finish(c)
           \/ Fault(c)
  BY <1>5 DEF LoadFails, ReplayFails, RouteFails, Finish, Fault, StageFails,
              BranchFails, MergeFails, StoreFails, Cancel, Fail, End, TypeOK
<1>6. ~Rewrite(c)
  BY DEF Rewrite, SameCodeInv
<1> QED
  BY <1>1, <1>2, <1>3, <1>4, <1>5, <1>6 DEF Progress

LEMMA SameCodeStep ==
    ASSUME FromSteps = {}, TypeOK, SameCodeInv, [Next]_vars
    PROVE  SameCodeInv'
<1>1. ASSUME NEW c \in Calls, Request(c) \/ Progress(c) \/ Fault(c)
      PROVE  SameCodeInv'
  <2>1. Others(c) /\ version' = version
    BY <1>1, CallAlone
  <2>2. ASSUME NEW d \in Calls
        PROVE  /\ pc'[d] \in {"reset", "run", "fork"} =>
                      source'[d].version = VersionOf(d)'
               /\ pc'[d] # "rewrite"
    <3>1. VersionOf(d)' = VersionOf(d)
      BY <2>1 DEF VersionOf
    <3> QED
      BY <1>1, <2>1, <3>1, SameCodeCall DEF Others, SameCodeInv
  <2>3. ASSUME NEW r \in Runs, store'[r] # Nothing
        PROVE  store'[r].version = store'[r].source.version
    <3>1. CASE store'[r] = store[r]
      BY <2>3, <3>1 DEF SameCodeInv
    <3>2. CASE Holds(c) /\ store'[r] = Record(c)
      BY <3>2 DEF Holds, Record, SameCodeInv
    <3> QED
      BY <1>1, <2>3, <3>1, <3>2, CallWrites DEF Writes
  <2> QED
    BY <2>2, <2>3 DEF SameCodeInv
<1>2. CASE Outage \/ OrphanEnds \/ UNCHANGED vars
  <2>1. \A r \in Runs : store'[r] = store[r] \/ store'[r] = Nothing
    BY <1>2, OutageWrites
  <2>2. \A c \in Calls :
            \/ pc'[c] = "idle"
            \/ /\ pc'[c] = pc[c] /\ source'[c] = source[c]
               /\ VersionOf(c)' = VersionOf(c)
    BY <1>2, CallsUsePipes
       DEF Outage, Crash, Expire, OrphanEnds, vars, control, VersionOf, TypeOK
  <2> QED
    BY <2>1, <2>2 DEF SameCodeInv
<1> QED
  BY <1>1, <1>2 DEF Next

(***************************************************************************)
(* However processes crash, are deployed again with other code and share a *)
(* store: without replay(from_step), what one version of the code computed *)
(* is never continued by another.                                          *)
(***************************************************************************)
THEOREM CodeIsNeverStale ==
    ASSUME FromSteps = {}
    PROVE  Spec => []NoStaleCode
<1>1. Init => SameCodeInv
  BY DEF Init, SameCodeInv
<1>2. TypeOK /\ SameCodeInv /\ [Next]_vars => SameCodeInv'
  BY SameCodeStep
<1>3. SameCodeInv => NoStaleCode
  BY DEF SameCodeInv, NoStaleCode, InProgress
<1> QED
  BY <1>1, <1>2, <1>3, TypeCorrect, PTL DEF Spec
=============================================================================
