---------------------------- MODULE DurableProps ----------------------------
(***************************************************************************)
(* What durable execution promises.                                        *)
(***************************************************************************)
EXTENDS Durable

CONSTANT Legal      \* version -> the configurations of uninterrupted runs

\* Legal[v] holds the entry and whatever a step can reach from it.
ASSUME LegalClosed ==
    \A v \in Versions : /\ Entry \in Legal[v]
                        /\ \A k \in Legal[v] : After(v, k) \subseteq Legal[v]

\* Instructions name nodes, routes and addresses; stages return known routes;
\* "end" is not an instruction.
ASSUME CodeTyped ==
    \A v \in Versions :
        /\ Len(Code[v]) \in Nat
        /\ DOMAIN Code[v] = 1..Len(Code[v])
        /\ \A ip \in DOMAIN Code[v] :
            LET i == Code[v][ip]
            IN  /\ i.op # "end"
                /\ i.op = "call" =>
                      i.node \in Nodes /\ Outcomes[i.node] \subseteq Routes \cup {NoRoute}
                /\ i.op = "fork" =>
                      \A b \in DOMAIN i.branches : i.branches[b] \in Nodes
                /\ i.op = "route" =>
                      \A r \in DOMAIN i.targets : i.targets[r] \in Nat \ {0}
                /\ i.op = "jump" => i.target \in Nat \ {0}

InProgress(c) == pc[c] \in {"run", "fork"}

-----------------------------------------------------------------------------
(* The type invariant.                                                     *)

Trails == Seq(SUBSET Nodes)

Ips == Nat \ {0}

Sources == [input : Inputs, version : Versions]

Checkpoints == [version : Versions, ip : Ips, trail : Trails, source : Sources]

Jobs == [run : Runs, durable : BOOLEAN, step : FromSteps \cup {NoStep}]

Configurations == [ip : Ips, trail : Trails, pending : Routes \cup {NoRoute}]

Works == [run : Runs, durable : BOOLEAN, source : Sources, trail : Trails]

Values == [source : Sources, trail : Trails]

ASSUME NothingDistinct == Nothing \notin Checkpoints \cup Works \cup Values

(***************************************************************************)
(* Types of the state; an idle call has no job, a call past its load has a *)
(* configuration and a source, and only durable calls reset or rewrite.    *)
(***************************************************************************)
TypeOK ==
    /\ version \in [Pipes -> Versions]
    /\ active \in [Pipes -> SUBSET Runs]
    /\ store \in [Runs -> Checkpoints \cup {Nothing}]
    /\ pc \in [Calls -> Phases]
    /\ job \in [Calls -> Jobs \cup {Nothing}]
    /\ conf \in [Calls -> Configurations \cup {Nothing}]
    /\ source \in [Calls -> Sources \cup {Nothing}]
    /\ running \in [Calls -> SUBSET Nodes]
    /\ orphans \in SUBSET [pipe : Pipes, run : Runs, node : Nodes]
    /\ \A c \in Calls :
        /\ pc[c] # "idle" => job[c] \in Jobs
        /\ pc[c] \in {"reset", "rewrite", "run", "fork"} =>
              conf[c] \in Configurations /\ source[c] \in Sources
        /\ pc[c] \in {"reset", "replay", "rewrite"} => job[c].durable

-----------------------------------------------------------------------------
(***************************************************************************)
(* A Pipeline executes a run id at most once at a time (RunIDInUseError):  *)
(* two durable calls of one Pipeline never work on the same run.           *)
(***************************************************************************)
SingleFlight ==
    \A c, d \in Calls :
        (/\ Locked(c) /\ Locked(d)
         /\ PipeOf[c] = PipeOf[d] /\ job[c].run = job[d].run) => c = d

(***************************************************************************)
(* The lock follows the calls: _active_runs holds the run of every durable *)
(* call in progress and nothing else, so a run id is never locked out by a *)
(* call that failed, was cancelled or lost its store.                      *)
(***************************************************************************)
LocksMatchCalls ==
    \A p \in Pipes :
        active[p] = {job[c].run : c \in {d \in Calls : PipeOf[d] = p /\ Locked(d)}}

(***************************************************************************)
(* However often a run failed, crashed and was resumed, what it has        *)
(* computed is what some uninterrupted run computes: each configuration a  *)
(* call is in, and each checkpoint it could be resumed from, is one an     *)
(* undisturbed interpreter passes through (no stage of the trail is        *)
(* missing, repeated or out of order).  Without replay(from_step=...),     *)
(* whose purpose is to leave those configurations.                         *)
(***************************************************************************)
LegalCalls ==
    \A c \in Calls :
        (InProgress(c) \/ pc[c] = "reset") => conf[c] \in Legal[VersionOf(c)]

LegalCheckpoints ==
    \A r \in Runs :
        store[r] # Nothing =>
            [ip |-> store[r].ip, trail |-> store[r].trail, pending |-> NoRoute]
                \in Legal[store[r].version]

LegalRuns == LegalCalls /\ LegalCheckpoints

\* A Send is consumed before the next checkpoint, which would not save it.
SendsAreRouted ==
    \A v \in Versions : \A k \in Legal[v] :
        OpAt(v, k) = "checkpoint" => k.pending = NoRoute

\* Addresses only a CHECKPOINT leads to, by instructions that keep the context.
Checkpointed(v) ==
    {ip \in DOMAIN Code[v] :
        \E q \in 1..(ip - 1) :
            /\ Code[v][q].op = "checkpoint"
            /\ \A j \in (q + 1)..(ip - 1) :
                    Code[v][j].op \in {"emit", "validate_input"}}

\* Every CALL is at such an address, and no ROUTE or JUMP goes to one.
CallsAreCheckpointed ==
    \A v \in Versions : \A ip \in DOMAIN Code[v] :
        LET i == Code[v][ip]
        IN  /\ i.op = "call" => ip \in Checkpointed(v)
            /\ i.op = "jump" => i.target \notin Checkpointed(v)
            /\ i.op = "route" =>
                  \A r \in DOMAIN i.targets : i.targets[r] \notin Checkpointed(v)

(***************************************************************************)
(* What is stored for a run is a past of the call that executes it: the    *)
(* same initial values, and a prefix of the stages done.  In particular a  *)
(* fresh run is never resumed into the values of the run before it.        *)
(***************************************************************************)
StoredIsPast ==
    \A c \in Calls :
        LET stored == store[job[c].run]
        IN  (InProgress(c) /\ job[c].durable /\ stored # Nothing) =>
                /\ stored.source = source[c]
                /\ Len(stored.trail) <= Len(conf[c].trail)
                /\ stored.trail = SubSeq(conf[c].trail, 1, Len(stored.trail))

(***************************************************************************)
(* When a stage starts, the checkpoint holds exactly the context it starts *)
(* with: resuming after any failure of that stage repeats it and nothing   *)
(* before it.                                                              *)
(***************************************************************************)
CallIsCheckpointed ==
    \A c \in Calls :
        LET stored == store[job[c].run]
        IN  (pc[c] = "run" /\ job[c].durable /\ Op(c) = "call") =>
                /\ stored # Nothing
                /\ stored.version = VersionOf(c)
                /\ stored.trail = conf[c].trail
                /\ stored.source = source[c]
                /\ stored.ip <= conf[c].ip

(***************************************************************************)
(* Values computed by one version of the code are never continued by       *)
(* another (CheckpointVersionError).  Without replay(from_step=...).       *)
(***************************************************************************)
NoStaleCode ==
    \A c \in Calls : InProgress(c) => source[c].version = VersionOf(c)

(***************************************************************************)
(* A checkpoint only moves forward: as long as it is not dropped, the next *)
(* one stored for the run is of the same run and has at least its stages.  *)
(***************************************************************************)
Advances(old, new) ==
    /\ new.source = old.source
    /\ Len(old.trail) <= Len(new.trail)
    /\ old.trail = SubSeq(new.trail, 1, Len(old.trail))

CheckpointAdvances ==
    [][\A r \in Runs : (store[r] # Nothing /\ store'[r] # Nothing) =>
                            Advances(store[r], store'[r])]_vars

-----------------------------------------------------------------------------
(* The contract.                                                           *)

\* Instructions, version, pending route and lock of a run are its own
\* affair.  A replay(from_step) works on its run until it has rewritten it.
SafeOf(r) ==
    IF store[r] = Nothing THEN Nothing
    ELSE [source |-> store[r].source, trail |-> store[r].trail]

WorkOf(c) ==
    IF pc[c] \in {"run", "fork", "rewrite"}
    THEN [run |-> job[c].run, durable |-> job[c].durable,
          source |-> source[c], trail |-> conf[c].trail]
    ELSE Nothing

Safe == [r \in Runs |-> SafeOf(r)]
Work == [c \in Calls |-> WorkOf(c)]

Contract == INSTANCE DurableContract WITH safe <- Safe, work <- Work

(***************************************************************************)
(* Every step of the interpreter, of replay, of the store and of a failure *)
(* is one of the few moves the contract allows, or none: however calls     *)
(* interleave, fail and crash, values reach a call only from the           *)
(* checkpoint it loads, and the store only from the call that computed     *)
(* them.                                                                   *)
(***************************************************************************)
KeepsContract == Contract!Spec

-----------------------------------------------------------------------------
(* Liveness.                                                               *)

\* The event loop runs a call that can go on; stages answer.
Fairness == \A c \in Calls : WF_vars(Progress(c))

\* The client of durable.md keeps calling invoke(resume=True) on a run.
Retries == \A r \in Runs : SF_vars(\E c \in Calls : Resume(c, r))

\* From some time on nothing fails and routers choose routes that exist.
Smooth ==
    \/ \E c \in Calls : Request(c) \/ (Progress(c) /\ ~RouteFails(c))
    \/ OrphanEnds

Calm == <>[][Smooth]_vars

(***************************************************************************)
(* Every call returns or raises: none waits for ever on a lock, a join or  *)
(* a jump.                                                                 *)
(***************************************************************************)
CallsEnd == \A c \in Calls : pc[c] # "idle" ~> pc[c] = "idle"

(***************************************************************************)
(* durable.md: a crashed run is resumed from its checkpoint.  Once nothing *)
(* fails any more and the client keeps resuming, a run with a checkpoint   *)
(* gets to its end, which deletes it: no failure, at any point, leaves a   *)
(* run that can neither go on nor be taken over.                           *)
(***************************************************************************)
ResumeCompletes ==
    Calm => \A r \in Runs : store[r] # Nothing ~> store[r] = Nothing

-----------------------------------------------------------------------------
(* What a document or a comment says and the code does not do.             *)

(***************************************************************************)
(* durable.md:17: resume=True restarts from the last checkpoint and        *)
(* replays the failing stage.  (Not for Parallel: no CHECKPOINT precedes a *)
(* FORK, so its failure repeats the stages before it, or finds nothing.)   *)
(***************************************************************************)
ForkIsCheckpointed ==
    \A c \in Calls :
        LET stored == store[job[c].run]
        IN  (pc[c] = "fork" /\ job[c].durable) =>
                stored # Nothing /\ stored.trail = conf[c].trail
=============================================================================
