--------------------------- MODULE LangGraphAdapter ---------------------------
(***************************************************************************)
(* The LangGraph adapter (adapters/langgraph.py and langgraph_v1.py) over  *)
(* a graph that other callers keep running.  Its calls are synchronous,    *)
(* but each read of the graph is a read of shared storage: one action per  *)
(* get_state and per invoke.  A call that raises changes nothing but the   *)
(* caller's own state; a manifest never changes.                           *)
(*                                                                         *)
(* External: a thread has a latest checkpoint, gets new ones as it runs,   *)
(* and loses old ones.  Asked for a checkpoint it has, the graph gives     *)
(* that one.  Asked for one that is gone it does not have to say so:       *)
(* get_state may answer with the config it was asked for, with the latest  *)
(* checkpoint or without one (_checkpoint_ref refuses that), and invoke    *)
(* may continue the latest checkpoint, a blank one, or raise.              *)
(***************************************************************************)
EXTENDS AdapterBinding

CONSTANTS Thread

\* LangGraphRuntimeAdapterV1.resolve_identity
Identity(checkpoint) ==
    [namespace          |-> IF checkpoint.checkpoint_ns = "" THEN "default"
                            ELSE checkpoint.checkpoint_ns,
     execution_id       |-> checkpoint.thread_id,
     execution_revision |-> checkpoint.checkpoint_id]

\* The values of AdapterBinding.
Binding == [identity : {Identity(e) : e \in Execution}, recovery : RecoveryBinding]

\* An execution is a LangGraphCheckpointRef.
ASSUME LangGraphAssumption ==
    /\ Execution \subseteq [thread_id : Thread, checkpoint_id : STRING, checkpoint_ns : STRING]
    /\ None \notin Binding
    /\ None \notin [execution : {Identity(e) : e \in Execution}, snapshot : SUBSET Revision,
                    fences : FenceLists]

\* The ids of a thread's checkpoints are unique.
ASSUME CheckpointAssumption ==
    /\ \A a, b \in Execution :
           a.thread_id = b.thread_id /\ a.checkpoint_id = b.checkpoint_id => a = b
    /\ None \notin [bound : RecoveryBinding, on : Execution \union {None}, runtime : RuntimeRevision]

VARIABLES
    checkpoints,  \* the checkpoints in the graph's saver
    latest,       \* the latest checkpoint of a thread, or None
    used,         \* the checkpoints that have ever existed
    installed,    \* the installed langgraph revision
    pc,           \* where a caller's call is
    target,       \* the config of a capture in progress
    recovery,     \* its recovery binding, or None
    held,         \* the AdapterBinding a caller holds, or None
    verdict,      \* the decision of a call in progress, or None
    continued     \* history: the binding last continued, the checkpoint it was
                  \* continued on and the installed runtime, or None

graph == <<checkpoints, latest, used>>
calls == <<pc, target, recovery, held, verdict>>
vars == <<graph, installed, calls, continued>>

Config == [thread_id : Thread, checkpoint : Execution \union {None}]

\* The checkpoints the graph may find for a config, None for a blank one.
Found(config) ==
    IF config.checkpoint \in checkpoints THEN {config.checkpoint}
    ELSE {latest[config.thread_id], None}

\* The checkpoints a get_state may name, None for none that is exact.
GetState(config) == Found(config) \union {config.checkpoint}

\* Defect: the config of the bound checkpoint leaves out its id.
ExactConfig_Thread(bound) == [thread_id |-> bound.execution.thread_id, checkpoint |-> None]

ExactConfig(bound) == [thread_id |-> bound.execution.thread_id, checkpoint |-> bound.execution]

\* _recovery_binding: the identity is that of the bound checkpoint.
Exact(b) == b # None /\ b.identity = Identity(b.recovery.execution)

TypeOK ==
    /\ checkpoints \subseteq used /\ used \subseteq Execution
    /\ latest \in [Thread -> checkpoints \union {None}]
    /\ installed \in RuntimeRevision
    /\ pc \in [Caller -> {"idle", "identity", "decided"}]
    /\ target \in [Caller -> Config \union {None}]
    /\ recovery \in [Caller -> RecoveryBinding \union {None}]
    /\ held \in [Caller -> Binding \union {None}]
    /\ verdict \in [Caller -> Action \union {None}]
    /\ continued \in [bound : RecoveryBinding, on : Execution \union {None},
                      runtime : RuntimeRevision] \union {None}

Init ==
    /\ checkpoints = {}
    /\ latest = [t \in Thread |-> None]
    /\ used = {}
    /\ installed \in RuntimeRevision
    /\ pc = [c \in Caller |-> "idle"]
    /\ target = [c \in Caller |-> None]
    /\ recovery = [c \in Caller |-> None]
    /\ held = [c \in Caller |-> None]
    /\ verdict = [c \in Caller |-> None]
    /\ continued = None

-------------------------------------------------------------------------------
(* The graph, external *)

Run(checkpoint) ==
    /\ checkpoint \notin used
    /\ checkpoints' = checkpoints \union {checkpoint}
    /\ used' = used \union {checkpoint}
    /\ latest' = [latest EXCEPT ![checkpoint.thread_id] = checkpoint]
    /\ UNCHANGED <<installed, calls, continued>>

Prune(checkpoint) ==
    /\ checkpoint \in checkpoints
    /\ checkpoints' = checkpoints \ {checkpoint}
    /\ latest' = [t \in Thread |-> IF latest[t] = checkpoint THEN None ELSE latest[t]]
    /\ UNCHANGED <<used, installed, calls, continued>>

\* Another langgraph is installed and the processes restart; callers keep the
\* bindings they were given.
Upgrade ==
    /\ installed' \in RuntimeRevision
    /\ pc' = [c \in Caller |-> "idle"]
    /\ target' = [c \in Caller |-> None]
    /\ recovery' = [c \in Caller |-> None]
    /\ verdict' = [c \in Caller |-> None]
    /\ UNCHANGED <<graph, held, continued>>

-------------------------------------------------------------------------------
(* The calls of the adapter *)

\* capture of the adapter below V1: one read, and a binding that is its own identity.
CaptureNative(c) ==
    /\ pc[c] = "idle"
    /\ \E config \in Config, resources \in ResourceLists, fences \in FenceLists :
           \E checkpoint \in GetState(config) \ {None} :
               /\ Capturable(resources, fences, installed)
               /\ held' = [held EXCEPT ![c] =
                      [identity |-> Identity(checkpoint),
                       recovery |-> Recovery(checkpoint, resources, fences, installed)]]
    /\ UNCHANGED <<graph, installed, pc, target, recovery, verdict, continued>>

\* capture of V1, up to the recovery binding.
Capture(c) ==
    /\ pc[c] = "idle"
    /\ \E config \in Config, resources \in ResourceLists, fences \in FenceLists :
           \E checkpoint \in GetState(config) \ {None} :
               /\ Capturable(resources, fences, installed)
               /\ target' = [target EXCEPT ![c] = config]
               /\ recovery' = [recovery EXCEPT ![c] =
                      Recovery(checkpoint, resources, fences, installed)]
    /\ held' = [held EXCEPT ![c] = None]
    /\ pc' = [pc EXCEPT ![c] = "identity"]
    /\ UNCHANGED <<graph, installed, verdict, continued>>

EndCapture(c) ==
    /\ pc[c] = "identity"
    /\ pc' = [pc EXCEPT ![c] = "idle"]
    /\ target' = [target EXCEPT ![c] = None]
    /\ recovery' = [recovery EXCEPT ![c] = None]
    /\ UNCHANGED <<graph, installed, verdict, continued>>

\* Defect: an answer without a checkpoint is not refused.
ResolveIdentity_Unresolved(c) ==
    /\ EndCapture(c)
    /\ \E checkpoint \in GetState(target[c]) :
           held' = [held EXCEPT ![c] =
               [identity |-> IF checkpoint = None THEN None ELSE Identity(checkpoint),
                recovery |-> recovery[c]]]

\* It then resolves the identity, by a read of its own.
ResolveIdentity(c) ==
    /\ EndCapture(c)
    /\ \E checkpoint \in GetState(target[c]) \ {None} :
           held' = [held EXCEPT ![c] = [identity |-> Identity(checkpoint), recovery |-> recovery[c]]]

\* IDENTITY_UNRESOLVED
IdentityUnresolved(c) ==
    /\ EndCapture(c)
    /\ None \in GetState(target[c])
    /\ UNCHANGED held

\* validate_resume: the graph names the bound checkpoint itself.
ValidateResume(c) ==
    /\ pc[c] = "idle"
    /\ Exact(held[c])
    /\ held[c].recovery.execution \in GetState(ExactConfig(held[c].recovery))
    /\ \E heads \in HeadReads, fences \in FenceReads, validity \in Reports :
           verdict' = [verdict EXCEPT ![c] =
               Judge(held[c].recovery, heads, fences, validity, installed)]
    /\ pc' = [pc EXCEPT ![c] = "decided"]
    /\ UNCHANGED <<graph, installed, target, recovery, held, continued>>

\* continue_after_validate, resume_interrupt, resume_static: invoke with the
\* config of the bound checkpoint, which the graph finds once more.
Invoke(c) ==
    /\ pc[c] = "decided"
    /\ verdict[c] = "RECOVER"
    /\ \E checkpoint \in Found(ExactConfig(held[c].recovery)) :
           continued' = [bound |-> held[c].recovery, on |-> checkpoint, runtime |-> installed]
    /\ pc' = [pc EXCEPT ![c] = "idle"]
    /\ verdict' = [verdict EXCEPT ![c] = None]
    /\ UNCHANGED <<graph, installed, target, recovery, held>>

\* The decision of validate_resume is returned, the continuation blocked, or
\* refused by the graph.
Return(c) ==
    /\ pc[c] = "decided"
    /\ pc' = [pc EXCEPT ![c] = "idle"]
    /\ verdict' = [verdict EXCEPT ![c] = None]
    /\ UNCHANGED <<graph, installed, target, recovery, held, continued>>

Next ==
    \/ \E checkpoint \in Execution : Run(checkpoint) \/ Prune(checkpoint)
    \/ Upgrade
    \/ \E c \in Caller :
           \/ CaptureNative(c)
           \/ Capture(c)
           \/ ResolveIdentity(c)
           \/ IdentityUnresolved(c)
           \/ ValidateResume(c)
           \/ Invoke(c)
           \/ Return(c)

Spec == Init /\ [][Next]_vars

-------------------------------------------------------------------------------
(* Properties *)

\* What the caller of the contract is given: the identity in its binding.
Given(c) == IF held[c] = None THEN None
            ELSE [held[c].recovery EXCEPT !.execution = held[c].identity]

\* What it learns of a continuation: the identity of the checkpoint continued.
Reached(continuation) ==
    [bound   |-> [continuation.bound EXCEPT !.execution =
                      IF continuation.on = None THEN None ELSE Identity(continuation.on)],
     runtime |-> continuation.runtime]

Contract == INSTANCE RuntimeAdapter WITH
    Execution   <- {Identity(e) : e \in Execution},
    continuable <- {Identity(e) : e \in checkpoints},
    binding     <- [c \in Caller |-> Given(c)],
    continued   <- IF continued = None THEN None ELSE Reached(continued)

\* The adapter meets the contract v1 as far as the graph lets it: although a V1
\* capture reads a running graph twice and a continuation follows its validation,
\* a binding whose checkpoint the graph still has continues that checkpoint and no
\* newer one, after RECOVER, and a capture torn by the graph is never continued.
\* Of a binding whose checkpoint was lost after its validation it promises less
\* than the contract ("must refuse retargeting", docs/runtime-adapter-v1.md:48):
\* the invoke that follows (langgraph.py:202, langgraph_v1.py:138) compares nothing,
\* and continues what the graph finds.
MeetsContract == Contract!TrustingSpec

\* "If the runtime version changes between capture and resume ... it does not
\* silently become compatible" (ADR-0007): whatever heads the caller passes,
\* nothing captured under one runtime continues under another that no rule
\* declares compatible.
RuntimeDriftBlocks ==
    continued # None => NoSilentDrift(continued.bound, continued.runtime)

\* What a call in progress knows: a capture, that its recovery binding is of the
\* runtime installed; a decision, that its binding is exact, and RECOVER, that
\* the runtime has not drifted.
CallInv ==
    \A c \in Caller :
        /\ pc[c] = "identity" =>
               /\ target[c] \in Config
               /\ \E e \in Execution, resources \in ResourceLists, fences \in FenceLists :
                      /\ Capturable(resources, fences, installed)
                      /\ recovery[c] = Recovery(e, resources, fences, installed)
        /\ IF pc[c] = "decided"
           THEN /\ Exact(held[c])
                /\ verdict[c] = "RECOVER" => NoSilentDrift(held[c].recovery, installed)
           ELSE verdict[c] = None

\* The inductive invariant.
IndInv == TypeOK /\ CallInv /\ RuntimeDriftBlocks
===============================================================================
