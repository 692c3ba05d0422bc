---------------------------- MODULE AdapterBinding ----------------------------
(***************************************************************************)
(* What a runtime adapter binds and decides (adapter_contract.py,          *)
(* adapters/langgraph.py, adapters/temporal.py): the recovery binding of   *)
(* an exact execution to a snapshot of resources, the installed runtime    *)
(* among them, and the decision on it.                                     *)
(***************************************************************************)
EXTENDS Kernel, Sequences

CONSTANTS
    Caller,
    Execution,        \* exact executions: checkpoints of a thread, runs of a workflow
    RuntimeResource,  \* the resource that stands for the installed runtime
    ResourceLists,    \* the resources callers capture, as the sequences they pass
    FenceLists,       \* the fences callers capture, 0 for none
    HeadReads,        \* the current heads callers pass
    FenceReads,       \* the current fences callers pass
    Reports           \* the validity metadata callers pass

RuntimeRevision == {rev \in Revision : rev.resource_id = RuntimeResource}

-------------------------------------------------------------------------------
(* What a capture records *)

\* A later revision of a resource replaces an earlier one in the dict.
LastOf(resources) ==
    {resources[i] : i \in {j \in DOMAIN resources :
        \A k \in DOMAIN resources : k > j => resources[k].resource_id # resources[j].resource_id}}

RuntimeConflict(resources, runtime) ==
    \E rev \in LastOf(resources) : rev.resource_id = RuntimeResource /\ rev # runtime

\* Defect: a runtime revision that the caller supplies is kept.
WithRuntimeRevision_Supplied(resources, runtime) ==
    LastOf(resources) \union
        {rev \in {runtime} : \A other \in LastOf(resources) : other.resource_id # RuntimeResource}

WithRuntimeRevision(resources, runtime) ==
    {rev \in LastOf(resources) : rev.resource_id # RuntimeResource} \union {runtime}

\* Both adapters refuse a conflicting runtime revision, and RecoveryCheckpoint a
\* fence on a resource outside the snapshot.
Capturable(resources, fences, runtime) ==
    /\ ~RuntimeConflict(resources, runtime)
    /\ \A r \in ResourceId : fences[r] > 0 =>
           \E rev \in WithRuntimeRevision(resources, runtime) : rev.resource_id = r

\* The recovery binding of an execution.
Recovery(execution, resources, fences, runtime) ==
    [execution |-> execution,
     snapshot  |-> WithRuntimeRevision(resources, runtime),
     fences    |-> fences]

RecoveryBinding ==
    {[execution |-> e, snapshot |-> WithRuntimeRevision(resources, runtime), fences |-> fences] :
     e \in Execution, resources \in ResourceLists, runtime \in RuntimeRevision, fences \in FenceLists}

ASSUME AdapterAssumption ==
    /\ None \notin Execution
    /\ None \notin RecoveryBinding
    /\ None \notin [bound : RecoveryBinding, runtime : RuntimeRevision]
    /\ RuntimeResource \in ResourceId
    /\ ResourceLists \subseteq Seq(Revision)
    /\ FenceLists \subseteq [ResourceId -> Nat]
    /\ HeadReads \subseteq [ResourceId -> Revision \union {None}]
    /\ FenceReads \subseteq [ResourceId -> Nat \union {None}]
    /\ Reports \subseteq [ResourceId -> Validity]

\* Defect: the head of the runtime is what the caller passes.
Judge_CallersRuntime(bound, heads, fences, validity, runtime) ==
    Validate(bound.snapshot, bound.fences, heads, fences, validity)

\* The decision on a binding: the installed runtime stands in for its head.
Judge(bound, heads, fences, validity, runtime) ==
    Validate(bound.snapshot, bound.fences, [heads EXCEPT ![RuntimeResource] = runtime],
             fences, validity)

\* The runtime of the snapshot is the one given, or compatible with it by rule.
NoSilentDrift(bound, runtime) ==
    \E rev \in bound.snapshot :
        /\ rev.resource_id = RuntimeResource
        /\ rev = runtime \/ Classify(rev, runtime) = "COMPATIBLE"
===============================================================================
