---------------------------- MODULE TemporalAdapter ----------------------------
(***************************************************************************)
(* The Temporal adapter (adapters/temporal.py and temporal_v1.py) over     *)
(* workflows that run on.  One action per await: every describe and signal *)
(* is a request to the server, and what follows its answer up to the next  *)
(* await reads nothing that anybody else writes.  A call that raises       *)
(* changes nothing but the caller's own state; a manifest never changes.   *)
(*                                                                         *)
(* External: a workflow has at most one running run, the latest; a handle  *)
(* with a run id addresses that run, one without it the latest, both in    *)
(* the namespace of their client; a closed run takes no signal.  A run     *)
(* that continues as new is closed and its successor started.              *)
(***************************************************************************)
EXTENDS AdapterBinding

\* An execution is a TemporalExecutionRef; first_execution_run_id, which only
\* restates the run for the SDK, is left out.
ASSUME TemporalAssumption ==
    Execution \subseteq [namespace : STRING, workflow_id : STRING, run_id : STRING]

Namespace == {e.namespace : e \in Execution}
Workflow == {<<e.namespace, e.workflow_id>> : e \in Execution}
WorkflowOf(e) == <<e.namespace, e.workflow_id>>

VARIABLES
    status,     \* the status of a run, "absent" before it starts
    latest,     \* the latest run of a workflow, or None
    installed,  \* the installed temporalio revision
    pc,         \* what a caller's call awaits
    target,     \* the run a capture in progress is going to bind, or None
    client,     \* the namespace of the client of a continuation, or None
    binding,    \* the binding a caller holds, or None
    verdict,    \* the decision of a call in progress, or None
    continued   \* history: the last signal, by the run it reached, or None

server == <<status, latest>>
calls == <<pc, target, client, binding, verdict>>
vars == <<server, installed, calls, continued>>

Running == {e \in Execution : status[e] = "RUNNING"}

\* Defect: the handle addresses whatever run is the latest.
ExactHandle_Latest(namespace, execution) ==
    IF <<namespace, execution.workflow_id>> \in Workflow
    THEN latest[<<namespace, execution.workflow_id>>] ELSE None

\* _exact_handle: the run of the execution, where the client looks for it.
ExactHandle(namespace, execution) == [execution EXCEPT !.namespace = namespace]

TypeOK ==
    /\ status \in [Execution -> {"absent", "RUNNING", "CLOSED"}]
    /\ latest \in [Workflow -> Execution \union {None}]
    /\ installed \in RuntimeRevision
    /\ pc \in [Caller -> {"idle", "assert", "signal"}]
    /\ target \in [Caller -> Execution \union {None}]
    /\ client \in [Caller -> Namespace \union {None}]
    /\ binding \in [Caller -> RecoveryBinding \union {None}]
    /\ verdict \in [Caller -> Action \union {None}]
    /\ continued \in [bound : RecoveryBinding, runtime : RuntimeRevision] \union {None}
    /\ \A c \in Caller : pc[c] = "assert" => target[c] # None

Init ==
    /\ status = [e \in Execution |-> "absent"]
    /\ latest = [w \in Workflow |-> None]
    /\ installed \in RuntimeRevision
    /\ pc = [c \in Caller |-> "idle"]
    /\ target = [c \in Caller |-> None]
    /\ client = [c \in Caller |-> None]
    /\ binding = [c \in Caller |-> None]
    /\ verdict = [c \in Caller |-> None]
    /\ continued = None

-------------------------------------------------------------------------------
(* The server, external *)

StartRun(e) ==
    /\ status[e] = "absent"
    /\ latest[WorkflowOf(e)] \notin Running
    /\ status' = [status EXCEPT ![e] = "RUNNING"]
    /\ latest' = [latest EXCEPT ![WorkflowOf(e)] = e]
    /\ UNCHANGED <<installed, calls, continued>>

CloseRun(e) ==
    /\ status[e] = "RUNNING"
    /\ status' = [status EXCEPT ![e] = "CLOSED"]
    /\ UNCHANGED <<latest, installed, calls, continued>>

\* Another SDK is installed and the processes restart; callers keep the bindings
\* they were given.
Upgrade ==
    /\ installed' \in RuntimeRevision
    /\ pc' = [c \in Caller |-> "idle"]
    /\ target' = [c \in Caller |-> None]
    /\ client' = [c \in Caller |-> None]
    /\ verdict' = [c \in Caller |-> None]
    /\ UNCHANGED <<server, binding, continued>>

-------------------------------------------------------------------------------
(* The calls of the adapter *)

\* capture: the handle names its run, or the latest one is described.
Capture(c) ==
    /\ pc[c] = "idle"
    /\ \E e \in {run \in Execution : status[run] # "absent"} :
           target' = [target EXCEPT ![c] = e]
    /\ binding' = [binding EXCEPT ![c] = None]
    /\ pc' = [pc EXCEPT ![c] = "assert"]
    /\ UNCHANGED <<server, installed, client, verdict, continued>>

\* Defect: a description without a run id is not refused.
DescribeLatest_NoRun(c) ==
    /\ pc[c] = "idle"
    /\ \E w \in Workflow : target' = [target EXCEPT ![c] = latest[w]]
    /\ binding' = [binding EXCEPT ![c] = None]
    /\ pc' = [pc EXCEPT ![c] = "assert"]
    /\ UNCHANGED <<server, installed, client, verdict, continued>>

DescribeLatest(c) ==
    /\ pc[c] = "idle"
    /\ \E w \in Workflow :
           /\ latest[w] # None
           /\ target' = [target EXCEPT ![c] = latest[w]]
    /\ binding' = [binding EXCEPT ![c] = None]
    /\ pc' = [pc EXCEPT ![c] = "assert"]
    /\ UNCHANGED <<server, installed, client, verdict, continued>>

EndCapture(c) ==
    /\ pc[c] = "assert"
    /\ pc' = [pc EXCEPT ![c] = "idle"]
    /\ target' = [target EXCEPT ![c] = None]
    /\ UNCHANGED <<server, installed, client, verdict, continued>>

\* Defect: the run is described but may have been closed.
Bind_NotRunning(c) ==
    /\ EndCapture(c)
    /\ \E resources \in ResourceLists, fences \in FenceLists :
           /\ Capturable(resources, fences, installed)
           /\ binding' = [binding EXCEPT ![c] = Recovery(target[c], resources, fences, installed)]

\* The run is asserted to be running, and bound.
Bind(c) ==
    /\ EndCapture(c)
    /\ target[c] \in Running
    /\ \E resources \in ResourceLists, fences \in FenceLists :
           /\ Capturable(resources, fences, installed)
           /\ binding' = [binding EXCEPT ![c] = Recovery(target[c], resources, fences, installed)]

\* TemporalExecutionNotRunning, or what the caller captures is refused.
CaptureFails(c) ==
    /\ EndCapture(c)
    /\ \/ target[c] \notin Running
       \/ \E resources \in ResourceLists, fences \in FenceLists :
              ~Capturable(resources, fences, installed)
    /\ UNCHANGED binding

\* validate_resume and the assertion in it.
ValidateResume(c) ==
    /\ pc[c] = "idle"
    /\ binding[c] # None
    /\ \E namespace \in Namespace :
           /\ namespace = binding[c].execution.namespace
           /\ ExactHandle(namespace, binding[c].execution) \in Running
           /\ client' = [client EXCEPT ![c] = namespace]
    /\ \E heads \in HeadReads, fences \in FenceReads, validity \in Reports :
           verdict' = [verdict EXCEPT ![c] = Judge(binding[c], heads, fences, validity, installed)]
    /\ pc' = [pc EXCEPT ![c] = "signal"]
    /\ UNCHANGED <<server, installed, target, binding, continued>>

EndContinuation(c) ==
    /\ pc[c] = "signal"
    /\ pc' = [pc EXCEPT ![c] = "idle"]
    /\ client' = [client EXCEPT ![c] = None]
    /\ verdict' = [verdict EXCEPT ![c] = None]
    /\ UNCHANGED <<server, installed, target, binding>>

\* signal_after_validate, continue_after_validate: the signal is delivered, whether
\* or not the caller hears of it.
Signal(c) ==
    /\ EndContinuation(c)
    /\ verdict[c] = "RECOVER"
    /\ LET run == ExactHandle(client[c], binding[c].execution)
       IN /\ run \in Running
          /\ continued' = [bound |-> [binding[c] EXCEPT !.execution = run], runtime |-> installed]

\* The decision is returned, the continuation blocked, or the signal not delivered.
Return(c) ==
    /\ EndContinuation(c)
    /\ UNCHANGED continued

Next ==
    \/ \E e \in Execution : StartRun(e) \/ CloseRun(e)
    \/ Upgrade
    \/ \E c \in Caller :
           \/ Capture(c)
           \/ DescribeLatest(c)
           \/ Bind(c)
           \/ CaptureFails(c)
           \/ ValidateResume(c)
           \/ Signal(c)
           \/ Return(c)

Spec == Init /\ [][Next]_vars

-------------------------------------------------------------------------------
(* Properties *)

Contract == INSTANCE RuntimeAdapter WITH continuable <- Running

\* The adapter meets the contract v1: a binding names a run that was running, it is
\* validated only while that run is running, and a signal reaches that run or
\* none, after RECOVER, however runs are closed and continued as new in between
\* ("the old binding does not silently move to another run", ADR-0008).
MeetsContract == Contract!ContractSpec

\* Whatever heads the caller passes, nothing captured under one SDK is signalled
\* under another that no rule declares compatible (ADR-0008).
RuntimeDriftBlocks ==
    continued # None => NoSilentDrift(continued.bound, continued.runtime)

\* What a call in progress knows: a decision, that its client is in the namespace
\* of its binding, and RECOVER, that the SDK has not drifted.
CallInv ==
    \A c \in Caller :
        IF pc[c] = "signal"
        THEN /\ binding[c] # None
             /\ client[c] = binding[c].execution.namespace
             /\ verdict[c] = "RECOVER" => NoSilentDrift(binding[c], installed)
        ELSE verdict[c] = None

\* The inductive invariant.
IndInv == TypeOK /\ CallInv /\ RuntimeDriftBlocks
===============================================================================
