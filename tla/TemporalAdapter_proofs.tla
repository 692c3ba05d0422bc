------------------------- MODULE TemporalAdapter_proofs -------------------------
(***************************************************************************)
(* The Temporal adapter for any runs, callers, resources and rules: it     *)
(* implements the adapter contract, and SDK drift is never silent.         *)
(***************************************************************************)
EXTENDS TemporalAdapter, Kernel_proofs

USE RevisionAssumption, RulesAssumption, AdapterAssumption, TemporalAssumption

\* The contract decides as the adapter does.
LEMMA SameJudge ==
    ASSUME NEW bound, NEW heads, NEW fences, NEW valid, NEW runtime
    PROVE  Contract!Judge(bound, heads, fences, valid, runtime)
           = Judge(bound, heads, fences, valid, runtime)
  BY DEF Contract!Judge, Judge, Contract!Validate, Validate, Contract!Strongest, Strongest,
         Contract!Check, Check, Contract!ResourceAction, ResourceAction, Contract!Differs, Differs,
         Contract!DriftAction, DriftAction, Contract!Classify, Classify, Contract!RulesFor, RulesFor,
         Contract!FenceAction, FenceAction, Contract!ConcurCheck, ConcurCheck,
         Contract!Priority, Priority

-------------------------------------------------------------------------------
(* Bindings and decisions *)

LEMMA RecoveryIsBinding ==
    ASSUME NEW e \in Execution, NEW resources \in ResourceLists, NEW fences \in FenceLists,
           NEW runtime \in RuntimeRevision
    PROVE  Recovery(e, resources, fences, runtime) \in RecoveryBinding
  BY DEF Recovery, RecoveryBinding

LEMMA BindingShape ==
    ASSUME NEW b \in RecoveryBinding
    PROVE  /\ b = [execution |-> b.execution, snapshot |-> b.snapshot, fences |-> b.fences]
           /\ b.execution \in Execution /\ b.snapshot \subseteq Revision /\ b.fences \in FenceLists
           /\ \E rev \in b.snapshot : rev \in RuntimeRevision
<1>1. PICK e \in Execution, resources \in ResourceLists, runtime \in RuntimeRevision,
           fences \in FenceLists :
          b = [execution |-> e, snapshot |-> WithRuntimeRevision(resources, runtime),
               fences |-> fences]
  BY DEF RecoveryBinding
<1>2. \A i \in DOMAIN resources : resources[i] \in Revision
  BY DEF AdapterAssumption
<1>3. LastOf(resources) \subseteq Revision
  BY <1>2 DEF LastOf
<1>4. WithRuntimeRevision(resources, runtime) \subseteq Revision
      /\ runtime \in WithRuntimeRevision(resources, runtime)
  BY <1>3 DEF WithRuntimeRevision, RuntimeRevision
<1>5. QED
  BY <1>1, <1>4

\* A decision is one of the actions, and RECOVER only for the runtime installed.
LEMMA JudgeHolds ==
    ASSUME NEW b \in RecoveryBinding, NEW heads \in HeadReads, NEW fences, NEW valid,
           NEW runtime \in RuntimeRevision
    PROVE  /\ Judge(b, heads, fences, valid, runtime) \in Action
           /\ Judge(b, heads, fences, valid, runtime) = "RECOVER" => NoSilentDrift(b, runtime)
<1> DEFINE current == [heads EXCEPT ![RuntimeResource] = runtime]
           answer == Validate(b.snapshot, b.fences, current, fences, valid)
<1>1. answer \in Action
  BY ValidateBounds
<1>2. ASSUME answer = "RECOVER" PROVE NoSilentDrift(b, runtime)
  <2>1. PICK rev \in b.snapshot : rev \in RuntimeRevision
    BY BindingShape
  <2>2. rev.resource_id = RuntimeResource /\ rev \in Revision /\ runtime \in Revision
        /\ runtime.resource_id = RuntimeResource
    BY <2>1 DEF RuntimeRevision
  <2>3. current[RuntimeResource] = runtime
    BY DEF AdapterAssumption
  <2>4. ~Differs(rev, runtime) \/ Classify(rev, runtime) = "COMPATIBLE"
    <3> HIDE DEF current
    <3>1. QED
      BY <1>2, <2>2, <2>3, RecoverContinues
  <2>5. ~Differs(rev, runtime) => rev = runtime
    BY <2>2 DEF Differs
  <2>6. QED
    BY <2>2, <2>4, <2>5 DEF NoSilentDrift
<1>3. QED
  BY <1>1, <1>2 DEF Judge

-------------------------------------------------------------------------------
(* The inductive invariant *)

LEMMA Initial == Init => IndInv
<1> SUFFICES ASSUME Init PROVE IndInv
  OBVIOUS
<1>1. TypeOK
  BY DEF Init, TypeOK
<1>2. CallInv /\ RuntimeDriftBlocks
  BY DEF Init, CallInv, RuntimeDriftBlocks
<1>3. QED
  BY <1>1, <1>2 DEF IndInv

LEMMA ServerKeeps ==
    ASSUME IndInv, NEW e \in Execution, StartRun(e) \/ CloseRun(e)
    PROVE  IndInv'
<1> USE DEF IndInv, calls
<1>1. TypeOK'
  <2>1. UNCHANGED <<installed, pc, target, client, binding, verdict, continued>>
    BY DEF StartRun, CloseRun
  <2>2. status' \in [Execution -> {"absent", "RUNNING", "CLOSED"}]
    <3>1. \E new \in {"RUNNING", "CLOSED"} : status' = [status EXCEPT ![e] = new]
      BY DEF StartRun, CloseRun
    <3>2. status \in [Execution -> {"absent", "RUNNING", "CLOSED"}]
      BY DEF TypeOK
    <3>3. QED
      BY ONLY <3>1, <3>2
  <2>3. latest' \in [Workflow -> Execution \union {None}]
    BY DEF StartRun, CloseRun, TypeOK
  <2>4. QED
    BY <2>1, <2>2, <2>3 DEF TypeOK
<1>2. CallInv' /\ RuntimeDriftBlocks'
  BY DEF StartRun, CloseRun, CallInv, RuntimeDriftBlocks
<1>3. QED
  BY <1>1, <1>2

LEMMA UpgradeKeeps == IndInv /\ Upgrade => IndInv'
<1> SUFFICES ASSUME IndInv, Upgrade PROVE IndInv'
  OBVIOUS
<1> USE DEF IndInv, Upgrade, server
<1>1. TypeOK'
  BY DEF TypeOK
<1>2. CallInv' /\ RuntimeDriftBlocks'
  BY DEF CallInv, RuntimeDriftBlocks
<1>3. QED
  BY <1>1, <1>2

\* A capture touches no decision, and only its own caller's binding.
LEMMA CaptureKeeps ==
    ASSUME IndInv, NEW c \in Caller,
           Capture(c) \/ DescribeLatest(c) \/ Bind(c) \/ CaptureFails(c)
    PROVE  IndInv'
<1> USE DEF IndInv, server
<1>1. /\ pc[c] # "signal" /\ pc'[c] # "signal"
      /\ \A d \in Caller \ {c} : pc'[d] = pc[d] /\ binding'[d] = binding[d]
      /\ UNCHANGED <<server, installed, client, verdict, continued>>
  BY DEF Capture, DescribeLatest, Bind, CaptureFails, EndCapture, TypeOK
<1>2. CallInv'
  BY <1>1 DEF CallInv
<1>3. RuntimeDriftBlocks'
  BY <1>1 DEF RuntimeDriftBlocks
<1>4. CASE Capture(c)
  <2>1. PICK e \in Execution : target' = [target EXCEPT ![c] = e]
    BY <1>4 DEF Capture
  <2>2. e # None
    BY DEF AdapterAssumption
  <2>3. TypeOK'
    BY <1>4, <2>1, <2>2 DEF Capture, TypeOK
  <2>4. QED
    BY <1>2, <1>3, <2>3
<1>5. CASE DescribeLatest(c)
  <2>1. PICK w \in Workflow : latest[w] # None /\ target' = [target EXCEPT ![c] = latest[w]]
    BY <1>5 DEF DescribeLatest
  <2>2. TypeOK'
    BY <1>5, <2>1 DEF DescribeLatest, TypeOK
  <2>3. QED
    BY <1>2, <1>3, <2>2
<1>6. CASE Bind(c)
  <2>1. PICK resources \in ResourceLists, fences \in FenceLists :
            binding' = [binding EXCEPT ![c] = Recovery(target[c], resources, fences, installed)]
    BY <1>6 DEF Bind
  <2>2. Recovery(target[c], resources, fences, installed) \in RecoveryBinding
    BY <1>6, RecoveryIsBinding DEF Bind, Running, TypeOK
  <2>3. TypeOK'
    BY <1>6, <2>1, <2>2 DEF Bind, EndCapture, TypeOK
  <2>4. QED
    BY <1>2, <1>3, <2>3
<1>7. CASE CaptureFails(c)
  <2>1. TypeOK'
    BY <1>7 DEF CaptureFails, EndCapture, TypeOK
  <2>2. QED
    BY <1>2, <1>3, <2>1
<1>8. QED
  BY <1>4, <1>5, <1>6, <1>7

LEMMA ValidateKeeps ==
    ASSUME IndInv, NEW c \in Caller, ValidateResume(c)
    PROVE  IndInv'
<1> USE DEF IndInv, server
<1>1. PICK heads \in HeadReads, fences \in FenceReads, validity \in Reports :
          verdict' = [verdict EXCEPT ![c] = Judge(binding[c], heads, fences, validity, installed)]
  BY DEF ValidateResume
<1>2. binding[c] \in RecoveryBinding /\ installed \in RuntimeRevision
  BY DEF ValidateResume, TypeOK
<1>3. /\ verdict'[c] \in Action
      /\ verdict'[c] = "RECOVER" => NoSilentDrift(binding[c], installed)
  BY <1>1, <1>2, JudgeHolds DEF TypeOK
<1>4. client' = [client EXCEPT ![c] = binding[c].execution.namespace]
      /\ binding[c].execution.namespace \in Namespace
  BY DEF ValidateResume
<1>5. TypeOK'
  BY <1>1, <1>3, <1>4 DEF ValidateResume, TypeOK
<1>6. CallInv'
  <2>1. \A d \in Caller \ {c} : pc'[d] = pc[d] /\ verdict'[d] = verdict[d] /\ client'[d] = client[d]
    BY <1>1, <1>4 DEF ValidateResume, TypeOK
  <2>2. /\ pc'[c] = "signal" /\ client'[c] = binding[c].execution.namespace /\ binding[c] # None
        /\ UNCHANGED <<installed, binding>>
    BY <1>4 DEF ValidateResume, TypeOK
  <2>3. QED
    BY <1>3, <2>1, <2>2 DEF CallInv
<1>7. RuntimeDriftBlocks'
  BY DEF ValidateResume, RuntimeDriftBlocks
<1>8. QED
  BY <1>5, <1>6, <1>7

\* The run that a signal reaches is the run of the binding.
LEMMA SignalReaches ==
    ASSUME IndInv, NEW c \in Caller, Signal(c)
    PROVE  /\ binding[c] \in RecoveryBinding
           /\ binding[c].execution \in Running
           /\ continued' = [bound |-> binding[c], runtime |-> installed]
<1>1. binding[c] \in RecoveryBinding /\ client[c] = binding[c].execution.namespace
  BY DEF Signal, EndContinuation, IndInv, CallInv, TypeOK
<1>2. binding[c].execution \in Execution
  BY <1>1, BindingShape
<1>3. ExactHandle(client[c], binding[c].execution) = binding[c].execution
  BY <1>1, <1>2 DEF ExactHandle, TemporalAssumption
<1>4. [binding[c] EXCEPT !.execution = binding[c].execution] = binding[c]
  BY <1>1, BindingShape
<1>5. QED
  BY <1>1, <1>3, <1>4 DEF Signal

LEMMA ContinueKeeps ==
    ASSUME IndInv, NEW c \in Caller, Signal(c) \/ Return(c)
    PROVE  IndInv'
<1> USE DEF IndInv, server
<1>1. /\ pc[c] = "signal"
      /\ pc' = [pc EXCEPT ![c] = "idle"] /\ client' = [client EXCEPT ![c] = None]
      /\ verdict' = [verdict EXCEPT ![c] = None]
      /\ UNCHANGED <<server, installed, target, binding>>
  BY DEF Signal, Return, EndContinuation
<1>2. \/ continued' = continued
      \/ /\ verdict[c] = "RECOVER" /\ binding[c] \in RecoveryBinding
         /\ continued' = [bound |-> binding[c], runtime |-> installed]
  BY SignalReaches DEF Signal, Return
<1>3. TypeOK'
  <2>1. continued' \in [bound : RecoveryBinding, runtime : RuntimeRevision] \union {None}
    BY <1>2 DEF TypeOK
  <2>2. /\ pc' \in [Caller -> {"idle", "assert", "signal"}]
        /\ client' \in [Caller -> Namespace \union {None}]
        /\ verdict' \in [Caller -> Action \union {None}]
        /\ \A d \in Caller : pc'[d] = "assert" => target[d] # None
    BY <1>1 DEF TypeOK
  <2>3. QED
    BY <1>1, <2>1, <2>2 DEF TypeOK
<1>4. CallInv'
  <2>1. \A d \in Caller \ {c} : pc'[d] = pc[d] /\ verdict'[d] = verdict[d] /\ client'[d] = client[d]
    BY <1>1 DEF TypeOK
  <2>2. pc'[c] = "idle" /\ verdict'[c] = None
    BY <1>1 DEF TypeOK
  <2>3. QED
    BY <1>1, <2>1, <2>2 DEF CallInv
<1>5. RuntimeDriftBlocks'
  BY <1>1, <1>2 DEF CallInv, RuntimeDriftBlocks
<1>6. QED
  BY <1>3, <1>4, <1>5

LEMMA StutterKeeps == IndInv /\ UNCHANGED vars => IndInv'
<1> SUFFICES ASSUME IndInv, UNCHANGED vars PROVE IndInv'
  OBVIOUS
<1> USE DEF IndInv, vars, server, calls
<1>1. TypeOK'
  BY DEF TypeOK
<1>2. CallInv' /\ RuntimeDriftBlocks'
  BY DEF CallInv, RuntimeDriftBlocks
<1>3. QED
  BY <1>1, <1>2

\* The inductive invariant holds in every state.
THEOREM Invariance == Spec => []IndInv
<1>1. IndInv /\ [Next]_vars => IndInv'
  BY ServerKeeps, UpgradeKeeps, CaptureKeeps, ValidateKeeps, ContinueKeeps, StutterKeeps DEF Next
<1>2. QED
  BY Initial, <1>1, PTL DEF Spec

\* Every variable keeps its type, for any runs and callers (temporal_v1.py).
THEOREM TypeCorrect == Spec => []TypeOK
<1>1. IndInv => TypeOK
  BY DEF IndInv
<1>2. QED
  BY <1>1, Invariance, PTL

\* What was captured under one SDK is signalled under another only by a
\* compatibility rule (validate_resume puts the installed SDK among the heads).
THEOREM NoSilentRuntimeDrift == Spec => []RuntimeDriftBlocks
<1>1. IndInv => RuntimeDriftBlocks
  BY DEF IndInv
<1>2. QED
  BY <1>1, Invariance, PTL

-------------------------------------------------------------------------------
(* The adapter implements the contract *)

LEMMA ContractInitially == Init => Contract!ContractInit
<1> SUFFICES ASSUME Init PROVE Contract!ContractInit
  OBVIOUS
<1>1. installed \in Contract!RuntimeRevision
  BY DEF Init, RuntimeRevision, Contract!RuntimeRevision
<1>2. QED
  BY <1>1 DEF Init, Running, Contract!ContractInit

LEMMA ServerRefines ==
    ASSUME NEW e \in Execution, StartRun(e) \/ CloseRun(e)
    PROVE  Contract!RuntimeMoves
<1>1. Running' \subseteq Execution
  BY DEF Running
<1>2. QED
  BY <1>1 DEF StartRun, CloseRun, calls, Contract!RuntimeMoves

LEMMA UpgradeRefines == IndInv /\ Upgrade => Contract!Upgrade
<1> SUFFICES ASSUME IndInv, Upgrade PROVE Contract!Upgrade
  OBVIOUS
<1>1. installed' \in Contract!RuntimeRevision
  BY DEF Upgrade, RuntimeRevision, Contract!RuntimeRevision
<1>2. binding' = [c \in Caller |-> IF c \in {} THEN None ELSE binding[c]]
  BY DEF Upgrade, IndInv, TypeOK
<1>3. \E lost \in SUBSET Caller :
          binding' = [c \in Caller |-> IF c \in lost THEN None ELSE binding[c]]
  <2>1. WITNESS {} \in SUBSET Caller
  <2>2. QED
    BY <1>2
<1>4. Running' = Running
  BY DEF Upgrade, server, Running
<1>5. QED
  BY <1>1, <1>3, <1>4 DEF Upgrade, Contract!Upgrade

\* A capture starts by giving up the binding the caller holds.
LEMMA CaptureRefines ==
    ASSUME IndInv, NEW c \in Caller, Capture(c) \/ DescribeLatest(c)
    PROVE  Contract!Discard(c)
<1>1. verdict' = [verdict EXCEPT ![c] = None]
  BY DEF Capture, DescribeLatest, IndInv, CallInv, TypeOK
<1>2. Running' = Running
  BY DEF Capture, DescribeLatest, server, Running
<1>3. QED
  BY <1>1, <1>2 DEF Capture, DescribeLatest, Contract!Discard

LEMMA BindRefines ==
    ASSUME IndInv, NEW c \in Caller, Bind(c)
    PROVE  Contract!Capture(c)
<1>1. verdict' = [verdict EXCEPT ![c] = None]
  BY DEF Bind, EndCapture, IndInv, CallInv, TypeOK
<1>2. Running' = Running
  BY DEF Bind, EndCapture, server, Running
<1>3. PICK resources \in ResourceLists, fences \in FenceLists :
          /\ Capturable(resources, fences, installed)
          /\ binding' = [binding EXCEPT ![c] = Recovery(target[c], resources, fences, installed)]
  BY DEF Bind
<1>4. Contract!WithRuntimeRevision(resources, installed) = WithRuntimeRevision(resources, installed)
  BY DEF WithRuntimeRevision, Contract!WithRuntimeRevision, LastOf, Contract!LastOf
<1>5. Contract!Capturable(resources, fences, installed)
  BY <1>3 DEF Capturable, Contract!Capturable, RuntimeConflict, Contract!RuntimeConflict,
         WithRuntimeRevision, Contract!WithRuntimeRevision, LastOf, Contract!LastOf
<1>6. binding' = [binding EXCEPT ![c] = Contract!Recovery(target[c], resources, fences, installed)]
  BY <1>3, <1>4 DEF Recovery, Contract!Recovery
<1>7. target[c] \in Running
  BY DEF Bind
<1>8. QED
  BY <1>1, <1>2, <1>5, <1>6, <1>7 DEF Bind, EndCapture, Contract!Capture, Contract!Bind

LEMMA ValidateRefines ==
    ASSUME IndInv, NEW c \in Caller, ValidateResume(c)
    PROVE  Contract!ValidateResume(c)
<1>1. binding[c] # None /\ binding[c].execution \in Execution
  BY BindingShape DEF ValidateResume, IndInv, TypeOK
<1>2. ExactHandle(binding[c].execution.namespace, binding[c].execution) = binding[c].execution
  BY <1>1 DEF ExactHandle, TemporalAssumption
<1>3. binding[c].execution \in Running
  BY <1>2 DEF ValidateResume
<1>4. \E heads \in HeadReads, fences \in FenceReads, validity \in Reports :
          verdict' = [verdict EXCEPT ![c] =
              Contract!Judge(binding[c], heads, fences, validity, installed)]
  <2>1. PICK heads \in HeadReads, fences \in FenceReads, validity \in Reports :
            verdict' = [verdict EXCEPT ![c] = Judge(binding[c], heads, fences, validity, installed)]
    BY DEF ValidateResume
  <2>2. QED
    BY <2>1, SameJudge
<1>5. Running' = Running /\ UNCHANGED <<installed, binding, continued>>
  BY DEF ValidateResume, server, Running
<1>6. QED
  BY <1>1, <1>3, <1>4, <1>5 DEF Contract!ValidateResume, Contract!Decide

LEMMA SignalRefines ==
    ASSUME IndInv, NEW c \in Caller, Signal(c)
    PROVE  Contract!ContinueAfterValidate(c)
<1>1. Running' = Running
  BY DEF Signal, EndContinuation, server, Running
<1>2. binding[c] \in RecoveryBinding /\ binding[c].execution \in Running
  BY SignalReaches
<1>3. binding[c] # None
  BY <1>2 DEF AdapterAssumption
<1>4. [binding[c] EXCEPT !.execution = binding[c].execution] = binding[c]
  BY <1>2, BindingShape
<1>5. Contract!Continue(c, binding[c].execution)
  BY <1>1, <1>4, SignalReaches DEF Signal, EndContinuation, Contract!Continue
<1>6. QED
  BY <1>2, <1>3, <1>5 DEF Contract!ContinueAfterValidate

LEMMA ReturnRefines ==
    ASSUME NEW c \in Caller, Return(c)
    PROVE  Contract!Return(c)
<1>1. Running' = Running
  BY DEF Return, EndContinuation, server, Running
<1>2. QED
  BY <1>1 DEF Return, EndContinuation, Contract!Return

LEMMA StutterRefines ==
    ASSUME UNCHANGED <<status, installed, binding, verdict, continued>>
    PROVE  UNCHANGED Contract!contractVars
<1>1. Running' = Running
  BY DEF Running
<1>2. QED
  BY <1>1 DEF Contract!contractVars

\* Every step of the adapter is a step of the contract, or none of its business.
LEMMA StepRefines ==
    IndInv /\ [Next]_vars => [Contract!ContractNext]_(Contract!contractVars)
<1> SUFFICES ASSUME IndInv, [Next]_vars
             PROVE  [Contract!ContractNext]_(Contract!contractVars)
  OBVIOUS
<1> USE DEF Contract!ContractNext
<1>1. ASSUME NEW e \in Execution, StartRun(e) \/ CloseRun(e)
      PROVE  Contract!ContractNext
  BY <1>1, ServerRefines
<1>2. CASE Upgrade
  BY <1>2, UpgradeRefines
<1>3. ASSUME NEW c \in Caller,
             Capture(c) \/ DescribeLatest(c) \/ Bind(c) \/ ValidateResume(c) \/ Signal(c) \/ Return(c)
      PROVE  Contract!ContractNext
  BY <1>3, CaptureRefines, BindRefines, ValidateRefines, SignalRefines, ReturnRefines
<1>4. ASSUME NEW c \in Caller, CaptureFails(c)
      PROVE  UNCHANGED Contract!contractVars
  BY <1>4, StutterRefines DEF CaptureFails, EndCapture, server
<1>5. CASE UNCHANGED vars
  BY <1>5, StutterRefines DEF vars, server, calls
<1>6. QED
  BY <1>1, <1>2, <1>3, <1>4, <1>5 DEF Next

\* The Temporal adapter implements the runtime adapter contract: however runs close
\* and continue as new between the awaits of a call, a signal reaches the run of the
\* binding or none, and only after RECOVER (_exact_handle, require_recover).
THEOREM ImplementsContract == Spec => MeetsContract
<1>1. Spec => []IndInv
  BY Invariance
<1>2. QED
  BY <1>1, ContractInitially, StepRefines, PTL DEF Spec, MeetsContract, Contract!ContractSpec
===============================================================================
