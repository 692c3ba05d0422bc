------------------------ MODULE LangGraphAdapter_proofs ------------------------
(***************************************************************************)
(* The LangGraph adapter for any graphs, callers, resources and rules: it  *)
(* implements the adapter contract as far as the graph lets it, and        *)
(* runtime drift is never silent.                                          *)
(***************************************************************************)
EXTENDS LangGraphAdapter, Kernel_proofs

USE RevisionAssumption, RulesAssumption, AdapterAssumption, LangGraphAssumption

\* The contract decides as the adapter does.
LEMMA SameJudge ==
    ASSUME NEW bound, NEW heads, NEW fences, NEW valid, NEW runtime
    PROVE  Contract!Judge(bound, heads, fences, valid, runtime)
           = Judge(bound, heads, fences, valid, runtime)
  BY DEF Contract!Judge, Judge, Contract!Validate, Validate, Contract!Strongest, Strongest,
         Contract!Check, Check, Contract!ResourceAction, ResourceAction, Contract!Differs, Differs,
         Contract!DriftAction, DriftAction, Contract!Classify, Classify, Contract!RulesFor, RulesFor,
         Contract!FenceAction, FenceAction, Contract!ConcurCheck, ConcurCheck,
         Contract!Priority, Priority

-------------------------------------------------------------------------------
(* Bindings and decisions *)

LEMMA RecoveryIsBinding ==
    ASSUME NEW e \in Execution, NEW resources \in ResourceLists, NEW fences \in FenceLists,
           NEW runtime \in RuntimeRevision
    PROVE  Recovery(e, resources, fences, runtime) \in RecoveryBinding
  BY DEF Recovery, RecoveryBinding

LEMMA BindingShape ==
    ASSUME NEW b \in RecoveryBinding
    PROVE  /\ b = [execution |-> b.execution, snapshot |-> b.snapshot, fences |-> b.fences]
           /\ b.execution \in Execution /\ b.snapshot \subseteq Revision /\ b.fences \in FenceLists
           /\ \E rev \in b.snapshot : rev \in RuntimeRevision
<1>1. PICK e \in Execution, resources \in ResourceLists, runtime \in RuntimeRevision,
           fences \in FenceLists :
          b = [execution |-> e, snapshot |-> WithRuntimeRevision(resources, runtime),
               fences |-> fences]
  BY DEF RecoveryBinding
<1>2. \A i \in DOMAIN resources : resources[i] \in Revision
  BY DEF AdapterAssumption
<1>3. LastOf(resources) \subseteq Revision
  BY <1>2 DEF LastOf
<1>4. WithRuntimeRevision(resources, runtime) \subseteq Revision
      /\ runtime \in WithRuntimeRevision(resources, runtime)
  BY <1>3 DEF WithRuntimeRevision, RuntimeRevision
<1>5. QED
  BY <1>1, <1>4

\* A decision is one of the actions, and RECOVER only for the runtime installed.
LEMMA JudgeHolds ==
    ASSUME NEW b \in RecoveryBinding, NEW heads \in HeadReads, NEW fences, NEW valid,
           NEW runtime \in RuntimeRevision
    PROVE  /\ Judge(b, heads, fences, valid, runtime) \in Action
           /\ Judge(b, heads, fences, valid, runtime) = "RECOVER" => NoSilentDrift(b, runtime)
<1> DEFINE current == [heads EXCEPT ![RuntimeResource] = runtime]
           answer == Validate(b.snapshot, b.fences, current, fences, valid)
<1>1. answer \in Action
  BY ValidateBounds
<1>2. ASSUME answer = "RECOVER" PROVE NoSilentDrift(b, runtime)
  <2>1. PICK rev \in b.snapshot : rev \in RuntimeRevision
    BY BindingShape
  <2>2. rev.resource_id = RuntimeResource /\ rev \in Revision /\ runtime \in Revision
        /\ runtime.resource_id = RuntimeResource
    BY <2>1 DEF RuntimeRevision
  <2>3. current[RuntimeResource] = runtime
    BY DEF AdapterAssumption
  <2>4. ~Differs(rev, runtime) \/ Classify(rev, runtime) = "COMPATIBLE"
    <3> HIDE DEF current
    <3>1. QED
      BY <1>2, <2>2, <2>3, RecoverContinues
  <2>5. ~Differs(rev, runtime) => rev = runtime
    BY <2>2 DEF Differs
  <2>6. QED
    BY <2>2, <2>4, <2>5 DEF NoSilentDrift
<1>3. QED
  BY <1>1, <1>2 DEF Judge

\* What get_state answers: a checkpoint, or none.
LEMMA GetStateAnswers ==
    ASSUME TypeOK, NEW config \in Config, NEW checkpoint \in GetState(config), checkpoint # None
    PROVE  checkpoint \in Execution
  BY DEF TypeOK, Config, GetState, Found

\* What the graph finds for a bound checkpoint: that one while it has it.
LEMMA FoundIsBound ==
    ASSUME TypeOK, NEW bound \in RecoveryBinding, NEW checkpoint \in Found(ExactConfig(bound))
    PROVE  /\ checkpoint \in Execution \union {None}
           /\ bound.execution \in checkpoints => checkpoint = bound.execution
<1>1. bound.execution \in Execution
  BY BindingShape
<1>2. bound.execution.thread_id \in Thread
  BY <1>1 DEF LangGraphAssumption
<1>3. QED
  BY <1>1, <1>2 DEF TypeOK, Found, ExactConfig

\* An identity names one checkpoint.
LEMMA IdentityNames ==
    ASSUME NEW a \in Execution, NEW b \in Execution, Identity(a) = Identity(b)
    PROVE  a = b
<1>1. a.thread_id = b.thread_id /\ a.checkpoint_id = b.checkpoint_id
  BY DEF Identity
<1>2. QED
  BY <1>1, CheckpointAssumption

-------------------------------------------------------------------------------
(* The inductive invariant *)

LEMMA Initial == Init => IndInv
<1> SUFFICES ASSUME Init PROVE IndInv
  OBVIOUS
<1>1. TypeOK
  BY DEF Init, TypeOK
<1>2. CallInv /\ RuntimeDriftBlocks
  BY DEF Init, CallInv, RuntimeDriftBlocks
<1>3. QED
  BY <1>1, <1>2 DEF IndInv

LEMMA GraphKeeps ==
    ASSUME IndInv, NEW checkpoint \in Execution, Run(checkpoint) \/ Prune(checkpoint)
    PROVE  IndInv'
<1> USE DEF IndInv, calls
<1>1. TypeOK'
  <2>1. CASE Run(checkpoint)
    <3>1. checkpoint.thread_id \in Thread
      BY DEF LangGraphAssumption
    <3>2. QED
      BY <2>1, <3>1 DEF Run, TypeOK
  <2>2. CASE Prune(checkpoint)
    BY <2>2 DEF Prune, TypeOK
  <2>3. QED
    BY <2>1, <2>2
<1>2. CallInv' /\ RuntimeDriftBlocks'
  BY DEF Run, Prune, CallInv, RuntimeDriftBlocks, Exact
<1>3. QED
  BY <1>1, <1>2

LEMMA UpgradeKeeps == IndInv /\ Upgrade => IndInv'
<1> SUFFICES ASSUME IndInv, Upgrade PROVE IndInv'
  OBVIOUS
<1> USE DEF IndInv, Upgrade, graph
<1>1. TypeOK'
  BY DEF TypeOK
<1>2. CallInv' /\ RuntimeDriftBlocks'
  BY DEF CallInv, RuntimeDriftBlocks
<1>3. QED
  BY <1>1, <1>2

LEMMA CaptureKeeps ==
    ASSUME IndInv, NEW c \in Caller,
           CaptureNative(c) \/ Capture(c) \/ ResolveIdentity(c) \/ IdentityUnresolved(c)
    PROVE  IndInv'
<1> USE DEF IndInv, graph
<1>1. RuntimeDriftBlocks'
  BY DEF CaptureNative, Capture, ResolveIdentity, IdentityUnresolved, EndCapture, RuntimeDriftBlocks
<1>2. CASE CaptureNative(c)
  <2>1. PICK config \in Config, resources \in ResourceLists, fences \in FenceLists :
        \E checkpoint \in GetState(config) \ {None} :
            held' = [held EXCEPT ![c] = [identity |-> Identity(checkpoint),
                         recovery |-> Recovery(checkpoint, resources, fences, installed)]]
    BY <1>2 DEF CaptureNative
  <2>2. PICK checkpoint \in Execution :
            held' = [held EXCEPT ![c] = [identity |-> Identity(checkpoint),
                         recovery |-> Recovery(checkpoint, resources, fences, installed)]]
    BY <2>1, GetStateAnswers
  <2>3. installed \in RuntimeRevision
    BY DEF TypeOK
  <2>4. [identity |-> Identity(checkpoint),
         recovery |-> Recovery(checkpoint, resources, fences, installed)] \in Binding
    BY <2>3, RecoveryIsBinding DEF Binding
  <2>5. TypeOK'
    BY <1>2, <2>2, <2>4 DEF CaptureNative, TypeOK
  <2>6. CallInv'
    BY <1>2, <2>2 DEF CaptureNative, CallInv, TypeOK
  <2>7. QED
    BY <1>1, <2>5, <2>6
<1>3. CASE Capture(c)
  <2>1. PICK config \in Config, resources \in ResourceLists, fences \in FenceLists :
        \E checkpoint \in GetState(config) \ {None} :
            /\ Capturable(resources, fences, installed)
            /\ target' = [target EXCEPT ![c] = config]
            /\ recovery' = [recovery EXCEPT ![c] =
                   Recovery(checkpoint, resources, fences, installed)]
    BY <1>3 DEF Capture
  <2>2. PICK checkpoint \in Execution :
            /\ Capturable(resources, fences, installed)
            /\ target' = [target EXCEPT ![c] = config]
            /\ recovery' = [recovery EXCEPT ![c] =
                   Recovery(checkpoint, resources, fences, installed)]
    BY <2>1, GetStateAnswers
  <2>3. Recovery(checkpoint, resources, fences, installed) \in RecoveryBinding
    BY RecoveryIsBinding DEF TypeOK
  <2>4. TypeOK'
    BY <1>3, <2>2, <2>3 DEF Capture, TypeOK
  <2>5. CallInv'
    BY <1>3, <2>2 DEF Capture, CallInv, TypeOK
  <2>6. QED
    BY <1>1, <2>4, <2>5
<1>4. CASE ResolveIdentity(c)
  <2>1. target[c] \in Config /\ recovery[c] \in RecoveryBinding
    BY <1>4, RecoveryIsBinding DEF ResolveIdentity, EndCapture, CallInv, TypeOK
  <2>2. PICK checkpoint \in Execution :
            held' = [held EXCEPT ![c] = [identity |-> Identity(checkpoint), recovery |-> recovery[c]]]
    BY <1>4, <2>1, GetStateAnswers DEF ResolveIdentity
  <2>3. [identity |-> Identity(checkpoint), recovery |-> recovery[c]] \in Binding
    BY <2>1 DEF Binding
  <2>4. TypeOK'
    BY <1>4, <2>2, <2>3 DEF ResolveIdentity, EndCapture, TypeOK
  <2>5. CallInv'
    BY <1>4, <2>2 DEF ResolveIdentity, EndCapture, CallInv, TypeOK
  <2>6. QED
    BY <1>1, <2>4, <2>5
<1>5. CASE IdentityUnresolved(c)
  <2>1. TypeOK'
    BY <1>5 DEF IdentityUnresolved, EndCapture, TypeOK
  <2>2. CallInv'
    BY <1>5 DEF IdentityUnresolved, EndCapture, CallInv, TypeOK, Exact
  <2>3. QED
    BY <1>1, <2>1, <2>2
<1>6. QED
  BY <1>2, <1>3, <1>4, <1>5

LEMMA ValidateKeeps ==
    ASSUME IndInv, NEW c \in Caller, ValidateResume(c)
    PROVE  IndInv'
<1> USE DEF IndInv, graph
<1>1. PICK heads \in HeadReads, fences \in FenceReads, validity \in Reports :
          verdict' = [verdict EXCEPT ![c] =
              Judge(held[c].recovery, heads, fences, validity, installed)]
  BY DEF ValidateResume
<1>2. held[c].recovery \in RecoveryBinding /\ installed \in RuntimeRevision
  BY DEF ValidateResume, Exact, TypeOK, Binding
<1>3. /\ verdict'[c] \in Action
      /\ verdict'[c] = "RECOVER" => NoSilentDrift(held[c].recovery, installed)
  BY <1>1, <1>2, JudgeHolds DEF TypeOK
<1>4. TypeOK'
  BY <1>1, <1>3 DEF ValidateResume, TypeOK
<1>5. CallInv'
  <2>1. \A d \in Caller \ {c} : pc'[d] = pc[d] /\ verdict'[d] = verdict[d]
    BY <1>1 DEF ValidateResume, TypeOK
  <2>2. pc'[c] = "decided" /\ UNCHANGED <<installed, target, recovery, held>> /\ Exact(held[c])
    BY DEF ValidateResume, TypeOK
  <2>3. QED
    BY <1>3, <2>1, <2>2 DEF CallInv, Exact
<1>6. RuntimeDriftBlocks'
  BY DEF ValidateResume, RuntimeDriftBlocks
<1>7. QED
  BY <1>4, <1>5, <1>6

LEMMA ContinueKeeps ==
    ASSUME IndInv, NEW c \in Caller, Invoke(c) \/ Return(c)
    PROVE  IndInv'
<1> USE DEF IndInv, graph
<1>1. pc[c] = "decided" /\ Exact(held[c]) /\ held[c].recovery \in RecoveryBinding
  BY DEF Invoke, Return, CallInv, Exact, TypeOK, Binding
<1>2. TypeOK'
  <2>1. continued' \in [bound : RecoveryBinding, on : Execution \union {None},
                        runtime : RuntimeRevision] \union {None}
    <3>1. CASE Invoke(c)
      <4>1. PICK checkpoint \in Found(ExactConfig(held[c].recovery)) :
                continued' = [bound |-> held[c].recovery, on |-> checkpoint, runtime |-> installed]
        BY <3>1 DEF Invoke
      <4>2. QED
        BY <1>1, <4>1, FoundIsBound DEF TypeOK
    <3>2. CASE Return(c)
      BY <3>2 DEF Return, TypeOK
    <3>3. QED
      BY <3>1, <3>2
  <2>2. pc' \in [Caller -> {"idle", "identity", "decided"}] /\ verdict' \in [Caller -> Action \union {None}]
    BY DEF Invoke, Return, TypeOK
  <2>3. UNCHANGED <<graph, installed, target, recovery, held>>
    BY DEF Invoke, Return
  <2>4. QED
    BY <2>1, <2>2, <2>3 DEF TypeOK
<1>3. CallInv'
  <2>1. \A d \in Caller \ {c} : pc'[d] = pc[d] /\ verdict'[d] = verdict[d]
    BY DEF Invoke, Return, TypeOK
  <2>2. pc'[c] = "idle" /\ verdict'[c] = None /\ UNCHANGED <<installed, target, recovery, held>>
    BY DEF Invoke, Return, TypeOK
  <2>3. QED
    BY <2>1, <2>2 DEF CallInv, Exact
<1>4. RuntimeDriftBlocks'
  BY <1>1 DEF Invoke, Return, CallInv, RuntimeDriftBlocks
<1>5. QED
  BY <1>2, <1>3, <1>4

LEMMA StutterKeeps == IndInv /\ UNCHANGED vars => IndInv'
<1> SUFFICES ASSUME IndInv, UNCHANGED vars PROVE IndInv'
  OBVIOUS
<1> USE DEF IndInv, vars, graph, calls
<1>1. TypeOK'
  BY DEF TypeOK
<1>2. CallInv' /\ RuntimeDriftBlocks'
  BY DEF CallInv, RuntimeDriftBlocks, Exact
<1>3. QED
  BY <1>1, <1>2

\* The inductive invariant holds in every state.
THEOREM Invariance == Spec => []IndInv
<1>1. IndInv /\ [Next]_vars => IndInv'
  BY GraphKeeps, UpgradeKeeps, CaptureKeeps, ValidateKeeps, ContinueKeeps, StutterKeeps DEF Next
<1>2. QED
  BY Initial, <1>1, PTL DEF Spec

\* Every variable keeps its type, for any graph and callers (langgraph_v1.py).
THEOREM TypeCorrect == Spec => []TypeOK
<1>1. IndInv => TypeOK
  BY DEF IndInv
<1>2. QED
  BY <1>1, Invariance, PTL

\* What was captured under one runtime version continues under another only by a
\* compatibility rule (validate_resume puts the installed runtime among the heads).
THEOREM NoSilentRuntimeDrift == Spec => []RuntimeDriftBlocks
<1>1. IndInv => RuntimeDriftBlocks
  BY DEF IndInv
<1>2. QED
  BY <1>1, Invariance, PTL

-------------------------------------------------------------------------------
(* The adapter implements the contract *)

\* What the contract sees of a binding.
LEMMA GivenIsNot ==
    ASSUME TypeOK, NEW c \in Caller, held[c] # None
    PROVE  Given(c) # None
<1>1. held[c].recovery \in RecoveryBinding /\ \E e \in Execution : held[c].identity = Identity(e)
  BY DEF TypeOK, Binding
<1>2. Given(c) = [execution |-> held[c].identity, snapshot |-> held[c].recovery.snapshot,
                  fences |-> held[c].recovery.fences]
  BY <1>1, BindingShape DEF Given
<1>3. QED
  BY <1>1, <1>2, BindingShape DEF LangGraphAssumption

LEMMA ContractInitially == Init => Contract!ContractInit
<1> SUFFICES ASSUME Init PROVE Contract!ContractInit
  OBVIOUS
<1>1. installed \in Contract!RuntimeRevision
  BY DEF Init, RuntimeRevision, Contract!RuntimeRevision
<1>2. QED
  BY <1>1 DEF Init, Contract!ContractInit, Given

LEMMA GraphRefines ==
    ASSUME IndInv, IndInv', NEW checkpoint \in Execution, Run(checkpoint) \/ Prune(checkpoint)
    PROVE  Contract!RuntimeMoves
<1>1. checkpoints' \subseteq Execution
  BY DEF IndInv, TypeOK
<1>2. \A c \in Caller : Given(c)' = Given(c)
  BY DEF Run, Prune, calls, Given
<1>3. QED
  BY <1>1, <1>2 DEF Run, Prune, calls, Contract!RuntimeMoves

LEMMA UpgradeRefines == Upgrade => Contract!Upgrade
<1> SUFFICES ASSUME Upgrade PROVE Contract!Upgrade
  OBVIOUS
<1>1. \A c \in Caller : Given(c)' = Given(c)
  BY DEF Upgrade, Given
<1>2. installed' \in Contract!RuntimeRevision
  BY DEF Upgrade, RuntimeRevision, Contract!RuntimeRevision
<1>3. [c \in Caller |-> Given(c)]'
      = [c \in Caller |-> IF c \in {} THEN None ELSE [d \in Caller |-> Given(d)][c]]
  BY <1>1
<1>4. \E lost \in SUBSET Caller :
          [c \in Caller |-> Given(c)]'
          = [c \in Caller |-> IF c \in lost THEN None ELSE [d \in Caller |-> Given(d)][c]]
  <2>1. WITNESS {} \in SUBSET Caller
  <2>2. QED
    BY <1>3
<1>5. QED
  BY <1>2, <1>4 DEF Upgrade, graph, Contract!Upgrade

\* A binding becomes the caller's: the contract captures the execution it names,
\* or one that the graph does not have.
LEMMA PublishRefines ==
    ASSUME IndInv, NEW c \in Caller, NEW checkpoint \in Execution, NEW e \in Execution,
           NEW resources \in ResourceLists, NEW fences \in FenceLists,
           Capturable(resources, fences, installed),
           held' = [held EXCEPT ![c] = [identity |-> Identity(checkpoint),
                       recovery |-> Recovery(e, resources, fences, installed)]],
           verdict[c] = None, UNCHANGED <<graph, installed, verdict, continued>>
    PROVE  Contract!Capture(c) \/ Contract!Misled(c)
<1> DEFINE b == [identity |-> Identity(checkpoint),
                 recovery |-> Recovery(e, resources, fences, installed)]
           named == Contract!Recovery(Identity(checkpoint), resources, fences, installed)
<1>1. installed \in RuntimeRevision
  BY DEF IndInv, TypeOK
<1>2. b \in Binding
  BY <1>1, RecoveryIsBinding DEF Binding
<1>3. held'[c] = b /\ b # None /\ \A d \in Caller \ {c} : held'[d] = held[d]
  BY <1>2 DEF IndInv, TypeOK, LangGraphAssumption
<1>4. [b.recovery EXCEPT !.execution = b.identity] = named
  <2>1. Contract!WithRuntimeRevision(resources, installed) = WithRuntimeRevision(resources, installed)
    BY DEF WithRuntimeRevision, Contract!WithRuntimeRevision, LastOf, Contract!LastOf
  <2>2. QED
    BY <2>1 DEF Recovery, Contract!Recovery
<1>5. Given(c)' = named
  BY <1>3, <1>4 DEF Given
<1>6. \A d \in Caller \ {c} : Given(d)' = Given(d)
  BY <1>3 DEF Given
<1>7. [d \in Caller |-> Given(d)]' = [[d \in Caller |-> Given(d)] EXCEPT ![c] = named]
  <2> HIDE DEF named
  <2>1. QED
    BY <1>5, <1>6
<1>8. Contract!Capturable(resources, fences, installed)
  BY DEF Capturable, Contract!Capturable, RuntimeConflict, Contract!RuntimeConflict,
         WithRuntimeRevision, Contract!WithRuntimeRevision, LastOf, Contract!LastOf
<1>9. verdict' = [verdict EXCEPT ![c] = None]
  BY DEF IndInv, TypeOK
<1>10. Contract!Bind(c, Identity(checkpoint))
  BY <1>7, <1>8, <1>9 DEF Contract!Bind, graph
<1>11. Identity(checkpoint) \in {Identity(x) : x \in Execution}
  OBVIOUS
<1>12. QED
  BY <1>10, <1>11 DEF Contract!Capture, Contract!Misled

LEMMA CaptureNativeRefines ==
    ASSUME IndInv, NEW c \in Caller, CaptureNative(c)
    PROVE  Contract!Capture(c) \/ Contract!Misled(c)
<1>1. PICK config \in Config, resources \in ResourceLists, fences \in FenceLists :
          \E checkpoint \in GetState(config) \ {None} :
              /\ Capturable(resources, fences, installed)
              /\ held' = [held EXCEPT ![c] = [identity |-> Identity(checkpoint),
                     recovery |-> Recovery(checkpoint, resources, fences, installed)]]
  BY DEF CaptureNative
<1>2. PICK checkpoint \in GetState(config) \ {None} :
          /\ Capturable(resources, fences, installed)
          /\ held' = [held EXCEPT ![c] = [identity |-> Identity(checkpoint),
                 recovery |-> Recovery(checkpoint, resources, fences, installed)]]
  BY <1>1
<1>3. checkpoint \in Execution
  BY GetStateAnswers DEF IndInv
<1>4. verdict[c] = None /\ UNCHANGED <<graph, installed, verdict, continued>>
  BY DEF CaptureNative, IndInv, CallInv
<1>5. QED
  BY <1>2, <1>3, <1>4, PublishRefines

LEMMA ResolveRefines ==
    ASSUME IndInv, NEW c \in Caller, ResolveIdentity(c)
    PROVE  Contract!Capture(c) \/ Contract!Misled(c)
<1>1. pc[c] = "identity" /\ verdict[c] = None /\ UNCHANGED <<graph, installed, verdict, continued>>
  BY DEF ResolveIdentity, EndCapture, IndInv, CallInv
<1>2. PICK e \in Execution, resources \in ResourceLists, fences \in FenceLists :
          /\ Capturable(resources, fences, installed)
          /\ recovery[c] = Recovery(e, resources, fences, installed)
  BY <1>1 DEF IndInv, CallInv
<1>3. target[c] \in Config
  BY <1>1 DEF IndInv, CallInv
<1>4. PICK checkpoint \in GetState(target[c]) \ {None} :
          held' = [held EXCEPT ![c] = [identity |-> Identity(checkpoint), recovery |-> recovery[c]]]
  BY DEF ResolveIdentity
<1>5. checkpoint \in Execution
  BY <1>3, GetStateAnswers DEF IndInv
<1>6. QED
  BY <1>1, <1>2, <1>4, <1>5, PublishRefines

\* A V1 capture starts by giving up the binding the caller holds.
LEMMA CaptureRefines ==
    ASSUME IndInv, NEW c \in Caller, Capture(c)
    PROVE  Contract!Discard(c)
<1>1. verdict' = [verdict EXCEPT ![c] = None]
  BY DEF Capture, IndInv, CallInv, TypeOK
<1>2. Given(c)' = None /\ \A d \in Caller \ {c} : Given(d)' = Given(d)
  BY DEF Capture, Given, IndInv, TypeOK
<1>3. [d \in Caller |-> Given(d)]' = [[d \in Caller |-> Given(d)] EXCEPT ![c] = None]
  BY <1>2
<1>4. QED
  BY <1>1, <1>3 DEF Capture, graph, Contract!Discard

LEMMA ValidateRefines ==
    ASSUME IndInv, NEW c \in Caller, ValidateResume(c)
    PROVE  Contract!ValidateResume(c) \/ Contract!Misled(c)
<1> DEFINE given == [d \in Caller |-> Given(d)]
<1>1. held[c] # None /\ held[c].identity = Identity(held[c].recovery.execution)
      /\ held[c].recovery \in RecoveryBinding
  BY DEF ValidateResume, Exact, IndInv, TypeOK, Binding
<1>2. given[c] = [held[c].recovery EXCEPT !.execution = held[c].identity]
  BY <1>1 DEF Given
<1>3. /\ given[c].execution = Identity(held[c].recovery.execution)
      /\ given[c].snapshot = held[c].recovery.snapshot
      /\ given[c].fences = held[c].recovery.fences
  BY <1>1, <1>2, BindingShape
<1>4. given[c] # None
  BY <1>1, GivenIsNot DEF IndInv
<1>5. \A heads, fences, validity :
          Contract!Judge(given[c], heads, fences, validity, installed)
          = Judge(held[c].recovery, heads, fences, validity, installed)
  BY <1>3, SameJudge DEF Judge
<1>6. \E heads \in HeadReads, fences \in FenceReads, validity \in Reports :
          verdict' = [verdict EXCEPT ![c] =
              Contract!Judge(given[c], heads, fences, validity, installed)]
  <2> HIDE DEF given
  <2>1. PICK heads \in HeadReads, fences \in FenceReads, validity \in Reports :
            verdict' = [verdict EXCEPT ![c] =
                Judge(held[c].recovery, heads, fences, validity, installed)]
    BY DEF ValidateResume
  <2>2. QED
    BY <1>5, <2>1
<1>7. given' = given
  BY DEF ValidateResume, Given
<1>8. QED
  <2> HIDE DEF given
  <2>1. UNCHANGED <<checkpoints, installed, continued>>
    BY DEF ValidateResume, graph
  <2>2. Contract!Decide(c)
    BY <1>6, <1>7, <2>1 DEF given, Contract!Decide
  <2>3. QED
    BY <1>4, <2>2 DEF given, Contract!ValidateResume, Contract!Misled

\* The bound checkpoint is continued if the graph has it, and no other.
LEMMA InvokeRefines ==
    ASSUME IndInv, NEW c \in Caller, Invoke(c)
    PROVE  Contract!ContinueAfterValidate(c) \/ Contract!Misled(c)
<1> DEFINE given == [d \in Caller |-> Given(d)]
           name == Identity(held[c].recovery.execution)
<1>1. held[c] # None /\ held[c].identity = name /\ held[c].recovery \in RecoveryBinding
  BY DEF Invoke, Exact, IndInv, CallInv, TypeOK, Binding
<1>2. held[c].recovery.execution \in Execution
  BY <1>1, BindingShape
<1>3. PICK checkpoint \in Found(ExactConfig(held[c].recovery)) :
          continued' = [bound |-> held[c].recovery, on |-> checkpoint, runtime |-> installed]
  BY DEF Invoke
<1>4. /\ checkpoint \in Execution \union {None}
      /\ held[c].recovery.execution \in checkpoints => checkpoint = held[c].recovery.execution
  BY <1>1, FoundIsBound DEF IndInv
<1> DEFINE e == IF checkpoint = None THEN None ELSE Identity(checkpoint)
<1>5. e \in {Identity(x) : x \in Execution} \union {None}
  BY <1>4
<1>6. given[c] = [held[c].recovery EXCEPT !.execution = name] /\ given[c] # None
  BY <1>1, GivenIsNot DEF Given, IndInv
<1>7. given[c].execution = name
  BY <1>1, <1>6, BindingShape
<1>8. continued' # None
  <2>1. installed \in RuntimeRevision
    BY DEF IndInv, TypeOK
  <2>2. QED
    BY <1>1, <1>3, <1>4, <2>1, CheckpointAssumption
<1>9. Reached(continued') = [bound |-> [given[c] EXCEPT !.execution = e], runtime |-> installed]
  BY <1>1, <1>3, <1>6, BindingShape DEF Reached
<1>10. Contract!Continue(c, e)
  <2> HIDE DEF e
  <2>1. given' = given
    BY DEF Invoke, Given
  <2>2. (IF continued = None THEN None ELSE Reached(continued))'
        = [bound |-> [given[c] EXCEPT !.execution = e], runtime |-> installed]
    BY <1>8, <1>9
  <2>3. verdict[c] = "RECOVER" /\ verdict' = [verdict EXCEPT ![c] = None]
        /\ UNCHANGED <<checkpoints, installed>>
    BY DEF Invoke, graph
  <2>4. QED
    <3> HIDE DEF given
    <3>1. QED
      BY <2>1, <2>2, <2>3 DEF given, Contract!Continue
<1>11. CASE name \in {Identity(x) : x \in checkpoints}
  <2>1. held[c].recovery.execution \in checkpoints
    <3>1. PICK x \in checkpoints : Identity(x) = name
      BY <1>11
    <3>2. x \in Execution
      BY DEF IndInv, TypeOK
    <3>3. QED
      BY <1>2, <3>1, <3>2, IdentityNames
  <2>2. e = name
    BY <1>2, <1>4, <2>1 DEF AdapterAssumption
  <2>3. QED
    <3> HIDE DEF e, name
    <3>1. QED
      BY <1>6, <1>7, <1>10, <1>11, <2>2 DEF Contract!ContinueAfterValidate
<1>12. CASE name \notin {Identity(x) : x \in checkpoints}
  <2> HIDE DEF e, name
  <2>1. QED
    BY <1>5, <1>6, <1>7, <1>10, <1>12 DEF Contract!Misled
<1>13. QED
  BY <1>11, <1>12

LEMMA ReturnRefines ==
    ASSUME NEW c \in Caller, Return(c)
    PROVE  Contract!Return(c)
<1>1. \A d \in Caller : Given(d)' = Given(d)
  BY DEF Return, Given
<1>2. QED
  BY <1>1 DEF Return, graph, Contract!Return

LEMMA StutterRefines ==
    ASSUME UNCHANGED <<checkpoints, installed, held, verdict, continued>>
    PROVE  UNCHANGED Contract!contractVars
<1>1. \A d \in Caller : Given(d)' = Given(d)
  BY DEF Given
<1>2. QED
  BY <1>1 DEF Contract!contractVars

\* Every step of the adapter is a step of the contract, or none of its business.
LEMMA StepRefines ==
    IndInv /\ IndInv' /\ [Next]_vars => [Contract!TrustingNext]_(Contract!contractVars)
<1> SUFFICES ASSUME IndInv, IndInv', [Next]_vars
             PROVE  [Contract!TrustingNext]_(Contract!contractVars)
  OBVIOUS
<1> USE DEF Contract!TrustingNext, Contract!ContractNext
<1>1. ASSUME NEW checkpoint \in Execution, Run(checkpoint) \/ Prune(checkpoint)
      PROVE  Contract!TrustingNext
  BY <1>1, GraphRefines
<1>2. CASE Upgrade
  BY <1>2, UpgradeRefines
<1>3. ASSUME NEW c \in Caller,
             CaptureNative(c) \/ ResolveIdentity(c) \/ Capture(c) \/ ValidateResume(c)
                 \/ Invoke(c) \/ Return(c)
      PROVE  Contract!TrustingNext
  BY <1>3, CaptureNativeRefines, ResolveRefines, CaptureRefines, ValidateRefines, InvokeRefines,
     ReturnRefines
<1>4. ASSUME NEW c \in Caller, IdentityUnresolved(c)
      PROVE  UNCHANGED Contract!contractVars
  BY <1>4, StutterRefines DEF IdentityUnresolved, EndCapture, graph
<1>5. CASE UNCHANGED vars
  BY <1>5, StutterRefines DEF vars, graph, calls
<1>6. QED
  BY <1>1, <1>2, <1>3, <1>4, <1>5 DEF Next

\* The LangGraph adapter implements the contract over a runtime that may hide its
\* losses: whatever the graph does between the reads of a call, a continuation
\* follows a RECOVER for the caller's own exact binding, on the bound checkpoint if
\* the graph still has it (_require_exact_binding, require_recover, config).
THEOREM ImplementsContract == Spec => MeetsContract
<1>1. Spec => []IndInv
  BY Invariance
<1>2. QED
  BY <1>1, ContractInitially, StepRefines, PTL DEF Spec, MeetsContract, Contract!TrustingSpec
===============================================================================
