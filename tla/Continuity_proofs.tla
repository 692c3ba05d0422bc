--------------------------- MODULE Continuity_proofs ---------------------------
(***************************************************************************)
(* An agent's continuity for any resources, revisions, rules and fences:   *)
(* what each outcome of a validation means for its checkpoint, and that    *)
(* RECOVER was justified when the validation began.                        *)
(***************************************************************************)
EXTENDS Continuity, Kernel_proofs

USE RevisionAssumption, RulesAssumption, ContinuityAssumption

-------------------------------------------------------------------------------
(* The inductive invariant *)

\* What the type invariant says of the snapshot and the fences, in the form the
\* provers use.
LEMMA Shapes ==
    ASSUME ContinuityTypeOK, CheckpointInv
    PROVE  /\ \A e \in snapshot : e \in Revision /\ e.resource_id \in ResourceId
           /\ \A e \in Held : e \in snapshot /\ e.resource_id \in Writable
           /\ \A r \in ResourceId : tokens[r] \in Nat /\ fences[r] \in Nat
  BY DEF ContinuityTypeOK, CheckpointInv, Held, Fence

LEMMA Initial == ContinuityInit => IndInv
<1> SUFFICES ASSUME ContinuityInit PROVE IndInv
  OBVIOUS
<1>1. ContinuityTypeOK
  <2>1. /\ revisions \subseteq Revision
        /\ heads \in [ResourceId -> Revision \union {None}]
        /\ past \subseteq Revision
    BY DEF ContinuityInit
  <2>2. 0 \in Fence
    BY DEF Fence
  <2>3. /\ tokens \in [ResourceId -> Fence]
        /\ fences \in [ResourceId -> Fence]
        /\ seenHeads \in [ResourceId -> Revision \union {None}]
        /\ seenFences \in [ResourceId -> Fence \union {None}]
        /\ validity \in [ResourceId -> Validity]
    BY <2>2 DEF ContinuityInit, Validity
  <2>4. QED
    BY <2>1, <2>3 DEF ContinuityInit, ContinuityTypeOK
<1>2. CheckpointInv
  BY DEF ContinuityInit, CheckpointInv
<1>3. CourseInv /\ DecisionInv
  BY DEF ContinuityInit, CourseInv, DecisionInv, Decided
<1>4. QED
  BY <1>1, <1>2, <1>3 DEF IndInv

\* A use of the registry keeps the types of the registry, and a head it moves
\* belongs to its resource.
LEMMA RegistryStep ==
    ASSUME ContinuityTypeOK,
           \/ \E revision \in Revision : \E make_head \in BOOLEAN : Register(revision, make_head)
           \/ \E expected \in Revision : \E replacement \in Revision :
                  ActivateIfHead(expected, replacement)
    PROVE  /\ revisions' \subseteq Revision
           /\ heads' \in [ResourceId -> Revision \union {None}]
           /\ \A r \in ResourceId :
                  heads'[r] # heads[r] => heads'[r] \in Revision /\ heads'[r].resource_id = r
<1>1. PICK revision \in Revision :
          /\ revisions' = revisions \union {revision}
          /\ heads' = [heads EXCEPT ![revision.resource_id] = revision] \/ heads' = heads
  BY DEF Register, ActivateIfHead
<1>2. revision.resource_id \in ResourceId
  OBVIOUS
<1>3. QED
  BY <1>1, <1>2 DEF ContinuityTypeOK

\* Moving heads keeps the invariant: the moved head of a resource the agent may
\* write leaves the checkpoint, or comes back to it and is reinstated, since the
\* checkpoint's revision has been a head.
LEMMA MovingHeads ==
    ASSUME IndInv,
           revisions' \subseteq Revision,
           heads' \in [ResourceId -> Revision \union {None}],
           \A r \in ResourceId :
               heads'[r] # heads[r] => heads'[r] \in Revision /\ heads'[r].resource_id = r,
           Record,
           pc' = pc \/ (pc = "decided" /\ pc' = "written"),
           UNCHANGED <<tokens, checkpoint, validation, restarted>>
    PROVE  IndInv'
<1> USE DEF checkpoint, validation, IndInv
<1> DEFINE changed == {r \in Writable : heads'[r] # heads[r]}
<1>1. /\ past' = past \union {heads'[r] : r \in changed}
      /\ reinstated' = reinstated \union {r \in changed : heads'[r] \in past}
      /\ moved' = moved \union changed
  BY DEF Record
<1>2. ContinuityTypeOK'
  <2>1. changed \subseteq ResourceId /\ past' \subseteq Revision
    BY <1>1 DEF ContinuityTypeOK
  <2>2. QED
    BY <1>1, <2>1 DEF ContinuityTypeOK
<1>3. CheckpointInv'
  BY <1>1 DEF CheckpointInv, ContinuityTypeOK
<1>4. CourseInv'
  <2>1. Held' = Held
    BY DEF Held
  <2>2. SUFFICES ASSUME pc \in {"validating", "decided", "written", "conflict"}, NEW e \in Held
                 PROVE  LET r == e.resource_id
                        IN /\ r \notin reinstated' => (heads'[r] = e <=> r \in exact /\ r \notin moved')
                           /\ r \in exact /\ r \notin moved' => heads'[r] = e
    BY <1>1, <2>1 DEF CourseInv
  <2> DEFINE r == e.resource_id
  <2>3. r \in Writable /\ e \in past
    BY <2>2, Shapes DEF CheckpointInv
  <2>4. /\ r \notin reinstated => (heads[r] = e <=> r \in exact /\ r \notin moved)
        /\ r \in exact /\ r \notin moved => heads[r] = e
    BY <2>2, <2>3 DEF CourseInv
  <2>5. CASE heads'[r] = heads[r]
    BY <1>1, <2>4, <2>5
  <2>6. CASE heads'[r] # heads[r]
    BY <1>1, <2>2, <2>3, <2>6
  <2>7. QED
    BY <2>5, <2>6
<1>5. DecisionInv'
  BY DEF DecisionInv, Decided
<1>6. QED
  BY <1>2, <1>3, <1>4, <1>5

\* Whoever moves heads by the registry.
LEMMA OthersMoveKeeps == IndInv /\ OthersMove => IndInv'
<1> SUFFICES ASSUME IndInv, OthersMove PROVE IndInv'
  OBVIOUS
<1>1. \/ \E revision \in Revision : \E make_head \in BOOLEAN : Register(revision, make_head)
      \/ \E expected \in Revision : \E replacement \in Revision :
             ActivateIfHead(expected, replacement)
  BY DEF OthersMove, Next
<1>2. ContinuityTypeOK
  BY DEF IndInv
<1>3. QED
  BY <1>1, <1>2, RegistryStep, MovingHeads DEF OthersMove

LEMMA WriteBackKeeps ==
    ASSUME NEW expected \in Revision, NEW replacement \in Revision
    PROVE  IndInv /\ WriteBack(expected, replacement) => IndInv'
<1> SUFFICES ASSUME IndInv, WriteBack(expected, replacement) PROVE IndInv'
  OBVIOUS
<1>1. ContinuityTypeOK
  BY DEF IndInv
<1>2. CASE ActivateIfHead(expected, replacement) /\ Record /\ pc' = "written"
  BY <1>1, <1>2, RegistryStep, MovingHeads DEF WriteBack
<1>3. CASE pc' = "conflict" /\ UNCHANGED <<registry, moved>>
  <2> USE DEF WriteBack, IndInv, registry, checkpoint, validation
  <2>1. ContinuityTypeOK' /\ CheckpointInv'
    BY <1>3 DEF ContinuityTypeOK, CheckpointInv
  <2>2. Held' = Held
    BY DEF Held
  <2>3. CourseInv' /\ DecisionInv'
    BY <1>3, <2>2 DEF CourseInv, DecisionInv, Decided
  <2>4. QED
    BY <2>1, <2>3
<1>4. QED
  BY <1>2, <1>3 DEF WriteBack

\* The capture: no validation has begun.
LEMMA CaptureKeeps ==
    ASSUME IndInv,
           \/ \E r \in ResourceId : TakeFence(r) \/ CaptureHead(r)
           \/ BuildCheckpoint
    PROVE  IndInv'
<1> USE DEF IndInv, registry, checkpoint, validation
<1>1. CourseInv' /\ DecisionInv'
  BY DEF TakeFence, CaptureHead, BuildCheckpoint, CourseInv, DecisionInv, Decided
<1>2. ASSUME NEW r \in ResourceId, TakeFence(r) PROVE IndInv'
  <2>1. tokens[r] \in Nat /\ tokens[r] + 1 \in Fence /\ tokens'[r] = tokens[r] + 1
        /\ fences[r] = 0 /\ \A q \in ResourceId : tokens[q] \in Nat /\ fences[q] \in Nat
    BY <1>2, Shapes DEF TakeFence, Issue, Fence, ContinuityTypeOK
  <2>2. ContinuityTypeOK'
    BY <1>2, <2>1 DEF TakeFence, Issue, ContinuityTypeOK
  <2>3. \A q \in ResourceId : \/ q # r /\ tokens'[q] = tokens[q] /\ fences'[q] = fences[q]
                              \/ q = r /\ tokens'[q] = fences'[q] /\ fences'[q] \in Nat
    BY <1>2, <2>1 DEF TakeFence, Issue, ContinuityTypeOK
  <2>4. CheckpointInv'
    BY <1>2, <2>1, <2>3 DEF TakeFence, CheckpointInv
  <2>5. QED
    BY <1>1, <2>2, <2>4
<1>3. ASSUME NEW r \in ResourceId, CaptureHead(r) PROVE IndInv'
  <2>1. heads[r] \in Revision /\ heads[r].resource_id = r
    BY <1>3 DEF CheckpointInv, ContinuityTypeOK
  <2>2. ContinuityTypeOK'
    BY <1>3, <2>1 DEF CaptureHead, ContinuityTypeOK
  <2>3. CheckpointInv'
    BY <1>3, <2>1 DEF CaptureHead, CheckpointInv
  <2>4. QED
    BY <1>1, <2>2, <2>3
<1>4. CASE BuildCheckpoint
  BY <1>1, <1>4 DEF BuildCheckpoint, ContinuityTypeOK, CheckpointInv
<1>5. QED
  BY <1>2, <1>3, <1>4

\* The fence registry: a fence taken over stays taken over until a restart.
LEMMA FenceRegistryKeeps ==
    ASSUME IndInv,
           (\E q \in ResourceId : OthersTakeFence(q)) \/ RestartFenceRegistry
    PROVE  IndInv'
<1> USE DEF IndInv, registry, checkpoint, validation
<1>1. Held' = Held /\ DecisionInv'
  BY DEF OthersTakeFence, RestartFenceRegistry, Held, DecisionInv, Decided
<1>2. ASSUME NEW q \in ResourceId, OthersTakeFence(q) PROVE IndInv'
  <2>1. tokens[q] \in Nat /\ tokens[q] + 1 \in Fence
    BY <1>2, Shapes DEF OthersTakeFence, Issue, Fence, ContinuityTypeOK
  <2>2. \A r \in ResourceId : /\ tokens[r] \in Nat /\ tokens'[r] \in Nat /\ fences[r] \in Nat
                              /\ tokens[r] <= tokens'[r]
    BY <1>2, <2>1, Shapes DEF OthersTakeFence, Issue, ContinuityTypeOK
  <2>3. ContinuityTypeOK'
    BY <1>2, <2>1 DEF OthersTakeFence, Issue, ContinuityTypeOK
  <2>4. CheckpointInv'
    BY <1>2, <2>2 DEF OthersTakeFence, CheckpointInv
  <2>5. \A e \in Held : /\ e.resource_id \in ResourceId
                        /\ \/ seenFences[e.resource_id] = None
                           \/ seenFences[e.resource_id] \in Nat
    BY Shapes DEF ContinuityTypeOK, Fence
  <2>6. CourseInv'
    BY <1>1, <1>2, <2>2, <2>5 DEF OthersTakeFence, CourseInv
  <2>7. QED
    BY <1>1, <2>3, <2>4, <2>6
<1>3. CASE RestartFenceRegistry
  <2>1. 0 \in Fence /\ restarted'
    BY <1>3 DEF RestartFenceRegistry, Fence
  <2>2. ContinuityTypeOK'
    BY <1>3, <2>1 DEF RestartFenceRegistry, ContinuityTypeOK
  <2>3. CheckpointInv' /\ CourseInv'
    BY <1>1, <1>3, <2>1 DEF RestartFenceRegistry, CheckpointInv, CourseInv
  <2>4. QED
    BY <1>1, <2>2, <2>3
<1>4. QED
  BY <1>2, <1>3

LEMMA Below == \A a, b \in Nat : a <= b /\ a # b => a < b
  OBVIOUS

\* A validation begins: what it records of its start.
LEMMA BeginValidateKeeps == IndInv /\ BeginValidate => IndInv'
<1> SUFFICES ASSUME IndInv, BeginValidate PROVE IndInv'
  OBVIOUS
<1> USE DEF IndInv, BeginValidate, registry, checkpoint
<1>1. Held' = Held
  BY DEF Held
<1>2. \A e \in Held : e \in snapshot /\ e.resource_id \in ResourceId
  BY Shapes
<1>3. exact' \subseteq ResourceId /\ fenced' \subseteq ResourceId
  BY <1>2
<1>4. ToRead \subseteq {"head", "fence"} \X ResourceId
  BY Shapes DEF ToRead
<1>5. ContinuityTypeOK'
  BY <1>3, <1>4 DEF ContinuityTypeOK, Validity
<1>6. CheckpointInv'
  BY DEF CheckpointInv
<1>7. ASSUME NEW e \in Held
      PROVE  /\ heads[e.resource_id] = e <=> e.resource_id \in exact'
             /\ e.resource_id \notin fenced' => fences[e.resource_id] # tokens[e.resource_id]
             /\ seenHeads'[e.resource_id] # e
             /\ seenFences'[e.resource_id] = None
  <2> DEFINE r == e.resource_id
  <2>1. \A h \in Held : h.resource_id = r => h = e
    BY <1>2 DEF ContinuityTypeOK
  <2>2. e # None /\ r \in ResourceId
    BY <1>2, Shapes
  <2>3. heads[r] = e <=> r \in exact'
    BY <2>1
  <2>4. r \notin fenced' => fences[r] # tokens[r]
    OBVIOUS
  <2>5. seenHeads'[r] # e /\ seenFences'[r] = None
    BY <2>2
  <2>6. QED
    BY <2>3, <2>4, <2>5
<1>8. ASSUME ~restarted, NEW e \in Held, e.resource_id \notin fenced'
      PROVE  fences[e.resource_id] < tokens[e.resource_id]
  <2>1. /\ fences[e.resource_id] <= tokens[e.resource_id]
        /\ fences[e.resource_id] \in Nat /\ tokens[e.resource_id] \in Nat
    BY <1>2, <1>8, Shapes DEF CheckpointInv
  <2>2. fences[e.resource_id] # tokens[e.resource_id]
    BY <1>7, <1>8
  <2>3. QED
    BY ONLY <2>1, <2>2, Below
<1>9. CourseInv'
  BY <1>1, <1>7, <1>8 DEF CourseInv
<1>10. DecisionInv'
  BY DEF DecisionInv, Decided
<1>11. QED
  BY <1>5, <1>6, <1>9, <1>10

\* It reads: a head of the checkpoint it sees was there at its start, a fence it
\* sees is at least as new as then.
LEMMA ReadKeeps ==
    ASSUME IndInv, NEW q \in ResourceId, ReadHead(q) \/ ReadFence(q)
    PROVE  IndInv'
<1> USE DEF IndInv, registry, checkpoint
<1>1. Held' = Held /\ DecisionInv'
  BY DEF ReadHead, ReadFence, Held, DecisionInv, Decided
<1>2. \A e \in Held : e.resource_id \in ResourceId /\ e # None
  BY Shapes
<1>3. CASE ReadHead(q)
  <2>1. ContinuityTypeOK'
    BY <1>3 DEF ReadHead, ContinuityTypeOK
  <2>2. \A r \in ResourceId :
            seenHeads'[r] = seenHeads[r] \/ seenHeads'[r] = None \/ seenHeads'[r] = heads[r]
    BY <1>3 DEF ReadHead, ContinuityTypeOK
  <2>3. CheckpointInv'
    BY <1>3, <2>2 DEF ReadHead, CheckpointInv
  <2>4. CourseInv'
    BY <1>1, <1>2, <1>3, <2>2 DEF ReadHead, CourseInv
  <2>5. QED
    BY <1>1, <2>1, <2>3, <2>4
<1>4. CASE ReadFence(q)
  <2>1. ContinuityTypeOK'
    BY <1>4 DEF ReadFence, ContinuityTypeOK
  <2>2. CheckpointInv'
    BY <1>4 DEF ReadFence, CheckpointInv
  <2>3. \A r \in ResourceId : \/ seenFences'[r] = seenFences[r] \/ seenFences'[r] = None
                              \/ seenFences'[r] = tokens[r]
    BY <1>4 DEF ReadFence, ContinuityTypeOK
  <2>4. \A r \in ResourceId : tokens[r] \in Nat /\ tokens[r] <= tokens[r]
    <3>1. \A r \in ResourceId : tokens[r] \in Nat
      BY Shapes
    <3>2. \A n \in Nat : n <= n
      OBVIOUS
    <3>3. QED
      BY <3>1, <3>2
  <2>5. pc = "validating" /\ UNCHANGED <<heads, tokens, fences, seenHeads, restarted, reinstated,
                                         exact, fenced, moved>>
    BY <1>4 DEF ReadFence
  <2>6. CourseInv'
    BY <1>1, <1>2, <2>3, <2>4, <2>5 DEF CheckpointInv, CourseInv
  <2>7. QED
    BY <1>1, <2>1, <2>2, <2>6
<1>5. QED
  BY <1>3, <1>4

LEMMA DecideKeeps == IndInv /\ Decide => IndInv'
<1> SUFFICES ASSUME IndInv, Decide PROVE IndInv'
  OBVIOUS
<1> USE DEF IndInv, registry, checkpoint
<1>1. /\ validity' \in Reports
      /\ decision' = Validate(snapshot, fences, seenHeads, seenFences, validity')
  BY DEF Decide
<1>2. decision' \in Action /\ validity' \in [ResourceId -> Validity]
  BY <1>1, ValidateBounds
<1>3. ContinuityTypeOK'
  BY <1>2 DEF Decide, ContinuityTypeOK
<1>4. Held' = Held /\ CheckpointInv'
  BY DEF Decide, Held, CheckpointInv
<1>5. CourseInv'
  BY <1>4 DEF Decide, CourseInv
<1>6. DecisionInv'
  BY <1>1 DEF Decide, DecisionInv
<1>7. QED
  BY <1>3, <1>4, <1>5, <1>6

\* The inductive invariant holds in every state.
THEOREM Invariance == ContinuitySpec => []IndInv
<1>1. ASSUME IndInv, [ContinuityNext]_allVars PROVE IndInv'
  <2>1. CASE UNCHANGED allVars
    <3> USE <2>1 DEF allVars, registry, checkpoint, validation
    <3>1. ContinuityTypeOK' /\ CheckpointInv'
      BY <1>1 DEF IndInv, ContinuityTypeOK, CheckpointInv
    <3>2. Held' = Held /\ CourseInv'
      BY <1>1 DEF IndInv, CourseInv, Held
    <3>3. DecisionInv'
      BY <1>1 DEF IndInv, DecisionInv, Decided
    <3>4. QED
      BY <3>1, <3>2, <3>3 DEF IndInv
  <2>2. CASE ContinuityNext
    <3>1. CASE \E r \in ResourceId : OthersTakeFence(r) \/ TakeFence(r) \/ CaptureHead(r)
      BY <1>1, <3>1, FenceRegistryKeeps, CaptureKeeps
    <3>2. CASE \E r \in ResourceId : ReadHead(r) \/ ReadFence(r)
      BY <1>1, <3>2, ReadKeeps
    <3>3. CASE RestartFenceRegistry \/ BuildCheckpoint
      BY <1>1, <3>3, FenceRegistryKeeps, CaptureKeeps
    <3>4. CASE OthersMove \/ BeginValidate \/ Decide
      BY <1>1, <3>4, OthersMoveKeeps, BeginValidateKeeps, DecideKeeps
    <3>5. CASE \E expected, replacement \in Revision : WriteBack(expected, replacement)
      BY <1>1, <3>5, WriteBackKeeps
    <3>6. QED
      BY <2>2, <3>1, <3>2, <3>3, <3>4, <3>5 DEF ContinuityNext
  <2>3. QED
    BY <1>1, <2>1, <2>2
<1>2. QED
  BY Initial, <1>1, PTL DEF ContinuitySpec

-------------------------------------------------------------------------------
(* What the validations guarantee *)

\* Every variable keeps its type, for any resources, revisions, rules and fences:
\* the type invariant of the checkpoint and its validations (recovery.py).
THEOREM TypeCorrect == ContinuitySpec => []ContinuityTypeOK
<1>1. IndInv => ContinuityTypeOK
  BY DEF IndInv
<1>2. QED
  BY <1>1, Invariance, PTL

\* What a decision says of one resource of the checkpoint.
LEMMA DecisionBounds ==
    ASSUME IndInv, Decided, NEW e \in snapshot
    PROVE  LET r == e.resource_id
               head == ResourceAction(e, seenHeads[r], validity[r])
               fence == FenceAction(e, fences[r], seenHeads[r], seenFences[r])
           IN /\ decision \in Action
              /\ Priority[head] <= Priority[decision] /\ Priority[fence] <= Priority[decision]
              /\ decision = "RECOVER" => head = "CONTINUE" /\ fence = "CONTINUE"
<1>1. decision = Validate(snapshot, fences, seenHeads, seenFences, validity)
  BY DEF IndInv, DecisionInv
<1>2. QED
  BY <1>1, ValidateBounds

\* What RECOVER says of one resource of the checkpoint: its head was read and is
\* that of the checkpoint or compatible with it, and a held fence was current.
LEMMA RecoverMeans ==
    ASSUME IndInv, Decided, decision = "RECOVER", NEW e \in snapshot
    PROVE  LET r == e.resource_id
           IN /\ validity[r] = "VALID" /\ seenHeads[r] # None
              /\ seenHeads[r] = e \/ Classify(e, seenHeads[r]) = "COMPATIBLE"
              /\ e \in Held => seenHeads[r] = e /\ seenFences[r] # None /\ ~(fences[r] < seenFences[r])
<1> DEFINE r == e.resource_id
<1>1. /\ ResourceAction(e, seenHeads[r], validity[r]) = "CONTINUE"
      /\ FenceAction(e, fences[r], seenHeads[r], seenFences[r]) = "CONTINUE"
  BY DecisionBounds
<1>2. /\ validity[r] = "VALID" /\ seenHeads[r] # None
      /\ ~Differs(e, seenHeads[r]) \/ Classify(e, seenHeads[r]) = "COMPATIBLE"
  BY <1>1, ResourceContinues
<1>3. e \in Revision /\ r \in ResourceId
  BY Shapes DEF IndInv
<1>4. seenHeads[r] \in Revision /\ seenHeads[r].resource_id = r
  BY <1>2, <1>3 DEF IndInv, ContinuityTypeOK, CheckpointInv
<1>5. ~Differs(e, seenHeads[r]) => seenHeads[r] = e
  BY <1>3, <1>4 DEF Differs
<1>6. ASSUME e \in Held
      PROVE  seenHeads[r] = e /\ seenFences[r] # None /\ ~(fences[r] < seenFences[r])
  <2>1. fences[r] # 0
    BY <1>6 DEF Held
  <2>2. QED
    BY <1>1, <1>2, <2>1 DEF FenceAction, ConcurCheck
<1>7. QED
  BY <1>2, <1>5, <1>6

\* An agent is let through only on valid resources whose heads were read and are
\* those of the checkpoint, or compatible and not to be written: a changed
\* dependency is not silently valid (RecoveryEngine.validate).
THEOREM RecoverIsEarnedHolds == ContinuitySpec => []RecoverIsEarned
<1>1. IndInv => RecoverIsEarned
  BY RecoverMeans DEF RecoverIsEarned
<1>2. QED
  BY <1>1, Invariance, PTL

\* A head, a validity or a held fence that is not known pauses or aborts
\* (DecisionEngine.check, RecoveryEngine.validate).
THEOREM UnknownIsNotPromotedHolds == ContinuitySpec => []UnknownIsNotPromoted
<1>1. ASSUME IndInv, Decided, NEW e \in snapshot,
             \/ seenHeads[e.resource_id] = None
             \/ validity[e.resource_id] = "UNKNOWN"
             \/ e \in Held /\ seenFences[e.resource_id] = None
      PROVE  decision \in {"PAUSE", "ABORT"}
  <2> DEFINE r == e.resource_id
             head == ResourceAction(e, seenHeads[r], validity[r])
             fence == FenceAction(e, fences[r], seenHeads[r], seenFences[r])
  <2>1. head = "PAUSE" \/ fence = "PAUSE"
    <3>1. CASE seenHeads[r] = None \/ validity[r] = "UNKNOWN"
      BY <3>1 DEF ResourceAction
    <3>2. CASE seenHeads[r] # None /\ e \in Held /\ seenFences[r] = None
      <4>1. fences[r] # 0
        BY <3>2 DEF Held
      <4>2. QED
        BY <3>2, <4>1 DEF FenceAction
    <3>3. QED
      BY <1>1, <3>1, <3>2
  <2>2. /\ decision \in Action
        /\ Priority[head] <= Priority[decision] /\ Priority[fence] <= Priority[decision]
    BY <1>1, DecisionBounds
  <2> HIDE DEF head, fence
  <2>3. QED
    BY <2>1, <2>2 DEF Action, Priority
<1>2. IndInv => UnknownIsNotPromoted
  BY <1>1 DEF UnknownIsNotPromoted
<1>3. QED
  BY <1>2, Invariance, PTL

\* A worker whose fence was taken over aborts, whatever else happened (ConcurEngine.check).
THEOREM StaleFenceAbortsHolds == ContinuitySpec => []StaleFenceAborts
<1>1. ASSUME IndInv, Decided, NEW e \in Held,
             seenHeads[e.resource_id] # None, seenFences[e.resource_id] # None,
             fences[e.resource_id] < seenFences[e.resource_id]
      PROVE  decision = "ABORT"
  <2> DEFINE r == e.resource_id
             fence == FenceAction(e, fences[r], seenHeads[r], seenFences[r])
  <2>1. fences[r] # 0 /\ e \in snapshot
    BY <1>1 DEF Held
  <2>2. fence = "ABORT"
    BY <1>1, <2>1 DEF FenceAction, ConcurCheck
  <2>3. decision \in Action /\ Priority[fence] <= Priority[decision]
    BY <1>1, <2>1, DecisionBounds
  <2> HIDE DEF fence
  <2>4. QED
    BY <2>2, <2>3 DEF Action, Priority
<1>2. IndInv => StaleFenceAborts
  BY <1>1 DEF StaleFenceAborts
<1>3. QED
  BY <1>2, Invariance, PTL

\* Behind every answer but RECOVER there is a resource that is reported not valid
\* or could not be read, or whose head has moved or fence was taken by another
\* since the checkpoint, or that only is read and drifted without a rule that
\* makes it compatible (RecoveryEngine.validate).
THEOREM RefusalHasCauseHolds == ContinuitySpec => []RefusalHasCause
<1>1. ASSUME IndInv, Decided, NEW e \in snapshot,
             LET r == e.resource_id
             IN /\ validity[r] = "VALID" /\ seenHeads[r] # None
                /\ e \notin Held => seenHeads[r] = e \/ Classify(e, seenHeads[r]) = "COMPATIBLE"
                /\ e \in Held => /\ r \in exact /\ r \notin moved
                                 /\ seenFences[r] # None /\ tokens[r] = fences[r] /\ ~restarted
      PROVE  LET r == e.resource_id
             IN /\ ResourceAction(e, seenHeads[r], validity[r]) = "CONTINUE"
                /\ FenceAction(e, fences[r], seenHeads[r], seenFences[r]) = "CONTINUE"
  <2> DEFINE r == e.resource_id
  <2>1. r \in ResourceId /\ fences[r] \in Nat /\ (e \in Held <=> fences[r] # 0)
    <3>1. ContinuityTypeOK /\ CheckpointInv
      BY <1>1 DEF IndInv
    <3>2. r \in ResourceId /\ fences[r] \in Nat
      BY <3>1, Shapes
    <3>3. QED
      BY <3>2 DEF Held
  <2>2. CASE e \notin Held
    <3>1. ~Differs(e, seenHeads[r]) \/ Classify(e, seenHeads[r]) = "COMPATIBLE"
      BY <1>1, <2>2 DEF Differs
    <3>2. QED
      BY <1>1, <2>1, <2>2, <3>1, ResourceContinuesIf DEF FenceAction
  <2>3. CASE e \in Held
    <3>1. seenHeads[r] = e /\ fences[r] <= seenFences[r] /\ seenFences[r] <= tokens[r]
      BY <1>1, <2>3 DEF IndInv, CourseInv, Decided
    <3>2. seenFences[r] \in Nat
      BY <1>1, <2>1, <2>3 DEF IndInv, ContinuityTypeOK, Fence
    <3>3. seenFences[r] = fences[r]
      BY <1>1, <2>1, <2>3, <3>1, <3>2
    <3>4. ~Differs(e, seenHeads[r])
      BY <3>1 DEF Differs
    <3>5. FenceAction(e, fences[r], seenHeads[r], seenFences[r]) = "CONTINUE"
      BY <1>1, <2>1, <2>3, <3>1, <3>2, <3>3 DEF FenceAction, ConcurCheck
    <3>6. QED
      BY <1>1, <3>4, <3>5, ResourceContinuesIf
  <2>4. QED
    BY <2>2, <2>3
<1>2. IndInv => RefusalHasCause
  <2> SUFFICES ASSUME IndInv, Decided, ~RefusalHasCause PROVE decision = "RECOVER"
    BY DEF RefusalHasCause
  <2>1. \A e \in snapshot :
            LET r == e.resource_id
            IN /\ ResourceAction(e, seenHeads[r], validity[r]) = "CONTINUE"
               /\ FenceAction(e, fences[r], seenHeads[r], seenFences[r]) = "CONTINUE"
    BY <1>1 DEF RefusalHasCause
  <2>2. Validate(snapshot, fences, seenHeads, seenFences, validity) = "RECOVER"
    BY <2>1, RecoverIfAllContinue
  <2>3. QED
    BY <2>2 DEF IndInv, DecisionInv
<1>3. QED
  BY <1>2, Invariance, PTL

\* RECOVER is true of the instant at which the validation began, although heads
\* and fences are read one at a time while both move, unless a superseded
\* revision was made head again or the fence registry restarted.
THEOREM RecoverWasTrueAtStartHolds == ContinuitySpec => []RecoverWasTrueAtStart
<1>1. ASSUME IndInv, Decided, decision = "RECOVER", NEW e \in Held
      PROVE  /\ e.resource_id \notin reinstated => e.resource_id \in exact
             /\ ~restarted => e.resource_id \in fenced
  <2> DEFINE r == e.resource_id
  <2>1. e \in snapshot
    BY DEF Held
  <2>2. seenHeads[r] = e /\ seenFences[r] # None /\ ~(fences[r] < seenFences[r])
    BY <1>1, <2>1, RecoverMeans
  <2>3. /\ r \notin reinstated => (seenHeads[r] = e => r \in exact)
        /\ ~restarted /\ r \notin fenced => (seenFences[r] # None => fences[r] < seenFences[r])
    BY <1>1 DEF IndInv, CourseInv, Decided
  <2>4. QED
    BY <2>2, <2>3
<1>2. IndInv => RecoverWasTrueAtStart
  BY <1>1 DEF RecoverWasTrueAtStart
<1>3. QED
  BY <1>2, Invariance, PTL

\* A recovered agent writes no resource whose head was moved since its validation
\* began, except one whose head is back at a superseded revision, which
\* activate_if_head cannot tell.
THEOREM NoWriteOverNewerHeadHolds == ContinuitySpec => NoWriteOverNewerHead
<1>1. ASSUME IndInv, [ContinuityNext]_allVars, pc' = "written", pc # "written",
             NEW r \in moved, heads'[r] # heads[r]
      PROVE  r \in reinstated
  <2>1. PICK expected \in Revision, replacement \in Revision :
            WriteBack(expected, replacement) /\ ActivateIfHead(expected, replacement)
    BY <1>1 DEF ContinuityNext, allVars, OthersMove, OthersTakeFence, TakeFence, CaptureHead,
                ReadHead, ReadFence, RestartFenceRegistry, BuildCheckpoint, BeginValidate,
                Decide, WriteBack
  <2>2. r \in ResourceId /\ heads \in [ResourceId -> Revision \union {None}]
    BY <1>1 DEF IndInv, ContinuityTypeOK
  <2>3. r = expected.resource_id /\ heads[r] = expected
    BY <1>1, <2>1, <2>2 DEF ActivateIfHead, Register
  <2>4. expected \in Held /\ pc = "decided"
    BY <2>1 DEF WriteBack
  <2>5. r \notin reinstated => (heads[r] = expected => r \notin moved)
    BY <1>1, <2>3, <2>4 DEF IndInv, CourseInv
  <2>6. QED
    BY <2>3, <2>5
<1>2. IndInv /\ [ContinuityNext]_allVars
      => [pc' = "written" /\ pc # "written" =>
              \A r \in moved : heads'[r] # heads[r] => r \in reinstated]_allVars
  BY <1>1
<1>3. QED
  BY <1>2, Invariance, PTL DEF ContinuitySpec, NoWriteOverNewerHead
===============================================================================
