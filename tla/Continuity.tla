------------------------------ MODULE Continuity ------------------------------
(***************************************************************************)
(* One agent's continuity across a pause: it takes fences and captures a   *)
(* RecoveryCheckpoint (recovery.py), the world moves on, and a restored    *)
(* copy of it is validated against heads and fences that the caller reads  *)
(* one at a time, as StorageAdapter.head and FenceRegistry.current return  *)
(* them, while heads keep moving.  A recovered agent writes its resources  *)
(* back by compare-and-set.                                                *)
(*                                                                         *)
(* The world: any use of the registry (StateRegistry!Next), fences taken   *)
(* by other workers, a restart of the process that holds the in-memory     *)
(* FenceRegistry, a head or a fence that cannot be read, and any validity  *)
(* metadata RECALL may report.                                             *)
(***************************************************************************)
EXTENDS StateRegistry, Kernel

CONSTANTS
    InitialHead, \* the head each resource is registered with
    Writable,   \* the resources the agent writes
    Reports,    \* the validity metadata RECALL reports
    MaxFence    \* bound: fences taken per resource

ASSUME ContinuityAssumption ==
    /\ InitialHead \in [ResourceId -> Revision]
    /\ \A r \in ResourceId : InitialHead[r].resource_id = r
    /\ Writable \subseteq ResourceId
    /\ Reports \subseteq [ResourceId -> Validity]
    /\ MaxFence \in Nat

VARIABLES
    tokens,     \* FenceRegistry._tokens: the last fence taken, 0 before the first
    pc,         \* what the agent is doing
    snapshot,   \* the checkpoint's snapshot
    fences,     \* the checkpoint's fence on a resource, 0 for none
    unread,     \* the heads and fences a validation has still to read
    seenHeads,  \* the heads it has read, None for one that it could not
    seenFences, \* the fences it has read, None for one that it could not
    validity,   \* the validity metadata of the last validation
    decision,   \* its action
    past,       \* history: revisions of writable resources that have been a head
    reinstated, \* history: writable resources whose head is back at a superseded one
    restarted,  \* history: the fence registry has been restarted
    exact,      \* history: written resources at the checkpoint's head when it began
    fenced,     \* history: written resources under the agent's fence when it began
    moved       \* history: writable resources whose head was moved since it began

registry == <<revisions, heads, past, reinstated>>
checkpoint == <<snapshot, fences>>
validation == <<unread, seenHeads, seenFences, validity, decision, exact, fenced>>
allVars == <<registry, tokens, pc, checkpoint, validation, restarted, moved>>

Fence == 0..MaxFence
Held == {e \in snapshot : fences[e.resource_id] > 0}   \* what the agent may write
ToRead == {<<kind, r>> : kind \in {"head", "fence"}, r \in {e.resource_id : e \in snapshot}}

ContinuityTypeOK ==
    /\ revisions \subseteq Revision
    /\ heads \in [ResourceId -> Revision \union {None}]
    /\ tokens \in [ResourceId -> Fence]
    /\ pc \in {"capturing", "captured", "validating", "decided", "written", "conflict"}
    /\ snapshot \subseteq Revision
    /\ \A a, b \in snapshot : a.resource_id = b.resource_id => a = b
    /\ fences \in [ResourceId -> Fence]
    /\ unread \subseteq {"head", "fence"} \X ResourceId
    /\ seenHeads \in [ResourceId -> Revision \union {None}]
    /\ seenFences \in [ResourceId -> Fence \union {None}]
    /\ validity \in [ResourceId -> Validity]
    /\ decision \in Action \union {None}
    /\ past \subseteq Revision
    /\ reinstated \subseteq ResourceId /\ restarted \in BOOLEAN
    /\ exact \subseteq ResourceId /\ fenced \subseteq ResourceId /\ moved \subseteq ResourceId

ContinuityInit ==
    /\ revisions = {InitialHead[r] : r \in ResourceId}
    /\ heads = InitialHead
    /\ tokens = [r \in ResourceId |-> 0]
    /\ pc = "capturing"
    /\ snapshot = {}
    /\ fences = [r \in ResourceId |-> 0]
    /\ unread = {}
    /\ seenHeads = [r \in ResourceId |-> None]
    /\ seenFences = [r \in ResourceId |-> None]
    /\ validity = [r \in ResourceId |-> "VALID"]
    /\ decision = None
    /\ past = {InitialHead[r] : r \in Writable}
    /\ reinstated = {}
    /\ restarted = FALSE
    /\ exact = {}
    /\ fenced = {}
    /\ moved = {}

-------------------------------------------------------------------------------
(* The world *)

\* History of a registry step: which heads it moved, and to what.
Record ==
    LET changed == {r \in Writable : heads'[r] # heads[r]}
    IN /\ past' = past \union {heads'[r] : r \in changed}
       /\ reinstated' = reinstated \union {r \in changed : heads'[r] \in past}
       /\ moved' = moved \union changed

\* Any use of the registry that moves a head, with or without compare-and-set.
OthersMove ==
    /\ Next
    /\ heads' # heads
    /\ Record
    /\ UNCHANGED <<tokens, pc, checkpoint, validation, restarted>>

\* FenceRegistry.issue
Issue(r) ==
    /\ tokens[r] < MaxFence
    /\ tokens' = [tokens EXCEPT ![r] = @ + 1]

OthersTakeFence(r) ==
    /\ r \in Writable
    /\ Issue(r)
    /\ UNCHANGED <<registry, pc, checkpoint, validation, restarted, moved>>

RestartFenceRegistry ==
    /\ tokens' = [r \in ResourceId |-> 0]
    /\ restarted' = TRUE
    /\ UNCHANGED <<registry, pc, checkpoint, validation, moved>>

-------------------------------------------------------------------------------
(* The agent *)

\* The agent takes the fence of a resource it is going to write.
TakeFence(r) ==
    /\ pc = "capturing"
    /\ r \in Writable
    /\ fences[r] = 0
    /\ Issue(r)
    /\ fences' = [fences EXCEPT ![r] = tokens'[r]]
    /\ UNCHANGED <<registry, pc, snapshot, validation, restarted, moved>>

\* Defect: a resource may be captured again.
CaptureHead_Twice(r) ==
    /\ pc = "capturing"
    /\ snapshot' = snapshot \union {heads[r]}
    /\ UNCHANGED <<registry, tokens, pc, fences, validation, restarted, moved>>

\* Each resource has one place in the snapshot (ContinuitySnapshot.build).
CaptureHead(r) ==
    /\ pc = "capturing"
    /\ \A e \in snapshot : e.resource_id # r
    /\ snapshot' = snapshot \union {heads[r]}
    /\ UNCHANGED <<registry, tokens, pc, fences, validation, restarted, moved>>

\* RecoveryCheckpoint.build refuses a fence on a resource outside the snapshot.
BuildCheckpoint ==
    /\ pc = "capturing"
    /\ snapshot # {}
    /\ \A r \in ResourceId : fences[r] > 0 => \E e \in snapshot : e.resource_id = r
    /\ pc' = "captured"
    /\ UNCHANGED <<registry, tokens, checkpoint, validation, restarted, moved>>

\* Defect: a repeated validation reuses what the last one read.
BeginValidate_Cached ==
    /\ pc \in {"captured", "decided"}
    /\ decision \notin {"RECOVER", "ABORT"}
    /\ pc' = "validating"
    /\ unread' = IF pc = "captured" THEN ToRead ELSE {}
    /\ decision' = None
    /\ exact' = {e.resource_id : e \in {h \in Held : heads[h.resource_id] = h}}
    /\ fenced' = {e.resource_id : e \in {h \in Held : fences[h.resource_id] = tokens[h.resource_id]}}
    /\ moved' = {}
    /\ UNCHANGED <<registry, tokens, checkpoint, seenHeads, seenFences, validity, restarted>>

\* A restored agent, or one that was not let through, validates (again).
BeginValidate ==
    /\ pc \in {"captured", "decided"}
    /\ decision \notin {"RECOVER", "ABORT"}
    /\ pc' = "validating"
    /\ unread' = ToRead
    /\ seenHeads' = [r \in ResourceId |-> None]
    /\ seenFences' = [r \in ResourceId |-> None]
    /\ decision' = None
    /\ validity' = [r \in ResourceId |-> "VALID"]
    /\ exact' = {e.resource_id : e \in {h \in Held : heads[h.resource_id] = h}}
    /\ fenced' = {e.resource_id : e \in {h \in Held : fences[h.resource_id] = tokens[h.resource_id]}}
    /\ moved' = {}
    /\ UNCHANGED <<registry, tokens, checkpoint, restarted>>

ReadHead(r) ==
    /\ pc = "validating"
    /\ <<"head", r>> \in unread
    /\ unread' = unread \ {<<"head", r>>}
    /\ \E head \in {heads[r], None} : seenHeads' = [seenHeads EXCEPT ![r] = head]
    /\ UNCHANGED <<registry, tokens, pc, checkpoint, seenFences, validity, decision, restarted,
                   exact, fenced, moved>>

ReadFence(r) ==
    /\ pc = "validating"
    /\ <<"fence", r>> \in unread
    /\ unread' = unread \ {<<"fence", r>>}
    /\ \E fence \in {tokens[r], None} : seenFences' = [seenFences EXCEPT ![r] = fence]
    /\ UNCHANGED <<registry, tokens, pc, checkpoint, seenHeads, validity, decision, restarted,
                   exact, fenced, moved>>

Decide ==
    /\ pc = "validating"
    /\ unread = {}
    /\ \E reported \in Reports :
           /\ validity' = reported
           /\ decision' = Validate(snapshot, fences, seenHeads, seenFences, reported)
    /\ pc' = "decided"
    /\ UNCHANGED <<registry, tokens, checkpoint, unread, seenHeads, seenFences, restarted,
                   exact, fenced, moved>>

\* A recovered agent writes back a resource that it holds the fence of, by
\* activate_if_head from the head of its snapshot.
WriteBack(expected, replacement) ==
    /\ pc = "decided" /\ decision = "RECOVER"
    /\ expected \in Held
    /\ expected.resource_id = replacement.resource_id
    /\ \/ /\ ActivateIfHead(expected, replacement)
          /\ Record
          /\ pc' = "written"
       \/ /\ heads[expected.resource_id] # expected \/ Conflicts(replacement, revisions)
          /\ pc' = "conflict"
          /\ UNCHANGED <<registry, moved>>
    /\ UNCHANGED <<tokens, checkpoint, validation, restarted>>

-------------------------------------------------------------------------------

ContinuityNext ==
    \/ OthersMove
    \/ \E r \in ResourceId :
           \/ OthersTakeFence(r)
           \/ TakeFence(r)
           \/ CaptureHead(r)
           \/ ReadHead(r)
           \/ ReadFence(r)
    \/ RestartFenceRegistry
    \/ BuildCheckpoint
    \/ BeginValidate
    \/ Decide
    \/ \E expected, replacement \in Revision : WriteBack(expected, replacement)

ContinuitySpec == ContinuityInit /\ [][ContinuityNext]_allVars

-------------------------------------------------------------------------------
(* Properties *)

Decided == pc \in {"decided", "written", "conflict"}

\* RECOVER is about one instant, although heads and fences were read one at a
\* time and the checkpoint was captured one head at a time: when the validation
\* began, every resource the agent may write was at the head of the checkpoint
\* under the agent's fence, unless a superseded revision had been made head again
\* or the fence registry restarted.  A torn checkpoint never recovers.
RecoverWasTrueAtStart ==
    Decided /\ decision = "RECOVER" =>
        \A e \in Held :
            /\ e.resource_id \notin reinstated => e.resource_id \in exact
            /\ ~restarted => e.resource_id \in fenced

\* A changed dependency is not silently valid (CONSTITUTION I3): an agent is let
\* through only on valid resources whose heads were read and are those of the
\* checkpoint, or compatible by an explicit rule and not to be written.
RecoverIsEarned ==
    Decided /\ decision = "RECOVER" =>
        \A e \in snapshot :
            LET r == e.resource_id
            IN /\ validity[r] = "VALID"
               /\ seenHeads[r] # None
               /\ \/ seenHeads[r] = e
                  \/ e \notin Held /\ Classify(e, seenHeads[r]) = "COMPATIBLE"

\* Unknown is not promoted (CONSTITUTION I7): a head, a validity or a held fence
\* that is not known lets the agent neither through nor revalidate.
UnknownIsNotPromoted ==
    Decided =>
        \A e \in snapshot :
            LET r == e.resource_id
            IN \/ seenHeads[r] = None
               \/ validity[r] = "UNKNOWN"
               \/ e \in Held /\ seenFences[r] = None
               => decision \in {"PAUSE", "ABORT"}

\* A worker whose fence was taken over aborts, whatever else happened to the
\* resources it can read (ADR-0004, "stale fencing outranks a head conflict").
StaleFenceAborts ==
    Decided =>
        \A e \in Held :
            LET r == e.resource_id
            IN seenHeads[r] # None /\ seenFences[r] # None /\ fences[r] < seenFences[r]
               => decision = "ABORT"

\* An agent is not refused for nothing: behind every answer but RECOVER there is a
\* resource that is reported not valid or could not be read, or whose head has
\* moved or fence was taken by another since the checkpoint, or that only is read
\* and drifted without a rule that makes it compatible.
RefusalHasCause ==
    Decided /\ decision # "RECOVER" =>
        \E e \in snapshot :
            LET r == e.resource_id
            IN \/ validity[r] # "VALID" \/ seenHeads[r] = None
               \/ e \notin Held /\ seenHeads[r] # e /\ Classify(e, seenHeads[r]) # "COMPATIBLE"
               \/ /\ e \in Held
                  /\ \/ r \notin exact \/ r \in moved
                     \/ seenFences[r] = None \/ tokens[r] # fences[r] \/ restarted

\* A stale writer cannot advance a newer head (CONSTITUTION I4): a recovered agent
\* writes only resources whose head nobody moved since its validation began,
\* except back to a superseded revision, which compare-and-set cannot tell.
NoWriteOverNewerHead ==
    [][pc' = "written" /\ pc # "written" =>
           \A r \in moved : heads'[r] # heads[r] => r \in reinstated]_allVars

\* What the agent's checkpoint and the registries guarantee at any time.
CheckpointInv ==
    /\ \A r \in ResourceId : heads[r] # None /\ heads[r].resource_id = r
    /\ \A r \in Writable : heads[r] \in past
    /\ \A e \in snapshot : e.resource_id \in Writable => e \in past
    /\ \A r \in ResourceId : seenHeads[r] # None => seenHeads[r].resource_id = r
    /\ \A r \in ResourceId : fences[r] > 0 => r \in Writable
    /\ ~restarted => \A r \in ResourceId : fences[r] <= tokens[r]

\* How a validation's start, what it read since and the present are related: a
\* head away from the checkpoint comes back only by reinstatement, one that was
\* there and has not moved was read as such, and a fence taken over stays taken
\* over until a restart.
CourseInv ==
    pc \in {"validating", "decided", "written", "conflict"} =>
        \A e \in Held :
            LET r == e.resource_id
            IN /\ r \notin reinstated =>
                      /\ heads[r] = e <=> r \in exact /\ r \notin moved
                      /\ seenHeads[r] = e => r \in exact
               /\ ~restarted /\ r \notin fenced =>
                      /\ fences[r] < tokens[r]
                      /\ seenFences[r] # None => fences[r] < seenFences[r]
               /\ r \in exact /\ r \notin moved => heads[r] = e /\ seenHeads[r] \in {e, None}
               /\ ~restarted /\ seenFences[r] # None =>
                      fences[r] <= seenFences[r] /\ seenFences[r] <= tokens[r]

DecisionInv ==
    Decided => decision = Validate(snapshot, fences, seenHeads, seenFences, validity)

\* The inductive invariant.
IndInv == ContinuityTypeOK /\ CheckpointInv /\ CourseInv /\ DecisionInv

-------------------------------------------------------------------------------
(* A claim of the repository that the code does not meet *)

\* "future/unverifiable fence -> PAUSE" (ADR-0004), and PAUSE outranks REVALIDATE
\* (ADR-0003).
FutureFencePauses ==
    Decided =>
        \A e \in Held :
            LET r == e.resource_id
            IN seenHeads[r] # None /\ seenFences[r] # None /\ fences[r] > seenFences[r]
               => decision \in {"PAUSE", "ABORT"}
===============================================================================
