-------------------------------- MODULE Kernel --------------------------------
(***************************************************************************)
(* The decision layers of the kernel as operators: SEMLOCK (semlock.py),   *)
(* the decision engine (kernel.py), CONCUR (concur.py) and recovery        *)
(* (recovery.py).  Each engine walks its inputs in canonical order and     *)
(* keeps the stronger action, which is the strongest of a set.  Reason     *)
(* codes and witnesses, which record the decision, are left out.           *)
(***************************************************************************)
EXTENDS Domain, Integers

CONSTANTS
    Rules,     \* the comparator's compatibility rules
    Default    \* the comparator's classification where no rule matches

Action == {"CONTINUE", "RECOVER", "REVALIDATE", "PAUSE", "ABORT"}
Validity == {"VALID", "STALE", "REVALIDATING", "SUPERSEDED", "INVALID", "UNKNOWN"}
Drift == {"UNCHANGED", "COMPATIBLE", "REVALIDATION_REQUIRED", "BREAKING", "UNKNOWN"}

Rule == [resource_id : ResourceId, from_revision : RevisionId, to_revision : RevisionId,
         classification : Drift]

\* The rule-based comparator refuses conflicting rules; the exact comparator is
\* the one without rules.
ASSUME RulesAssumption ==
    /\ Rules \subseteq Rule
    /\ Default \in Drift
    /\ \A a, b \in Rules :
           /\ a.resource_id = b.resource_id
           /\ a.from_revision = b.from_revision
           /\ a.to_revision = b.to_revision
           => a.classification = b.classification

Priority ==
    [CONTINUE |-> 0, RECOVER |-> 1, REVALIDATE |-> 2, PAUSE |-> 3, ABORT |-> 4]

\* The action left by _stronger over the actions of S.
Strongest(S) == CHOOSE a \in S : \A b \in S : Priority[b] <= Priority[a]

-------------------------------------------------------------------------------
(* SEMLOCK *)

RulesFor(expected, current) ==
    {rule \in Rules : /\ rule.resource_id = expected.resource_id
                      /\ rule.from_revision = expected.revision
                      /\ rule.to_revision = current.revision}

Classify(expected, current) ==
    IF expected = current THEN "UNCHANGED"
    ELSE IF expected.resource_id # current.resource_id \/ expected.revision = current.revision
         THEN "UNKNOWN"
    ELSE IF RulesFor(expected, current) = {} THEN Default
    ELSE (CHOOSE rule \in RulesFor(expected, current) : TRUE).classification

-------------------------------------------------------------------------------
(* The decision engine *)

\* A changed revision classified UNCHANGED is a contradiction, and pauses.
DriftAction(drift) ==
    CASE drift = "COMPATIBLE" -> "CONTINUE"
      [] drift = "REVALIDATION_REQUIRED" -> "REVALIDATE"
      [] drift = "BREAKING" -> "ABORT"
      [] OTHER -> "PAUSE"

Differs(expected, current) ==
    current.revision # expected.revision \/ current.digest # expected.digest

\* Defect: a resource that cannot be read is only revalidated.
ResourceAction_UnknownRevalidates(expected, current, validity) ==
    IF current = None \/ validity = "UNKNOWN" THEN "REVALIDATE"
    ELSE IF validity = "INVALID" THEN "ABORT"
    ELSE Strongest({IF validity = "VALID" THEN "CONTINUE" ELSE "REVALIDATE",
                    IF Differs(expected, current)
                    THEN DriftAction(Classify(expected, current)) ELSE "CONTINUE"})

\* What one resource of the snapshot asks for.
ResourceAction(expected, current, validity) ==
    IF current = None \/ validity = "UNKNOWN" THEN "PAUSE"
    ELSE IF validity = "INVALID" THEN "ABORT"
    ELSE Strongest({IF validity = "VALID" THEN "CONTINUE" ELSE "REVALIDATE",
                    IF Differs(expected, current)
                    THEN DriftAction(Classify(expected, current)) ELSE "CONTINUE"})

\* DecisionEngine.check
Check(snapshot, heads, validity, recovery_requested) ==
    LET action == Strongest({"CONTINUE"} \union
                            {ResourceAction(expected, heads[expected.resource_id],
                                            validity[expected.resource_id])
                             : expected \in snapshot})
    IN IF recovery_requested /\ action = "CONTINUE" THEN "RECOVER" ELSE action

-------------------------------------------------------------------------------
(* CONCUR *)

\* Defect: only a fence that is too new is refused.
ConcurCheck_NoStaleFence(expected, fence, current_head, current_fence) ==
    IF current_head.resource_id # expected.resource_id THEN "ABORT"
    ELSE IF current_head # expected THEN "REVALIDATE"
    ELSE IF fence > current_fence THEN "PAUSE"
    ELSE "CONTINUE"

\* Defect: the head is not compared.
ConcurCheck_NoHead(expected, fence, current_head, current_fence) ==
    IF current_head.resource_id # expected.resource_id THEN "ABORT"
    ELSE IF fence < current_fence THEN "ABORT"
    ELSE IF fence > current_fence THEN "PAUSE"
    ELSE "CONTINUE"

\* Defect: the fence has to be newer than the current one.
ConcurCheck_RefusesCurrent(expected, fence, current_head, current_fence) ==
    IF current_head.resource_id # expected.resource_id THEN "ABORT"
    ELSE IF fence <= current_fence THEN "ABORT"
    ELSE IF current_head # expected THEN "REVALIDATE"
    ELSE "CONTINUE"

\* ConcurEngine.check.  A changed head replaces the PAUSE of a future fence.
ConcurCheck(expected, fence, current_head, current_fence) ==
    IF current_head.resource_id # expected.resource_id THEN "ABORT"
    ELSE IF fence < current_fence THEN "ABORT"
    ELSE IF current_head # expected THEN "REVALIDATE"
    ELSE IF fence > current_fence THEN "PAUSE"
    ELSE "CONTINUE"

-------------------------------------------------------------------------------
(* Recovery *)

\* What one fence of the checkpoint asks for; 0 means that the checkpoint holds
\* none for the resource, None that the current one is not known.
FenceAction(expected, fence, current_head, current_fence) ==
    IF fence = 0 \/ current_head = None THEN "CONTINUE"
    ELSE IF current_fence = None THEN "PAUSE"
    ELSE ConcurCheck(expected, fence, current_head, current_fence)

\* RecoveryEngine.validate
Validate(snapshot, fences, heads, current_fences, validity) ==
    Strongest({Check(snapshot, heads, validity, TRUE)} \union
              {LET r == expected.resource_id
               IN FenceAction(expected, fences[r], heads[r], current_fences[r])
               : expected \in snapshot})
===============================================================================
