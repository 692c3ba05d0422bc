------------------------------ MODULE Kernel_proofs ------------------------------
(***************************************************************************)
(* The decision layers of the kernel for any snapshots, rules, fences and  *)
(* validity: what each outcome of a validation means.                      *)
(***************************************************************************)
EXTENDS Kernel, TLAPS

USE RevisionAssumption, RulesAssumption

-------------------------------------------------------------------------------
(* The strongest of a set of actions *)

LEMMA PriorityIsInt == \A a \in Action : Priority[a] \in 0..4
  BY DEF Action, Priority

LEMMA StrongestIsMax ==
    ASSUME NEW S \in SUBSET Action, S # {}
    PROVE  /\ Strongest(S) \in S
           /\ \A a \in S : Priority[a] <= Priority[Strongest(S)]
<1>1. \E a \in S : \A b \in S : Priority[b] <= Priority[a]
  <2>1. CASE "ABORT" \in S
    BY <2>1 DEF Action, Priority
  <2>2. CASE "ABORT" \notin S /\ "PAUSE" \in S
    BY <2>2 DEF Action, Priority
  <2>3. CASE "ABORT" \notin S /\ "PAUSE" \notin S /\ "REVALIDATE" \in S
    BY <2>3 DEF Action, Priority
  <2>4. CASE S \subseteq {"CONTINUE", "RECOVER"} /\ "RECOVER" \in S
    BY <2>4 DEF Action, Priority
  <2>5. CASE S = {"CONTINUE"}
    BY <2>5 DEF Action, Priority
  <2>6. QED
    BY <2>1, <2>2, <2>3, <2>4, <2>5 DEF Action
<1>2. QED
  BY <1>1 DEF Strongest

\* No layer below the decision engine asks for RECOVER.
Demand == Action \ {"RECOVER"}

LEMMA ResourceActionIsDemand ==
    ASSUME NEW expected, NEW current, NEW valid
    PROVE  ResourceAction(expected, current, valid) \in Demand
<1> DEFINE S == {IF valid = "VALID" THEN "CONTINUE" ELSE "REVALIDATE",
                 IF Differs(expected, current)
                 THEN DriftAction(Classify(expected, current)) ELSE "CONTINUE"}
<1>1. DriftAction(Classify(expected, current)) \in Demand
  BY DEF DriftAction, Demand, Action
<1>2. S \subseteq Demand /\ S # {}
  BY <1>1 DEF Demand, Action
<1>3. Strongest(S) \in S
  BY <1>2, StrongestIsMax DEF Demand
<1>4. QED
  BY <1>2, <1>3 DEF ResourceAction, Demand, Action

LEMMA FenceActionIsDemand ==
    ASSUME NEW expected, NEW fence, NEW current_head, NEW current_fence
    PROVE  FenceAction(expected, fence, current_head, current_fence) \in Demand
  BY DEF FenceAction, ConcurCheck, Demand, Action

-------------------------------------------------------------------------------
(* What a validation answers *)

\* The check of the decision engine in a recovery.
RecoveryCheck(S, current, valid) == Check(S, current, valid, TRUE)

\* A recovery check is at least as strong as each resource demands, and RECOVER
\* exactly when none demands anything.
LEMMA CheckBounds ==
    ASSUME NEW S, NEW current, NEW valid
    PROVE  /\ RecoveryCheck(S, current, valid) \in Action \ {"CONTINUE"}
           /\ \A e \in S :
                  LET demand == ResourceAction(e, current[e.resource_id], valid[e.resource_id])
                  IN /\ Priority[demand] <= Priority[RecoveryCheck(S, current, valid)]
                     /\ RecoveryCheck(S, current, valid) = "RECOVER" => demand = "CONTINUE"
<1> DEFINE demands == {ResourceAction(e, current[e.resource_id], valid[e.resource_id]) : e \in S}
           D == {"CONTINUE"} \union demands
           action == Strongest(D)
<1>1. D \subseteq Demand
  BY ResourceActionIsDemand DEF Demand, Action
<1>2. action \in D /\ \A a \in D : Priority[a] <= Priority[action]
  BY <1>1, StrongestIsMax DEF Demand
<1>3. RecoveryCheck(S, current, valid) = IF action = "CONTINUE" THEN "RECOVER" ELSE action
  BY DEF RecoveryCheck, Check
<1>4. \A a \in D : /\ Priority[a] <= Priority[RecoveryCheck(S, current, valid)]
                   /\ RecoveryCheck(S, current, valid) = "RECOVER" => a = "CONTINUE"
  <2> HIDE DEF D, action
  <2>1. action \in Demand /\ D \subseteq Demand
    BY <1>1, <1>2
  <2>2. CASE action = "CONTINUE"
    BY <1>2, <1>3, <2>1, <2>2 DEF Demand, Action, Priority
  <2>3. CASE action # "CONTINUE"
    BY <1>2, <1>3, <2>1, <2>3 DEF Demand
  <2>4. QED
    BY <2>2, <2>3
<1>5. RecoveryCheck(S, current, valid) \in Action \ {"CONTINUE"}
  <2> HIDE DEF D, action
  <2>1. QED
    BY <1>1, <1>2, <1>3 DEF Demand, Action
<1>6. QED
  BY <1>4, <1>5

LEMMA ValidateBounds ==
    ASSUME NEW S, NEW held, NEW current, NEW current_fences, NEW valid,
           NEW answer, answer = Validate(S, held, current, current_fences, valid)
    PROVE  /\ answer \in Action
           /\ \A e \in S :
                  LET r == e.resource_id
                      head == ResourceAction(e, current[r], valid[r])
                      fence == FenceAction(e, held[r], current[r], current_fences[r])
                  IN /\ Priority[head] <= Priority[answer] /\ Priority[fence] <= Priority[answer]
                     /\ answer = "RECOVER" => head = "CONTINUE" /\ fence = "CONTINUE"
<1> DEFINE check == RecoveryCheck(S, current, valid)
           fenceOf(e) == FenceAction(e, held[e.resource_id], current[e.resource_id],
                                     current_fences[e.resource_id])
           headOf(e) == ResourceAction(e, current[e.resource_id], valid[e.resource_id])
           D == {check} \union {fenceOf(e) : e \in S}
<1>1. check \in Action /\ D \subseteq Action /\ D # {}
  BY CheckBounds, FenceActionIsDemand DEF Demand
<1>2. answer = Strongest(D)
  BY DEF Validate, RecoveryCheck
<1>3. answer \in D /\ \A a \in D : Priority[a] <= Priority[answer]
  BY <1>1, <1>2, StrongestIsMax
<1>4. ASSUME NEW e \in S
      PROVE  /\ Priority[headOf(e)] <= Priority[answer] /\ Priority[fenceOf(e)] <= Priority[answer]
             /\ answer = "RECOVER" => headOf(e) = "CONTINUE" /\ fenceOf(e) = "CONTINUE"
  <2>1. /\ fenceOf(e) \in Demand /\ headOf(e) \in Demand
        /\ Priority[fenceOf(e)] <= Priority[answer] /\ Priority[check] <= Priority[answer]
    BY <1>3, FenceActionIsDemand, ResourceActionIsDemand
  <2>2. check # "CONTINUE" /\ Priority[headOf(e)] <= Priority[check]
        /\ (check = "RECOVER" => headOf(e) = "CONTINUE")
    BY CheckBounds
  <2>3. answer \in Action
    BY <1>1, <1>3
  <2> HIDE DEF check, fenceOf, headOf
  <2>4. QED
    BY <1>1, <2>1, <2>2, <2>3 DEF Demand, Action, Priority
<1>5. QED
  BY <1>1, <1>3, <1>4

\* A validation recovers when nothing it looks at demands anything else.
LEMMA RecoverIfAllContinue ==
    ASSUME NEW S, NEW held, NEW current, NEW current_fences, NEW valid,
           \A e \in S :
               LET r == e.resource_id
               IN /\ ResourceAction(e, current[r], valid[r]) = "CONTINUE"
                  /\ FenceAction(e, held[r], current[r], current_fences[r]) = "CONTINUE"
    PROVE  Validate(S, held, current, current_fences, valid) = "RECOVER"
<1> DEFINE demands == {ResourceAction(e, current[e.resource_id], valid[e.resource_id]) : e \in S}
           fencing == {FenceAction(e, held[e.resource_id], current[e.resource_id],
                                   current_fences[e.resource_id]) : e \in S}
           check == RecoveryCheck(S, current, valid)
<1>1. demands \subseteq {"CONTINUE"} /\ fencing \subseteq {"CONTINUE"}
  OBVIOUS
<1>2. Strongest({"CONTINUE"} \union demands) = "CONTINUE"
  <2>1. {"CONTINUE"} \union demands = {"CONTINUE"}
    BY <1>1
  <2>2. Strongest({"CONTINUE"}) \in {"CONTINUE"}
    BY StrongestIsMax DEF Action
  <2>3. QED
    BY <2>1, <2>2
<1>3. check = "RECOVER"
  BY <1>2 DEF RecoveryCheck, Check
<1>4. Strongest({"RECOVER"} \union fencing) = "RECOVER"
  <2> DEFINE D == {"RECOVER"} \union fencing
  <2>1. D \in SUBSET Action /\ "RECOVER" \in D /\ D \subseteq {"RECOVER", "CONTINUE"}
    BY <1>1 DEF Action
  <2> HIDE DEF D
  <2>2. Strongest(D) \in D /\ Priority["RECOVER"] <= Priority[Strongest(D)]
    BY <2>1, StrongestIsMax
  <2>3. Strongest(D) # "CONTINUE"
    BY <2>2 DEF Priority
  <2>4. Strongest(D) = "RECOVER"
    BY <2>1, <2>2, <2>3
  <2>5. QED
    BY <2>4 DEF D
<1>5. QED
  BY <1>3, <1>4 DEF Validate, RecoveryCheck

\* RECOVER is exactly the answer to a checkpoint of which no resource and no fence
\* demands anything: nothing is overlooked, and nothing is refused without a demand
\* (RecoveryEngine.validate).
THEOREM RecoverExactly ==
    ASSUME NEW S, NEW held, NEW current, NEW current_fences, NEW valid
    PROVE  Validate(S, held, current, current_fences, valid) = "RECOVER"
           <=> \A e \in S :
                   LET r == e.resource_id
                   IN /\ ResourceAction(e, current[r], valid[r]) = "CONTINUE"
                      /\ FenceAction(e, held[r], current[r], current_fences[r]) = "CONTINUE"
  BY ValidateBounds, RecoverIfAllContinue

\* What "CONTINUE" of one resource means.
LEMMA ResourceContinues ==
    ASSUME NEW expected, NEW current, NEW valid,
           ResourceAction(expected, current, valid) = "CONTINUE"
    PROVE  /\ current # None /\ valid = "VALID"
           /\ ~Differs(expected, current) \/ Classify(expected, current) = "COMPATIBLE"
<1> DEFINE S == {IF valid = "VALID" THEN "CONTINUE" ELSE "REVALIDATE",
                 IF Differs(expected, current)
                 THEN DriftAction(Classify(expected, current)) ELSE "CONTINUE"}
<1>1. DriftAction(Classify(expected, current)) \in Action
  BY DEF DriftAction, Action
<1>2. S \subseteq Action /\ S # {}
  BY <1>1 DEF Action
<1>3. current # None /\ valid # "UNKNOWN" /\ valid # "INVALID" /\ Strongest(S) = "CONTINUE"
  BY DEF ResourceAction
<1>4. \A a \in S : Priority[a] <= Priority["CONTINUE"]
  BY <1>2, <1>3, StrongestIsMax
<1>5. \A a \in S : a = "CONTINUE"
  BY <1>2, <1>4 DEF Action, Priority
<1>6. QED
  BY <1>3, <1>5 DEF DriftAction

\* A valid resource whose head is unchanged or compatible demands nothing.
LEMMA ResourceContinuesIf ==
    ASSUME NEW expected, NEW current, NEW valid, current # None, valid = "VALID",
           ~Differs(expected, current) \/ Classify(expected, current) = "COMPATIBLE"
    PROVE  ResourceAction(expected, current, valid) = "CONTINUE"
<1> DEFINE S == {IF valid = "VALID" THEN "CONTINUE" ELSE "REVALIDATE",
                 IF Differs(expected, current)
                 THEN DriftAction(Classify(expected, current)) ELSE "CONTINUE"}
<1>1. S = {"CONTINUE"}
  BY DEF DriftAction
<1>2. Strongest({"CONTINUE"}) \in {"CONTINUE"}
  BY StrongestIsMax DEF Action
<1>3. Strongest(S) = "CONTINUE"
  BY <1>1, <1>2
<1>4. QED
  BY <1>3 DEF ResourceAction

\* An answer RECOVER says of every resource that it is valid, its head known, and
\* unchanged or compatible by a rule.
LEMMA RecoverContinues ==
    ASSUME NEW S, NEW held, NEW current, NEW current_fences, NEW valid, NEW e \in S,
           Validate(S, held, current, current_fences, valid) = "RECOVER"
    PROVE  LET head == current[e.resource_id]
           IN /\ head # None /\ valid[e.resource_id] = "VALID"
              /\ ~Differs(e, head) \/ Classify(e, head) = "COMPATIBLE"
<1>1. ResourceAction(e, current[e.resource_id], valid[e.resource_id]) = "CONTINUE"
  BY ValidateBounds
<1>2. QED
  BY <1>1, ResourceContinues

\* A validation that looks at more resources is no weaker: a checkpoint cannot
\* make its recovery easier by naming more of them (RecoveryEngine.validate).
THEOREM ValidateIsMonotone ==
    ASSUME NEW T, NEW S \in SUBSET T, NEW held, NEW current, NEW current_fences, NEW valid
    PROVE  Priority[Validate(S, held, current, current_fences, valid)]
           <= Priority[Validate(T, held, current, current_fences, valid)]
<1> DEFINE demandOf(e) == ResourceAction(e, current[e.resource_id], valid[e.resource_id])
           fenceOf(e) == FenceAction(e, held[e.resource_id], current[e.resource_id],
                                     current_fences[e.resource_id])
           demands(U) == {"CONTINUE"} \union {demandOf(e) : e \in U}
           answers(U) == {RecoveryCheck(U, current, valid)} \union {fenceOf(e) : e \in U}
<1>1. ASSUME NEW A \in SUBSET Action, NEW B \in SUBSET Action, A \subseteq B, A # {}
      PROVE  Priority[Strongest(A)] <= Priority[Strongest(B)]
  BY <1>1, StrongestIsMax
<1>2. \A e \in T : demandOf(e) \in Demand /\ fenceOf(e) \in Demand
  BY ResourceActionIsDemand, FenceActionIsDemand
<1> HIDE DEF demandOf, fenceOf
<1>3. /\ demands(S) \subseteq demands(T) /\ demands(T) \subseteq Action \ {"RECOVER"}
      /\ demands(S) # {}
  BY <1>2 DEF Demand, Action
<1>4. /\ Strongest(demands(S)) \in Action /\ Strongest(demands(T)) \in Action
      /\ Priority[Strongest(demands(S))] <= Priority[Strongest(demands(T))]
  BY <1>1, <1>3, StrongestIsMax
<1>5. \A U : RecoveryCheck(U, current, valid)
             = IF Strongest(demands(U)) = "CONTINUE" THEN "RECOVER" ELSE Strongest(demands(U))
  BY DEF RecoveryCheck, Check, demandOf
<1>6. Priority[RecoveryCheck(S, current, valid)] <= Priority[RecoveryCheck(T, current, valid)]
  <2> HIDE DEF demands
  <2>1. Strongest(demands(T)) # "RECOVER"
    BY <1>3, <1>4, StrongestIsMax
  <2>2. QED
    BY <1>4, <1>5, <2>1 DEF Action, Priority
<1>7. /\ answers(S) \in SUBSET Action /\ answers(S) # {}
      /\ answers(T) \in SUBSET Action
  BY <1>2, CheckBounds DEF Demand
<1> DEFINE checkOf(U) == RecoveryCheck(U, current, valid)
           strongestOf(U) == Strongest(answers(U))
<1>8. /\ strongestOf(S) \in answers(S)
      /\ \A a \in answers(T) : Priority[a] <= Priority[strongestOf(T)]
  BY <1>2, <1>7, CheckBounds, StrongestIsMax DEF Demand
<1>9. /\ checkOf(T) \in Action /\ checkOf(S) \in Action /\ strongestOf(T) \in Action
      /\ Priority[checkOf(S)] <= Priority[checkOf(T)]
  BY <1>6, <1>7, CheckBounds, StrongestIsMax
<1>10. CASE strongestOf(S) = checkOf(S)
  <2>1. Priority[checkOf(T)] <= Priority[strongestOf(T)]
    BY <1>8
  <2> HIDE DEF checkOf, strongestOf
  <2>2. Priority[strongestOf(S)] <= Priority[strongestOf(T)]
    BY <1>9, <1>10, <2>1, PriorityIsInt
  <2>3. QED
    BY <2>2 DEF strongestOf, Validate, RecoveryCheck, fenceOf
<1>11. CASE strongestOf(S) \in answers(T)
  BY <1>8, <1>11 DEF Validate, RecoveryCheck, fenceOf
<1>12. QED
  BY <1>8, <1>10, <1>11
=================================================================================
