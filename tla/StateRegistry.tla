----------------------------- MODULE StateRegistry -----------------------------
(***************************************************************************)
(* The reference head registry, src/src/howedo/kernel.py StateRegistry:    *)
(* registered revisions and the authoritative head of each resource.       *)
(* activate_if_head is the "reference compare-and-set semantics"           *)
(* (kernel.py:52) every persistent adapter must provide atomically.        *)
(* A call that raises changes nothing and is a stuttering step.            *)
(***************************************************************************)
EXTENDS Domain

VARIABLES
    revisions,   \* _revisions, as the set of its values
    heads        \* _heads: the authoritative head, or None

vars == <<revisions, heads>>

Init ==
    /\ revisions = {}
    /\ heads = [r \in ResourceId |-> None]

Register(revision, make_head) ==
    /\ ~Conflicts(revision, revisions)
    /\ revisions' = revisions \union {revision}
    /\ heads' = IF make_head
                THEN [heads EXCEPT ![revision.resource_id] = revision]
                ELSE heads

\* Defect: the head is set without the comparison.
ActivateIfHead_NoCompare(expected, replacement) ==
    /\ expected.resource_id = replacement.resource_id
    /\ Register(replacement, TRUE)

\* Compare and set.
ActivateIfHead(expected, replacement) ==
    /\ expected.resource_id = replacement.resource_id
    /\ heads[expected.resource_id] = expected
    /\ Register(replacement, TRUE)

Next ==
    \/ \E revision \in Revision, make_head \in BOOLEAN : Register(revision, make_head)
    \/ \E expected, replacement \in Revision : ActivateIfHead(expected, replacement)

Spec == Init /\ [][Next]_vars
===============================================================================
