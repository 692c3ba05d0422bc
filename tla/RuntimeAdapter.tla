---------------------------- MODULE RuntimeAdapter ----------------------------
(***************************************************************************)
(* The runtime adapter contract (adapter_contract.py, ADR-0009): a caller  *)
(* captures a binding of an exact execution to a continuity snapshot,      *)
(* validates it against current reality, and continues that execution only *)
(* after RECOVER.  A call is one step where the runtime is read: what an   *)
(* adapter reads at different instants is its own business, and it must    *)
(* answer as if it had read them at one.                                   *)
(***************************************************************************)
EXTENDS AdapterBinding

VARIABLES
    continuable,  \* the executions the runtime can continue now
    installed,    \* the installed revision of the runtime
    binding,      \* the binding a caller holds, or None
    verdict,      \* the decision of a caller's call in progress, or None
    continued     \* history: the last continuation and its installed runtime, or None

contractVars == <<continuable, installed, binding, verdict, continued>>

-------------------------------------------------------------------------------
(* The contract *)

ContractInit ==
    /\ continuable \subseteq Execution
    /\ installed \in RuntimeRevision
    /\ binding = [c \in Caller |-> None]
    /\ verdict = [c \in Caller |-> None]
    /\ continued = None

\* The runtime lives on its own.
RuntimeMoves ==
    /\ continuable' \subseteq Execution
    /\ UNCHANGED <<installed, binding, verdict, continued>>

\* Another runtime is installed; the processes that run it restart, and the calls
\* in progress are lost.
Upgrade ==
    /\ installed' \in RuntimeRevision
    /\ verdict' = [c \in Caller |-> None]
    /\ \E lost \in SUBSET Caller :
           binding' = [c \in Caller |-> IF c \in lost THEN None ELSE binding[c]]
    /\ UNCHANGED <<continuable, continued>>

Bind(c, e) ==
    /\ \E resources \in ResourceLists, fences \in FenceLists :
           /\ Capturable(resources, fences, installed)
           /\ binding' = [binding EXCEPT ![c] = Recovery(e, resources, fences, installed)]
    /\ verdict' = [verdict EXCEPT ![c] = None]
    /\ UNCHANGED <<continuable, installed, continued>>

Capture(c) == \E e \in continuable : Bind(c, e)

Discard(c) ==
    /\ binding' = [binding EXCEPT ![c] = None]
    /\ verdict' = [verdict EXCEPT ![c] = None]
    /\ UNCHANGED <<continuable, installed, continued>>

Decide(c) ==
    /\ \E heads \in HeadReads, fences \in FenceReads, validity \in Reports :
           verdict' = [verdict EXCEPT ![c] = Judge(binding[c], heads, fences, validity, installed)]
    /\ UNCHANGED <<continuable, installed, binding, continued>>

ValidateResume(c) ==
    /\ binding[c] # None
    /\ binding[c].execution \in continuable
    /\ Decide(c)

\* require_recover, and the continuation of an execution.
Continue(c, e) ==
    /\ verdict[c] = "RECOVER"
    /\ continued' = [bound |-> [binding[c] EXCEPT !.execution = e], runtime |-> installed]
    /\ verdict' = [verdict EXCEPT ![c] = None]
    /\ UNCHANGED <<continuable, installed, binding>>

\* The bound execution is continued, and only while it can be: no other is put in
\* its place.
ContinueAfterValidate(c) ==
    /\ binding[c] # None
    /\ binding[c].execution \in continuable
    /\ Continue(c, binding[c].execution)

\* The call ends without a continuation.
Return(c) ==
    /\ verdict' = [verdict EXCEPT ![c] = None]
    /\ UNCHANGED <<continuable, installed, binding, continued>>

ContractNext ==
    \/ RuntimeMoves
    \/ Upgrade
    \/ \E c \in Caller :
           \/ Capture(c)
           \/ Discard(c)
           \/ ValidateResume(c)
           \/ ContinueAfterValidate(c)
           \/ Return(c)

ContractSpec == ContractInit /\ [][ContractNext]_contractVars

-------------------------------------------------------------------------------
(* The contract over a runtime that does not say what it has lost: asked   *)
(* for an execution that is gone it may answer as if it had it, and        *)
(* continue another one or a blank one.                                    *)

\* A call about an execution the runtime does not have.
Misled(c) ==
    \/ \E e \in Execution \ continuable : Bind(c, e)
    \/ /\ binding[c] # None
       /\ binding[c].execution \notin continuable
       /\ Decide(c) \/ \E e \in Execution \union {None} : Continue(c, e)

TrustingNext == ContractNext \/ \E c \in Caller : Misled(c)

\* The contract for every execution the runtime has; of one that is gone, only that
\* a continuation follows a RECOVER for the caller's own binding.
TrustingSpec == ContractInit /\ [][TrustingNext]_contractVars
===============================================================================
