-------------------------------- MODULE Recall --------------------------------
(***************************************************************************)
(* RECALL, src/src/howedo/recall.py RecallEngine.evaluate: every signalled *)
(* root is propagated breadth first through the dependency graph, and the  *)
(* effects on a resource are merged.  One action takes a root or takes a   *)
(* resource from the queue and marks its dependents.  Roots and queue are  *)
(* sets taken in any order, which covers the code's sorted order under     *)
(* every naming of the resources.  A reason code stands for its root.      *)
(***************************************************************************)
EXTENDS Integers, FiniteSets

CONSTANTS
    Resource,   \* resources of the graph
    None        \* no signal, no impact, no root

ASSUME NoneAssumption == None \notin Resource

\* A DependencyGraph is a tuple of edges, the signals a mapping.
ASSUME FiniteAssumption == IsFiniteSet(Resource)

VARIABLES
    edges,      \* the DependencyGraph: <<source, dependent>>
    signals,    \* the signal on each resource, or None
    todo,       \* roots not taken yet
    root,       \* the root being propagated, or None
    queue,      \* resources whose dependents are still to be marked
    visited,    \* resources that have been queued for this root
    states,     \* validity found for each resource, None where there is none
    causes      \* roots that caused it

vars == <<edges, signals, todo, root, queue, visited, states, causes>>

Signal == {"CHANGED", "INVALID", "UNKNOWN"}
Impact == {"STALE", "UNKNOWN", "INVALID"}   \* the Validity values RECALL gives

ASSUME NoneIsNoValue == None \notin Signal \union Impact

Rank == [STALE |-> 1, UNKNOWN |-> 2, INVALID |-> 3]

TypeOK ==
    /\ edges \subseteq Resource \X Resource
    /\ signals \in [Resource -> Signal \union {None}]
    /\ todo \subseteq Resource
    /\ root \in Resource \union {None}
    /\ queue \subseteq Resource
    /\ visited \subseteq Resource
    /\ states \in [Resource -> Impact \union {None}]
    /\ causes \in [Resource -> SUBSET Resource]

\* Any graph without self-dependencies, any signals.
Init ==
    /\ edges \in SUBSET {e \in Resource \X Resource : e[1] # e[2]}
    /\ signals \in [Resource -> Signal \union {None}]
    /\ todo = {r \in Resource : signals[r] # None}
    /\ root = None
    /\ queue = {}
    /\ visited = {}
    /\ states = [r \in Resource |-> None]
    /\ causes = [r \in Resource |-> {}]

-------------------------------------------------------------------------------

Dependents(r) == {d \in Resource : <<r, d>> \in edges}

\* Defect: the signal itself is recorded.
Effect_Signal(signal) == signal

\* The effect of a root's signal on its dependents.
Effect(signal) == IF signal = "CHANGED" THEN "STALE" ELSE signal

\* Defect: the last signal wins.
Merge_Last(current, candidate) == candidate

\* The worse validity, the current one on a tie.
Merge(current, candidate) ==
    IF current = None \/ Rank[candidate] > Rank[current] THEN candidate ELSE current

\* Mark the resources of S as impacted by root r.
Mark(S, r) ==
    /\ states' = [d \in Resource |-> IF d \in S THEN Merge(states[d], Effect(signals[r]))
                                     ELSE states[d]]
    /\ causes' = [d \in Resource |-> IF d \in S THEN causes[d] \union {r} ELSE causes[d]]

\* An invalid or unknown root is marked itself; a changed one has a valid new head.
TakeRoot(r) ==
    /\ root = None
    /\ r \in todo
    /\ todo' = todo \ {r}
    /\ root' = r
    /\ queue' = {r}
    /\ visited' = {r}
    /\ Mark({d \in {r} : signals[r] # "CHANGED"}, r)
    /\ UNCHANGED <<edges, signals>>

\* Defect: a cycle may lead back to the root.
Visit_Root(r) ==
    /\ r \in queue
    /\ queue' = (queue \ {r}) \union (Dependents(r) \ visited)
    /\ visited' = visited \union Dependents(r)
    /\ Mark(Dependents(r), root)
    /\ UNCHANGED <<edges, signals, todo, root>>

\* Defect: visited resources are queued again.
Visit_Again(r) ==
    /\ r \in queue
    /\ LET found == Dependents(r) \ {root}
       IN /\ queue' = (queue \ {r}) \union found
          /\ visited' = visited \union found
          /\ Mark(found, root)
    /\ UNCHANGED <<edges, signals, todo, root>>

\* Take a resource from the queue and mark its dependents, never the root.
Visit(r) ==
    /\ r \in queue
    /\ LET found == Dependents(r) \ {root}
       IN /\ queue' = (queue \ {r}) \union (found \ visited)
          /\ visited' = visited \union found
          /\ Mark(found, root)
    /\ UNCHANGED <<edges, signals, todo, root>>

FinishRoot ==
    /\ root # None
    /\ queue = {}
    /\ root' = None
    /\ visited' = {}
    /\ UNCHANGED <<edges, signals, todo, queue, states, causes>>

Next ==
    \/ \E r \in Resource : TakeRoot(r) \/ Visit(r)
    \/ FinishRoot

Spec == Init /\ [][Next]_vars

\* evaluate is a plain loop: it keeps running.
FairSpec == Spec /\ WF_vars(Next)

-------------------------------------------------------------------------------
(* Properties *)

Done == todo = {} /\ root = None

Closed(S) == \A r \in S : Dependents(r) \subseteq S

\* r and everything that depends on r, directly or not.
Downstream(r) == {d \in Resource : \A S \in SUBSET Resource : r \in S /\ Closed(S) => d \in S}

\* The roots whose signal concerns d: what evaluate should report.
CausesOf(d) ==
    {r \in Resource : /\ signals[r] # None
                      /\ IF d = r THEN signals[r] # "CHANGED" ELSE d \in Downstream(r)}

\* The result is exact: a resource is impacted if and only if it depends on a
\* signalled root, however many cycles and shared paths lead there, or is itself
\* invalid or unknown; and its validity is the worst of its causes (ADR-0003).
ImpactsAreExact ==
    Done => \A d \in Resource :
        /\ causes[d] = CausesOf(d)
        /\ states[d] = None <=> CausesOf(d) = {}
        /\ states[d] # None =>
               /\ \E r \in CausesOf(d) : states[d] = Effect(signals[r])
               /\ \A r \in CausesOf(d) : Rank[Effect(signals[r])] <= Rank[states[d]]

\* No later root or path improves what is known of a resource.
NeverImproves ==
    [][\A d \in Resource : states[d] # None =>
           states'[d] # None /\ Rank[states[d]] <= Rank[states'[d]]]_vars

\* The resources whose dependents this root has still to mark, once each.
Left == (Resource \ visited) \union queue

\* At most how many steps are left: a root is taken and finished, and between the
\* two it takes each resource from the queue at most once.
Work == Cardinality(todo) * (Cardinality(Resource) + 2)
        + IF root = None THEN 0 ELSE 1 + Cardinality(Left)

\* Every step of the propagation leaves less to do, on cyclic graphs too.
WorkDecreases == [][Work' < Work]_vars

\* The propagation ends, on cyclic graphs too.
Terminates == <>Done
===============================================================================
