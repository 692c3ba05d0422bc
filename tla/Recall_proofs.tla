----------------------------- MODULE Recall_proofs -----------------------------
(***************************************************************************)
(* RECALL is exact on every graph, of any size, under every assignment of  *)
(* signals: it reports the resources downstream of a signalled root, with  *)
(* the worst of their causes (Recall).                                     *)
(***************************************************************************)
EXTENDS Recall, FiniteSetTheorems, TLAPS

USE NoneAssumption

\* Where the propagation stands: it has reached only what is downstream of its
\* root, and has followed every dependency of what is not queued.
FrontierInv ==
    /\ \A r \in todo : signals[r] # None
    /\ root = None => queue = {}
    /\ root # None =>
           /\ root \in visited /\ root \notin todo /\ signals[root] # None
           /\ queue \subseteq visited
           /\ visited \subseteq Downstream(root)
           /\ \A r \in visited \ queue : Dependents(r) \subseteq visited

\* The causes on record: those of the finished roots in full, those of the root
\* in progress as far as it has got.
CauseInv ==
    \A d, r \in Resource :
        r \in causes[d] <=>
            /\ signals[r] # None /\ r \notin todo
            /\ IF d = r THEN signals[r] # "CHANGED"
               ELSE IF r = root THEN d \in visited ELSE d \in Downstream(r)

\* The validity on record is the worst of the causes on record.
MergeInv ==
    \A d \in Resource :
        /\ states[d] = None <=> causes[d] = {}
        /\ states[d] # None =>
               /\ \E r \in causes[d] : states[d] = Effect(signals[r])
               /\ \A r \in causes[d] : Rank[Effect(signals[r])] <= Rank[states[d]]

Inv == TypeOK /\ FrontierInv /\ CauseInv /\ MergeInv

-------------------------------------------------------------------------------
(* Ranks, merging and marking *)

LEMMA RankIsInt == \A i \in Impact : Rank[i] \in Int
  BY DEF Impact, Rank

LEMMA EffectIsImpact == \A s \in Signal : Effect(s) \in Impact
  BY DEF Signal, Impact, Effect

LEMMA MergeTypes ==
    ASSUME NEW current \in Impact \union {None}, NEW candidate \in Impact
    PROVE  Merge(current, candidate) \in Impact
  BY DEF Merge

\* Merging gives one of the two, at least as bad as both.
LEMMA MergeIsWorst ==
    ASSUME NEW current \in Impact, NEW candidate \in Impact
    PROVE  /\ Merge(current, candidate) \in {current, candidate}
           /\ Rank[current] <= Rank[Merge(current, candidate)]
           /\ Rank[candidate] <= Rank[Merge(current, candidate)]
<1>1. Rank[current] \in Int /\ Rank[candidate] \in Int /\ current # None
  BY RankIsInt, NoneIsNoValue
<1>2. QED
  BY <1>1 DEF Merge

LEMMA MarkTypes ==
    ASSUME TypeOK, NEW S \in SUBSET Resource, NEW r \in Resource, signals[r] \in Signal,
           Mark(S, r)
    PROVE  /\ states' \in [Resource -> Impact \union {None}]
           /\ causes' \in [Resource -> SUBSET Resource]
<1>1. \A d \in Resource : Merge(states[d], Effect(signals[r])) \in Impact
  BY EffectIsImpact, MergeTypes DEF TypeOK
<1>2. QED
  BY <1>1 DEF TypeOK, Mark

\* Marking keeps each validity the worst of its causes.
LEMMA MarkKeepsMerge ==
    ASSUME TypeOK, CauseInv, MergeInv, NEW S \in SUBSET Resource, NEW r \in Resource,
           signals[r] \in Signal, Mark(S, r), signals' = signals
    PROVE  MergeInv'
<1> DEFINE E == Effect(signals[r])
<1>1. E \in Impact /\ E # None /\ Rank[E] \in Int
  BY EffectIsImpact, RankIsInt, NoneIsNoValue
<1> SUFFICES ASSUME NEW d \in Resource
             PROVE  /\ states'[d] = None <=> causes'[d] = {}
                    /\ states'[d] # None =>
                          /\ \E q \in causes'[d] : states'[d] = Effect(signals[q])
                          /\ \A q \in causes'[d] : Rank[Effect(signals[q])] <= Rank[states'[d]]
  BY DEF MergeInv, Effect
<1>2. CASE d \notin S
  BY <1>2 DEF Mark, MergeInv
<1>3. CASE d \in S /\ states[d] = None
  <2>1. states'[d] = E /\ causes'[d] = {r}
    BY <1>3 DEF Mark, MergeInv, Merge
  <2>2. QED
    BY <1>1, <2>1
<1>4. CASE d \in S /\ states[d] # None
  <2>1. states[d] \in Impact /\ Rank[states[d]] \in Int
    BY <1>4, RankIsInt DEF TypeOK
  <2>2. states'[d] = Merge(states[d], E) /\ causes'[d] = causes[d] \union {r}
    BY <1>4 DEF Mark
  <2>3. /\ states'[d] \in {states[d], E}
        /\ Rank[states[d]] <= Rank[states'[d]] /\ Rank[E] <= Rank[states'[d]]
        /\ Rank[states'[d]] \in Int /\ states'[d] # None
    BY <1>1, <2>1, <2>2, MergeIsWorst, RankIsInt, NoneIsNoValue
  <2>4. \E q \in causes'[d] : states'[d] = Effect(signals[q])
    BY <1>4, <2>2, <2>3 DEF MergeInv
  <2>5. ASSUME NEW q \in causes'[d]
        PROVE  Rank[Effect(signals[q])] <= Rank[states'[d]]
    <3>1. CASE q = r
      BY <2>3, <3>1
    <3>2. CASE q \in causes[d]
      <4>2. Rank[Effect(signals[q])] <= Rank[states[d]]
        BY <1>4, <3>2 DEF MergeInv
      <4>3. Rank[Effect(signals[q])] \in Int
        <5>1. q \in Resource /\ signals[q] \in Signal
          BY <3>2 DEF TypeOK, CauseInv
        <5>2. QED
          BY <5>1, EffectIsImpact, RankIsInt
      <4>4. QED
        BY <2>1, <2>3, <4>2, <4>3
    <3>3. QED
      BY <2>2, <3>1, <3>2
  <2>6. QED
    BY <2>2, <2>3, <2>4, <2>5
<1>5. QED
  BY <1>2, <1>3, <1>4

-------------------------------------------------------------------------------
(* The inductive invariant *)

LEMMA InvInit == Init => Inv
  BY DEF Init, Inv, TypeOK, FrontierInv, CauseInv, MergeInv

LEMMA TakeRootKeeps ==
    ASSUME Inv, NEW r \in Resource, TakeRoot(r)
    PROVE  Inv'
<1> DEFINE S == {d \in {r} : signals[r] # "CHANGED"}
<1>1. /\ root = None /\ r \in todo /\ signals[r] \in Signal /\ r # None
      /\ todo' = todo \ {r} /\ root' = r /\ queue' = {r} /\ visited' = {r}
      /\ S \in SUBSET Resource /\ Mark(S, r)
      /\ edges' = edges /\ signals' = signals
  BY DEF TakeRoot, Inv, TypeOK, FrontierInv
<1>2. TypeOK'
  BY <1>1, MarkTypes DEF Inv, TypeOK
<1>3. FrontierInv'
  BY <1>1 DEF Inv, FrontierInv, Downstream
<1>4. CauseInv'
  <2>1. \A d, q \in Resource : q \in causes'[d] <=> q \in causes[d] \/ (q = r /\ d \in S)
    BY <1>1 DEF Mark
  <2>2. \A d \in Resource : r \notin causes[d]
    BY <1>1 DEF Inv, CauseInv
  <2>3. \A q \in Resource : Downstream(q)' = Downstream(q)
    BY <1>1 DEF Downstream, Closed, Dependents
  <2> SUFFICES ASSUME NEW d \in Resource, NEW q \in Resource
               PROVE  q \in causes'[d] <=>
                          /\ signals[q] # None /\ q \notin todo'
                          /\ IF d = q THEN signals[q] # "CHANGED"
                             ELSE IF q = r THEN d \in {r} ELSE d \in Downstream(q)
    BY <1>1, <2>3 DEF CauseInv
  <2>4. CASE q = r
    BY <1>1, <2>1, <2>2, <2>4, NoneIsNoValue
  <2>5. CASE q # r
    BY <1>1, <2>1, <2>5 DEF Inv, CauseInv
  <2>6. QED
    BY <2>4, <2>5
<1>5. MergeInv'
  BY <1>1, MarkKeepsMerge DEF Inv
<1>6. QED
  BY <1>2, <1>3, <1>4, <1>5 DEF Inv

LEMMA VisitKeeps ==
    ASSUME Inv, NEW r \in Resource, Visit(r)
    PROVE  Inv'
<1> DEFINE found == Dependents(r) \ {root}
<1>1. /\ r \in queue /\ root # None /\ root \in Resource /\ signals[root] \in Signal
      /\ queue' = (queue \ {r}) \union (found \ visited)
      /\ visited' = visited \union found
      /\ found \in SUBSET Resource /\ Mark(found, root)
      /\ edges' = edges /\ signals' = signals /\ todo' = todo /\ root' = root
  BY DEF Visit, Inv, TypeOK, FrontierInv, Dependents
<1>2. /\ root \in visited /\ root \notin todo /\ signals[root] # None
      /\ queue \subseteq visited /\ visited \subseteq Downstream(root)
      /\ \A q \in visited \ queue : Dependents(q) \subseteq visited
  BY <1>1 DEF Inv, FrontierInv
<1>3. TypeOK'
  BY <1>1, MarkTypes DEF Inv, TypeOK
<1>4. \A q \in Resource : Downstream(q)' = Downstream(q) /\ Dependents(q)' = Dependents(q)
  BY <1>1 DEF Downstream, Closed, Dependents
<1>5. FrontierInv'
  <2>1. found \subseteq Downstream(root)
    BY <1>1, <1>2 DEF Downstream, Closed
  <2>2. \A q \in visited' \ queue' : q \in Resource /\ Dependents(q) \subseteq visited'
    BY <1>1, <1>2 DEF Inv, TypeOK
  <2>3. \A q \in todo' : signals'[q] # None
    BY <1>1 DEF Inv, FrontierInv
  <2>4. visited' \subseteq Downstream(root)' /\ queue' \subseteq visited' /\ root' \in visited'
    BY <1>1, <1>2, <1>4, <2>1
  <2>5. \A q \in visited' \ queue' : Dependents(q)' \subseteq visited'
    BY <1>4, <2>2
  <2>6. QED
    BY <1>1, <1>2, <2>3, <2>4, <2>5 DEF FrontierInv
<1>6. CauseInv'
  <2>1. \A d, q \in Resource :
            q \in causes'[d] <=> q \in causes[d] \/ (q = root /\ d \in found)
    BY <1>1 DEF Mark
  <2> SUFFICES ASSUME NEW d \in Resource, NEW q \in Resource
               PROVE  q \in causes'[d] <=>
                          /\ signals[q] # None /\ q \notin todo
                          /\ IF d = q THEN signals[q] # "CHANGED"
                             ELSE IF q = root THEN d \in visited' ELSE d \in Downstream(q)
    BY <1>1, <1>4 DEF CauseInv
  <2>2. CASE q = root
    BY <1>1, <1>2, <2>1, <2>2 DEF Inv, CauseInv
  <2>3. CASE q # root
    BY <2>1, <2>3 DEF Inv, CauseInv
  <2>4. QED
    BY <2>2, <2>3
<1>7. MergeInv'
  BY <1>1, MarkKeepsMerge DEF Inv
<1>8. QED
  BY <1>3, <1>5, <1>6, <1>7 DEF Inv

\* An empty queue leaves nothing downstream unvisited.
LEMMA FinishRootKeeps ==
    ASSUME Inv, FinishRoot
    PROVE  Inv'
<1>1. /\ root # None /\ root \in Resource /\ queue = {} /\ root' = None /\ queue' = {}
      /\ visited' = {}
      /\ UNCHANGED <<edges, signals, todo, states, causes>>
  BY DEF FinishRoot, Inv, TypeOK
<1>2. visited = Downstream(root)
  <2>1. visited \in SUBSET Resource /\ root \in visited /\ Closed(visited)
    BY <1>1 DEF Inv, TypeOK, FrontierInv, Closed
  <2>2. Downstream(root) \subseteq visited
    BY <2>1 DEF Downstream
  <2>3. QED
    BY <1>1, <2>2 DEF Inv, FrontierInv
<1>3. \A q \in Resource : Downstream(q)' = Downstream(q)
  BY <1>1 DEF Downstream, Closed, Dependents
<1>4. CauseInv'
  BY <1>1, <1>2, <1>3 DEF Inv, CauseInv
<1>5. TypeOK' /\ FrontierInv' /\ MergeInv'
  BY <1>1 DEF Inv, TypeOK, FrontierInv, MergeInv, Effect
<1>6. QED
  BY <1>4, <1>5 DEF Inv

LEMMA InvStep == Inv /\ [Next]_vars => Inv'
<1> SUFFICES ASSUME Inv, [Next]_vars PROVE Inv'
  OBVIOUS
<1>1. CASE UNCHANGED vars
  BY <1>1 DEF vars, Inv, TypeOK, FrontierInv, CauseInv, MergeInv, Downstream, Closed, Dependents,
              Effect
<1>2. QED
  BY <1>1, TakeRootKeeps, VisitKeeps, FinishRootKeeps DEF Next

THEOREM Invariance == Spec => []Inv
  BY InvInit, InvStep, PTL DEF Spec

\* Every value of the propagation has its type (recall.py:67-110).
THEOREM TypeCorrect == Spec => []TypeOK
  BY Invariance, PTL DEF Inv

-------------------------------------------------------------------------------
(* What the result means *)

LEMMA Exact == Inv => ImpactsAreExact
<1> SUFFICES ASSUME Inv, Done, NEW d \in Resource
             PROVE  /\ causes[d] = CausesOf(d)
                    /\ states[d] = None <=> CausesOf(d) = {}
                    /\ states[d] # None =>
                          /\ \E r \in CausesOf(d) : states[d] = Effect(signals[r])
                          /\ \A r \in CausesOf(d) : Rank[Effect(signals[r])] <= Rank[states[d]]
  BY DEF ImpactsAreExact
<1>1. causes[d] \subseteq Resource
  BY DEF Inv, TypeOK
<1>2. causes[d] = CausesOf(d)
  BY <1>1 DEF Inv, CauseInv, Done, CausesOf
<1>3. QED
  BY <1>2 DEF Inv, MergeInv

\* When the propagation ends its impacts are those of reachability, merged to the
\* worst, on every graph and for every assignment of signals (recall.py:67-132).
THEOREM RecallIsExact == Spec => []ImpactsAreExact
  BY Invariance, Exact, PTL

LEMMA MarkNeverImproves ==
    ASSUME TypeOK, NEW S \in SUBSET Resource, NEW r \in Resource, signals[r] \in Signal,
           Mark(S, r), NEW d \in Resource, states[d] # None
    PROVE  states'[d] # None /\ Rank[states[d]] <= Rank[states'[d]]
<1>1. states[d] \in Impact /\ Rank[states[d]] \in Int /\ Effect(signals[r]) \in Impact
  BY EffectIsImpact, RankIsInt DEF TypeOK
<1>2. CASE d \in S
  <2>1. states'[d] = Merge(states[d], Effect(signals[r]))
    BY <1>2 DEF Mark
  <2>2. QED
    BY <1>1, <2>1, MergeIsWorst, NoneIsNoValue
<1>3. CASE d \notin S
  <2>1. states'[d] = states[d]
    BY <1>3 DEF Mark
  <2>2. QED
    BY <1>1, <2>1
<1>4. QED
  BY <1>2, <1>3

LEMMA StepNeverImproves ==
    ASSUME Inv, [Next]_vars, NEW d \in Resource, states[d] # None
    PROVE  states'[d] # None /\ Rank[states[d]] <= Rank[states'[d]]
<1>1. ASSUME NEW r \in Resource, TakeRoot(r)
      PROVE  states'[d] # None /\ Rank[states[d]] <= Rank[states'[d]]
  <2>1. signals[r] \in Signal
    BY <1>1 DEF TakeRoot, Inv, TypeOK, FrontierInv
  <2>2. \E S \in SUBSET Resource : Mark(S, r)
    BY <1>1 DEF TakeRoot
  <2>3. QED
    BY <2>1, <2>2, MarkNeverImproves DEF Inv
<1>2. ASSUME NEW r \in Resource, Visit(r)
      PROVE  states'[d] # None /\ Rank[states[d]] <= Rank[states'[d]]
  <2>1. root \in Resource /\ signals[root] \in Signal
    BY <1>2 DEF Visit, Inv, TypeOK, FrontierInv
  <2>2. \E S \in SUBSET Resource : Mark(S, root)
    BY <1>2 DEF Visit, Dependents
  <2>3. QED
    BY <2>1, <2>2, MarkNeverImproves DEF Inv
<1>3. CASE UNCHANGED states
  <2>1. Rank[states[d]] \in Int
    BY RankIsInt DEF Inv, TypeOK
  <2>2. QED
    BY <1>3, <2>1
<1>4. QED
  BY <1>1, <1>2, <1>3 DEF Next, FinishRoot, vars

\* What is known of a resource never improves during the propagation
\* (recall.py:120-132).
THEOREM NeverImprovesHolds == Spec => NeverImproves
<1>1. Inv /\ [Next]_vars =>
          [\A d \in Resource : states[d] # None =>
               states'[d] # None /\ Rank[states[d]] <= Rank[states'[d]]]_vars
  BY StepNeverImproves
<1>2. QED
  BY <1>1, Invariance, PTL DEF Spec, NeverImproves

-------------------------------------------------------------------------------
(* The propagation runs out of work *)

LEMMA Finite ==
    ASSUME Inv
    PROVE  /\ Cardinality(Resource) \in Nat
           /\ IsFiniteSet(todo) /\ Cardinality(todo) \in Nat
           /\ IsFiniteSet(Left) /\ Cardinality(Left) \in 0..Cardinality(Resource)
<1>1. todo \in SUBSET Resource /\ Left \in SUBSET Resource
  BY DEF Inv, TypeOK, Left
<1>2. IsFiniteSet(todo) /\ IsFiniteSet(Left) /\ Cardinality(Left) <= Cardinality(Resource)
  BY <1>1, FiniteAssumption, FS_Subset
<1>3. QED
  BY <1>2, FiniteAssumption, FS_CardinalityType

\* Work is a number: it cannot decrease for ever.
LEMMA WorkIsNat == Inv => Work \in Nat
  BY Finite DEF Work

\* A root's share of the work covers a visit to every resource.
LEMMA TakeRootWorks ==
    ASSUME Inv, NEW r \in Resource, TakeRoot(r)
    PROVE  Work' < Work
<1> DEFINE n == Cardinality(Resource)
           t == Cardinality(todo)
<1>1. n \in Nat /\ t \in Nat /\ Cardinality(todo') = t - 1
  BY Finite, FS_RemoveElement DEF TakeRoot
<1>2. root = None /\ root' # None
  BY DEF TakeRoot
<1>3. Left' = Resource
  BY DEF TakeRoot, Left
<1>4. Work = t * (n + 2) /\ Work' = (t - 1) * (n + 2) + 1 + n
  BY <1>1, <1>2, <1>3 DEF Work
<1>5. \A a, b \in Int : (a - 1) * (b + 2) + 1 + b < a * (b + 2)
  OBVIOUS
<1>6. QED
  BY <1>1, <1>4, <1>5

\* A resource is taken from the queue for good: what it finds was left already.
LEMMA VisitWorks ==
    ASSUME Inv, NEW r \in Resource, Visit(r)
    PROVE  Work' < Work
<1>1. r \in queue /\ r \in visited /\ root # None /\ UNCHANGED <<todo, root>>
  BY DEF Visit, Inv, FrontierInv
<1>2. Left' = Left \ {r} /\ r \in Left
  BY <1>1 DEF Visit, Left, Dependents, Inv, TypeOK
<1>3. Cardinality(Left') = Cardinality(Left) - 1
  BY <1>2, Finite, FS_RemoveElement
<1>4. QED
  BY <1>1, <1>3, Finite DEF Work

LEMMA FinishRootWorks ==
    ASSUME Inv, FinishRoot
    PROVE  Work' < Work
  BY Finite DEF FinishRoot, Work

\* Every step of the propagation leaves less to do, so that evaluate ends on every
\* finite graph, cyclic or not (recall.py:85-103): each signalled root takes each
\* resource from its queue at most once.
THEOREM WorkDecreasesHolds == Spec => [](Work \in Nat) /\ WorkDecreases
<1>1. Inv /\ [Next]_vars => [Work' < Work]_vars
  BY TakeRootWorks, VisitWorks, FinishRootWorks DEF Next
<1>2. QED
  BY <1>1, WorkIsNat, Invariance, PTL DEF Spec, WorkDecreases
===============================================================================
