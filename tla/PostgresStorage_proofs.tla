------------------------ MODULE PostgresStorage_proofs ------------------------
(***************************************************************************)
(* The PostgreSQL adapter (PostgresStorage) for any clients, resources and *)
(* revisions: its inductive invariant, freedom from deadlock, and that it  *)
(* implements the atomic store of protocol v1 (ContinuityStore).           *)
(***************************************************************************)
EXTENDS PostgresStorage, TLAPS

USE RevisionAssumption

-------------------------------------------------------------------------------
(* Type correctness *)

LEMMA TypeInit == Init => TypeOK
  BY DEF Init, TypeOK, Schema, Statement, Outcome

\* Ending a transaction keeps the types of everything it assigns.
LEMMA CloseTypes ==
    ASSUME TypeOK, NEW c \in Client, NEW result \in Outcome, Close(c, result)
    PROVE  /\ pc' \in [Client -> Statement]
           /\ call' \in [Client -> Call \union {None}]
           /\ inserted' \in [Client -> BOOLEAN]
           /\ wrote' \in [Client -> BOOLEAN]
           /\ outcome' \in [Client -> Outcome]
           /\ \A d \in Client : pc'[d] # "idle" => call'[d] \in Call
  BY DEF TypeOK, Close, Goto, Statement

LEMMA RollbackTypes ==
    ASSUME TypeOK, NEW c \in Client, NEW result \in Outcome, Rollback(c, result)
    PROVE  TypeOK'
  BY CloseTypes DEF TypeOK, Rollback

\* Moving to the next statement inside a call keeps the types.
LEMMA GotoTypes ==
    ASSUME TypeOK, NEW c \in Client, NEW s \in Statement, Goto(c, s), pc[c] # "idle",
           UNCHANGED call
    PROVE  /\ pc' \in [Client -> Statement]
           /\ \A d \in Client : pc'[d] # "idle" => call'[d] \in Call
  BY DEF TypeOK, Goto, Statement

LEMMA AdvanceIsGoto ==
    ASSUME NEW c \in Client, Advance(c)
    PROVE  \E s \in {"insert", "confirm", "head", "commit"} : Goto(c, s)
  BY DEF Advance, StatementAfter

LEMMA AdvanceTypes ==
    ASSUME TypeOK, NEW c \in Client, Advance(c), pc[c] # "idle", UNCHANGED call
    PROVE  /\ pc' \in [Client -> Statement]
           /\ \A d \in Client : pc'[d] # "idle" => call'[d] \in Call
  BY AdvanceIsGoto, GotoTypes DEF Statement

LEMMA TypeStep == TypeOK /\ [Next]_vars => TypeOK'
<1> SUFFICES ASSUME TypeOK, [Next]_vars PROVE TypeOK'
  OBVIOUS
<1>1. ASSUME NEW c \in Client, NEW op \in Op, NEW expected \in Revision,
             NEW revision \in Revision, Begin(c, op, expected, revision)
      PROVE  TypeOK'
  <2>1. call' \in [Client -> Call \union {None}] /\ call'[c] \in Call
    BY <1>1 DEF TypeOK, Begin, Call
  <2>2. pc' \in [Client -> Statement] /\ outcome' \in [Client -> Outcome]
    BY <1>1 DEF TypeOK, Begin, Goto, Statement, Outcome
  <2>3. \A d \in Client : pc'[d] # "idle" => call'[d] \in Call
    BY <1>1, <2>1 DEF TypeOK, Begin, Goto
  <2>4. QED
    BY <1>1, <2>1, <2>2, <2>3 DEF TypeOK, Begin
<1>2. ASSUME NEW c \in Client, AssertInitialized(c)
      PROVE  TypeOK'
  <2>1. CASE /\ Advance(c)
             /\ UNCHANGED <<schema, revisions, heads, call, inserted, wrote, outcome>>
    BY <1>2, <2>1, AdvanceTypes DEF TypeOK, AssertInitialized
  <2>2. CASE \E result \in Outcome : Rollback(c, result)
    BY <2>2, RollbackTypes
  <2>3. QED
    BY <1>2, <2>1, <2>2 DEF AssertInitialized, Outcome
<1>3. ASSUME NEW c \in Client, InsertRevision(c)
      PROVE  TypeOK'
  BY <1>3, AdvanceTypes DEF TypeOK, InsertRevision
<1>4. ASSUME NEW c \in Client, ConfirmRevision(c)
      PROVE  TypeOK'
  <2>1. CASE /\ Advance(c)
             /\ UNCHANGED <<schema, revisions, heads, call, inserted, wrote, outcome>>
    BY <1>4, <2>1, AdvanceTypes DEF TypeOK, ConfirmRevision
  <2>2. CASE Rollback(c, "RevisionConflict")
    BY <2>2, RollbackTypes DEF Outcome
  <2>3. QED
    BY <1>4, <2>1, <2>2 DEF ConfirmRevision
<1>5. ASSUME NEW c \in Client, InsertHead(c)
      PROVE  TypeOK'
  BY <1>5, GotoTypes DEF TypeOK, InsertHead, Statement
<1>6. ASSUME NEW c \in Client, CompareHead(c)
      PROVE  TypeOK'
  <2>1. CASE /\ Advance(c)
             /\ UNCHANGED <<schema, revisions, heads, call, inserted, wrote, outcome>>
    BY <1>6, <2>1, AdvanceTypes DEF TypeOK, CompareHead
  <2>2. CASE Rollback(c, "HeadConflict")
    BY <2>2, RollbackTypes DEF Outcome
  <2>3. QED
    BY <1>6, <2>1, <2>2 DEF CompareHead
<1>7. ASSUME NEW c \in Client, UpdateHead(c)
      PROVE  TypeOK'
  <2>1. CASE Advance(c) /\ UNCHANGED <<schema, revisions, heads, call, inserted, outcome>>
                        /\ wrote' = [wrote EXCEPT ![c] = TRUE]
    BY <1>7, <2>1, AdvanceTypes DEF TypeOK, UpdateHead
  <2>2. CASE Rollback(c, "HeadConflict")
    BY <2>2, RollbackTypes DEF Outcome
  <2>3. QED
    BY <1>7, <2>1, <2>2 DEF UpdateHead
<1>8. ASSUME NEW c \in Client, Commit(c)
      PROVE  TypeOK'
  <2>1. PICK result \in {"ok", "lost"} : Close(c, result)
    BY <1>8 DEF Commit
  <2>2. call[c] \in Call /\ call[c].revision \in Revision
    BY <1>8 DEF TypeOK, Commit, Call
  <2>3. Resource(c) \in ResourceId
    BY <2>2 DEF Resource
  <2>4. revisions' \subseteq Revision /\ heads' \in [ResourceId -> Revision \union {None}]
    BY <1>8, <2>2, <2>3 DEF TypeOK, Commit, Visible
  <2>5. QED
    BY <1>8, <2>1, <2>4, CloseTypes DEF TypeOK, Commit, Outcome
<1>9. ASSUME NEW c \in Client, Abort(c)
      PROVE  TypeOK'
  BY <1>9, RollbackTypes DEF Abort, Outcome
<1>10. ASSUME NEW c \in Client, Migrate(c)
      PROVE  TypeOK'
  BY <1>10 DEF TypeOK, Migrate, Schema, Outcome
<1>11. CASE MigrateNewer
  BY <1>11 DEF TypeOK, MigrateNewer, Schema
<1>12. CASE UNCHANGED vars
  BY <1>12 DEF TypeOK, vars
<1>13. QED
  BY <1>1, <1>2, <1>3, <1>4, <1>5, <1>6, <1>7, <1>8, <1>9, <1>10, <1>11, <1>12
     DEF Next, Step

\* Every value the adapter keeps has its type (storage/postgres.py:34-171).
THEOREM TypeCorrect == Spec => []TypeOK
  BY TypeInit, TypeStep, PTL DEF Spec

-------------------------------------------------------------------------------
(* The inductive invariant *)

LEMMA IndInit == Init => IndInv
<1> SUFFICES ASSUME Init PROVE IndInv
  OBVIOUS
<1>1. TypeOK
  BY TypeInit
<1>2. ControlInv
  BY DEF Init, ControlInv
<1>3. ImmutableRevisions /\ HeadsRegistered /\ CheckHoldsUntilCommit
  BY DEF Init, ImmutableRevisions, OneContentPerKey, HeadsRegistered, CheckHoldsUntilCommit
<1>4. QED
  BY <1>1, <1>2, <1>3 DEF IndInv

\* A rollback forgets the transaction's uncommitted rows and nothing else.
LEMMA RollbackKeeps ==
    ASSUME IndInv, NEW c \in Client, NEW result \in Outcome, Rollback(c, result)
    PROVE  IndInv'
<1>1. TypeOK'
  BY RollbackTypes DEF IndInv
<1>2. /\ ~inserted'[c] /\ ~wrote'[c] /\ pc'[c] = "idle" /\ call'[c] = None
      /\ \A d \in Client \ {c} : /\ pc'[d] = pc[d] /\ call'[d] = call[d]
                                /\ inserted'[d] = inserted[d] /\ wrote'[d] = wrote[d]
      /\ revisions' = revisions /\ heads' = heads
  BY DEF IndInv, TypeOK, Rollback, Close, Goto
<1>3. ControlInv'
  BY <1>2 DEF IndInv, ControlInv, Visible, Resource
<1>4. ImmutableRevisions'
  BY <1>2 DEF IndInv, ImmutableRevisions, RowsOf
<1>5. HeadsRegistered'
  BY <1>2 DEF IndInv, HeadsRegistered, Visible
<1>6. CheckHoldsUntilCommit'
  BY <1>2 DEF IndInv, CheckHoldsUntilCommit, HeadBlockers, Resource
<1>7. QED
  BY <1>1, <1>3, <1>4, <1>5, <1>6 DEF IndInv

LEMMA IndStep == IndInv /\ [Next]_vars => IndInv'
<1> SUFFICES ASSUME IndInv, [Next]_vars PROVE IndInv'
  OBVIOUS
<1>0. TypeOK /\ TypeOK'
  BY TypeStep DEF IndInv
<1>1. ASSUME NEW c \in Client, NEW op \in Op, NEW expected \in Revision,
             NEW revision \in Revision, Begin(c, op, expected, revision)
      PROVE  IndInv'
  <2>1. /\ pc'[c] = "assert" /\ ~inserted[c] /\ ~wrote[c]
        /\ call'[c] = [op |-> op, expected |-> expected, revision |-> revision]
        /\ call'[c] # None
        /\ \A d \in Client \ {c} : pc'[d] = pc[d] /\ call'[d] = call[d]
        /\ UNCHANGED <<revisions, heads, inserted, wrote>>
    <3>1. ~inserted[c] /\ ~wrote[c]
      BY <1>1 DEF IndInv, ControlInv, Begin
    <3>2. call'[c] = [op |-> op, expected |-> expected, revision |-> revision]
      BY <1>1 DEF IndInv, TypeOK, Begin
    <3>3. call'[c] # None
      BY <3>2, NoneIsNoCall DEF Call
    <3>4. QED
      BY <1>1, <3>1, <3>2, <3>3 DEF IndInv, TypeOK, Begin, Goto
  <2>2. ControlInv'
    BY <1>1, <2>1 DEF IndInv, ControlInv, Visible, Resource, Begin
  <2>3. ImmutableRevisions'
    BY <2>1 DEF IndInv, ImmutableRevisions, RowsOf
  <2>4. HeadsRegistered'
    BY <2>1 DEF IndInv, HeadsRegistered, Visible
  <2>5. CheckHoldsUntilCommit'
    BY <2>1 DEF IndInv, CheckHoldsUntilCommit, HeadBlockers, Resource
  <2>6. QED
    BY <1>0, <2>2, <2>3, <2>4, <2>5 DEF IndInv
<1>2. ASSUME NEW c \in Client, AssertInitialized(c)
      PROVE  IndInv'
  <2>1. CASE /\ Advance(c)
             /\ UNCHANGED <<schema, revisions, heads, call, inserted, wrote, outcome>>
    <3>1. pc' = [pc EXCEPT ![c] = "insert"]
      BY <1>2, <2>1 DEF AssertInitialized, Advance, StatementAfter, Goto
    <3>2. ControlInv'
      BY <1>2, <2>1, <3>1 DEF AssertInitialized, IndInv, TypeOK, ControlInv, Visible, Resource
    <3>3. ImmutableRevisions' /\ HeadsRegistered' /\ CheckHoldsUntilCommit'
      BY <2>1 DEF IndInv, ImmutableRevisions, RowsOf, HeadsRegistered, Visible,
                  CheckHoldsUntilCommit, HeadBlockers, Resource
    <3>4. QED
      BY <1>0, <3>2, <3>3 DEF IndInv
  <2>2. CASE \E result \in Outcome : Rollback(c, result)
    BY <2>2, RollbackKeeps
  <2>3. QED
    BY <1>2, <2>1, <2>2 DEF AssertInitialized, Outcome
<1>3. ASSUME NEW c \in Client, InsertRevision(c)
      PROVE  IndInv'
  <2>1. /\ pc' = [pc EXCEPT ![c] = "confirm"]
        /\ inserted' = [inserted EXCEPT ![c] = RowsOf(call[c].revision, revisions) = {}]
        /\ UNCHANGED <<revisions, heads, call, wrote>>
        /\ pc[c] = "insert"
    BY <1>3 DEF InsertRevision, Advance, StatementAfter, Goto
  <2>2. ControlInv'
    BY <2>1 DEF IndInv, TypeOK, ControlInv, Visible, Resource
  <2>3. ImmutableRevisions'
    BY <1>3, <2>1 DEF IndInv, TypeOK, ImmutableRevisions, RowsOf, InsertRevision,
                      RevisionBlockers, SameKey
  <2>4. HeadsRegistered'
    BY <2>1 DEF IndInv, TypeOK, ControlInv, HeadsRegistered, Visible
  <2>5. CheckHoldsUntilCommit'
    BY <2>1 DEF IndInv, CheckHoldsUntilCommit, HeadBlockers, Resource
  <2>6. QED
    BY <1>0, <2>2, <2>3, <2>4, <2>5 DEF IndInv
<1>4. ASSUME NEW c \in Client, ConfirmRevision(c)
      PROVE  IndInv'
  <2>1. CASE /\ call[c].revision \in Visible(c)
             /\ Advance(c)
             /\ UNCHANGED <<schema, revisions, heads, call, inserted, wrote, outcome>>
    <3>1. pc' = [pc EXCEPT ![c] = IF call[c].op = "register_revision" THEN "commit" ELSE "head"]
      BY <1>4, <2>1 DEF ConfirmRevision, Advance, StatementAfter, Goto
    <3>2. ControlInv'
      BY <1>4, <2>1, <3>1
         DEF ConfirmRevision, IndInv, TypeOK, ControlInv, Visible, Resource
    <3>3. ImmutableRevisions' /\ HeadsRegistered' /\ CheckHoldsUntilCommit'
      BY <2>1 DEF IndInv, ImmutableRevisions, RowsOf, HeadsRegistered, Visible,
                  CheckHoldsUntilCommit, HeadBlockers, Resource
    <3>4. QED
      BY <1>0, <3>2, <3>3 DEF IndInv
  <2>2. CASE Rollback(c, "RevisionConflict")
    BY <2>2, RollbackKeeps DEF Outcome
  <2>3. QED
    BY <1>4, <2>1, <2>2 DEF ConfirmRevision
<1>5. ASSUME NEW c \in Client, InsertHead(c)
      PROVE  IndInv'
  <2>1. CASE heads[Resource(c)] = None
    <3>1. /\ wrote' = [wrote EXCEPT ![c] = TRUE]
          /\ pc' = [pc EXCEPT ![c] = "commit"]
          /\ UNCHANGED <<revisions, heads, call, inserted>>
          /\ pc[c] = "head" /\ call[c].op = "initialize_head" /\ HeadBlockers(c) = {}
      BY <1>5, <2>1 DEF InsertHead, Goto
    <3>2. ControlInv'
      BY <3>1 DEF IndInv, TypeOK, ControlInv, Visible, Resource
    <3>3. ImmutableRevisions' /\ HeadsRegistered'
      BY <3>1 DEF IndInv, TypeOK, ControlInv, ImmutableRevisions, RowsOf, HeadsRegistered, Visible
    <3>4. CheckHoldsUntilCommit'
      BY <2>1, <3>1 DEF IndInv, TypeOK, CheckHoldsUntilCommit, HeadBlockers, Resource
    <3>5. QED
      BY <1>0, <3>2, <3>3, <3>4 DEF IndInv
  <2>2. CASE heads[Resource(c)] # None
    <3>1. /\ pc' = [pc EXCEPT ![c] = "compare"]
          /\ UNCHANGED <<revisions, heads, call, inserted, wrote>>
          /\ pc[c] = "head" /\ call[c].op = "initialize_head"
      BY <1>5, <2>2 DEF InsertHead, Goto
    <3>2. ControlInv'
      BY <2>2, <3>1 DEF IndInv, TypeOK, ControlInv, Visible, Resource
    <3>3. ImmutableRevisions' /\ HeadsRegistered' /\ CheckHoldsUntilCommit'
      BY <3>1 DEF IndInv, ImmutableRevisions, RowsOf, HeadsRegistered, Visible,
                  CheckHoldsUntilCommit, HeadBlockers, Resource
    <3>4. QED
      BY <1>0, <3>2, <3>3 DEF IndInv
  <2>3. QED
    BY <2>1, <2>2
<1>6. ASSUME NEW c \in Client, CompareHead(c)
      PROVE  IndInv'
  <2>1. CASE /\ heads[Resource(c)] = call[c].revision
             /\ Advance(c)
             /\ UNCHANGED <<schema, revisions, heads, call, inserted, wrote, outcome>>
    <3>1. pc' = [pc EXCEPT ![c] = "commit"] /\ pc[c] = "compare"
      BY <1>6, <2>1 DEF CompareHead, Advance, StatementAfter, Goto
    <3>2. call[c].revision \in revisions /\ call[c].op = "initialize_head"
      <4>1. call[c] \in Call /\ call[c].revision \in Revision
        BY <3>1 DEF IndInv, TypeOK, Call
      <4>2. Resource(c) \in ResourceId /\ call[c].revision # None
        BY <4>1 DEF Resource
      <4>3. QED
        BY <2>1, <3>1, <4>2 DEF IndInv, ControlInv, HeadsRegistered
    <3>3. ControlInv'
      BY <2>1, <3>1, <3>2 DEF IndInv, TypeOK, ControlInv, Visible, Resource
    <3>4. ImmutableRevisions' /\ HeadsRegistered' /\ CheckHoldsUntilCommit'
      BY <2>1 DEF IndInv, ImmutableRevisions, RowsOf, HeadsRegistered, Visible,
                  CheckHoldsUntilCommit, HeadBlockers, Resource
    <3>5. QED
      BY <1>0, <3>3, <3>4 DEF IndInv
  <2>2. CASE Rollback(c, "HeadConflict")
    BY <2>2, RollbackKeeps DEF Outcome
  <2>3. QED
    BY <1>6, <2>1, <2>2 DEF CompareHead
<1>7. ASSUME NEW c \in Client, UpdateHead(c)
      PROVE  IndInv'
  <2>1. CASE heads[Resource(c)] = call[c].expected
    <3>1. /\ wrote' = [wrote EXCEPT ![c] = TRUE]
          /\ pc' = [pc EXCEPT ![c] = "commit"]
          /\ UNCHANGED <<revisions, heads, call, inserted>>
          /\ pc[c] = "head" /\ call[c].op = "activate_if_head" /\ HeadBlockers(c) = {}
      BY <1>7, <2>1 DEF UpdateHead, Advance, StatementAfter, Goto
    <3>2. ControlInv'
      BY <3>1 DEF IndInv, TypeOK, ControlInv, Visible, Resource
    <3>3. ImmutableRevisions' /\ HeadsRegistered'
      BY <3>1 DEF IndInv, TypeOK, ControlInv, ImmutableRevisions, RowsOf, HeadsRegistered, Visible
    <3>4. CheckHoldsUntilCommit'
      BY <2>1, <3>1 DEF IndInv, TypeOK, CheckHoldsUntilCommit, HeadBlockers, Resource
    <3>5. QED
      BY <1>0, <3>2, <3>3, <3>4 DEF IndInv
  <2>2. CASE heads[Resource(c)] # call[c].expected
    BY <1>7, <2>2, RollbackKeeps DEF UpdateHead, Outcome
  <2>3. QED
    BY <2>1, <2>2
<1>8. ASSUME NEW c \in Client, Commit(c)
      PROVE  IndInv'
  <2>1. /\ pc[c] = "commit" /\ call[c] \in Call /\ call[c].revision \in Revision
        /\ Resource(c) \in ResourceId
    BY <1>8 DEF Commit, IndInv, TypeOK, Call, Resource
  <2>2. /\ ~inserted'[c] /\ ~wrote'[c] /\ pc'[c] = "idle" /\ call'[c] = None
        /\ \A d \in Client \ {c} : /\ pc'[d] = pc[d] /\ call'[d] = call[d]
                                  /\ inserted'[d] = inserted[d] /\ wrote'[d] = wrote[d]
    BY <1>8 DEF Commit, Close, Goto, IndInv, TypeOK
  <2>3. /\ revisions' = Visible(c) /\ revisions \subseteq revisions'
        /\ heads' = IF wrote[c] THEN [heads EXCEPT ![Resource(c)] = call[c].revision] ELSE heads
    BY <1>8 DEF Commit, Visible
  <2>4. ControlInv'
    <3>1. \A r \in ResourceId : heads[r] # None => heads'[r] # None
      BY <2>1, <2>3 DEF IndInv, TypeOK
    <3>2. ASSUME NEW d \in Client, pc[d] = "compare"
          PROVE  Resource(d) \in ResourceId
      BY <3>2 DEF IndInv, TypeOK, Call, Resource
    <3>3. ASSUME NEW d \in Client, RowsOf(call[d].revision, revisions) # {}
          PROVE  RowsOf(call[d].revision, revisions') # {}
      BY <2>3, <3>3 DEF RowsOf
    <3>4. ASSUME NEW d \in Client \ {c}
          PROVE  /\ pc'[d] = "compare" => heads'[Resource(d)'] # None
                 /\ pc'[d] = "confirm" /\ ~inserted'[d]
                       => RowsOf(call'[d].revision, revisions') # {}
      BY <2>2, <3>1, <3>2, <3>3 DEF IndInv, ControlInv, Resource
    <3>5. ASSUME NEW d \in Client \ {c}
          PROVE  /\ pc'[d] \in {"head", "compare", "commit"} => call'[d].revision \in Visible(d)'
                 /\ pc'[d] = "commit" /\ call'[d].op = "initialize_head" /\ ~wrote'[d]
                       => call'[d].revision \in revisions'
      BY <2>2, <2>3 DEF IndInv, ControlInv, Visible
    <3>6. QED
      BY <2>2, <3>4, <3>5 DEF IndInv, ControlInv, Resource
  <2>5. ImmutableRevisions'
    <3>1. OneContentPerKey(revisions')
      BY <2>1, <2>3 DEF IndInv, TypeOK, ImmutableRevisions, OneContentPerKey, Visible, RowsOf, SameKey
    <3>2. ASSUME NEW d \in Client, inserted'[d]
          PROVE  RowsOf(call'[d].revision, revisions') = {}
      <4>1. d # c /\ inserted[d] /\ call'[d] = call[d]
        BY <2>2, <3>2
      <4>2. inserted[c] => ~SameKey(call[c].revision, call[d].revision)
        BY <4>1 DEF IndInv, ImmutableRevisions
      <4>3. QED
        BY <2>3, <4>1, <4>2 DEF IndInv, ImmutableRevisions, Visible, RowsOf
    <3>3. QED
      BY <2>2, <3>1, <3>2 DEF IndInv, ImmutableRevisions
  <2>6. HeadsRegistered'
    <3>1. call[c].revision \in revisions'
      BY <2>1, <2>3 DEF IndInv, ControlInv
    <3>2. ASSUME NEW d \in Client, wrote'[d]
          PROVE  call'[d].revision \in Visible(d)'
      BY <2>2, <2>3, <3>2 DEF IndInv, HeadsRegistered, Visible
    <3>3. ASSUME NEW r \in ResourceId, heads'[r] # None
          PROVE  heads'[r] \in revisions' /\ heads'[r].resource_id = r
      BY <2>1, <2>3, <3>1, <3>3 DEF IndInv, TypeOK, HeadsRegistered, Resource
    <3>4. QED
      BY <3>2, <3>3 DEF HeadsRegistered
  <2>7. CheckHoldsUntilCommit'
    <3>1. ASSUME NEW d \in Client, wrote'[d]
          PROVE  /\ heads'[Resource(d)'] =
                        IF call'[d].op = "activate_if_head" THEN call'[d].expected ELSE None
                 /\ HeadBlockers(d)' = {}
      <4>1. d # c /\ wrote[d] /\ call'[d] = call[d]
        BY <2>2, <3>1
      <4>2. wrote[c] => Resource(d) # Resource(c)
        BY <4>1 DEF IndInv, CheckHoldsUntilCommit, HeadBlockers
      <4>3. heads'[Resource(d)] = heads[Resource(d)]
        BY <2>1, <2>3, <4>2 DEF IndInv, TypeOK
      <4>4. QED
        BY <2>2, <4>1, <4>3 DEF IndInv, CheckHoldsUntilCommit, HeadBlockers, Resource
    <3>2. QED
      BY <3>1 DEF CheckHoldsUntilCommit
  <2>8. QED
    BY <1>0, <2>4, <2>5, <2>6, <2>7 DEF IndInv
<1>9. ASSUME NEW c \in Client, Abort(c)
      PROVE  IndInv'
  BY <1>9, RollbackKeeps DEF Abort, Outcome
<1>10. CASE UNCHANGED <<revisions, heads, pc, call, inserted, wrote>>
  BY <1>0, <1>10 DEF IndInv, ControlInv, ImmutableRevisions, RowsOf, HeadsRegistered, Visible,
                     CheckHoldsUntilCommit, HeadBlockers, Resource
<1>11. QED
  BY <1>1, <1>2, <1>3, <1>4, <1>5, <1>6, <1>7, <1>8, <1>9, <1>10
     DEF Next, Step, Migrate, MigrateNewer, vars

\* The inductive invariant holds in every reachable state.
THEOREM Invariance == Spec => []IndInv
  BY IndInit, IndStep, PTL DEF Spec

\* No revision identifier ever names two contents (storage/postgres.py:94-110).
THEOREM RevisionsStayImmutable == Spec => []ImmutableRevisions
  BY Invariance, PTL DEF IndInv

\* Every head points to a registered revision (storage/postgres.py:112-171).
THEOREM HeadsStayRegistered == Spec => []HeadsRegistered
  BY Invariance, PTL DEF IndInv

\* An activation's check holds until it commits (storage/postgres.py:147-171).
THEOREM ActivationIsAtomic == Spec => []CheckHoldsUntilCommit
  BY Invariance, PTL DEF IndInv

-------------------------------------------------------------------------------
(* Deadlock *)

\* A transaction that has written a head waits for nobody; one that has only
\* inserted a revision waits for no revision row, and one that has neither has
\* nothing others wait for.
LEMMA NoWaitCycle == IndInv => NoDeadlock
<1> SUFFICES ASSUME IndInv, NEW S \in SUBSET Client, S # {}
             PROVE  \E c \in S : WaitsFor(c) \intersect S = {}
  BY DEF NoDeadlock
<1>1. CASE \E c \in S : wrote[c]
  <2>1. PICK c \in S : wrote[c]
    BY <1>1
  <2>2. pc[c] = "commit"
    BY <2>1 DEF IndInv, ControlInv
  <2>3. WaitsFor(c) = {}
    BY <2>2 DEF WaitsFor
  <2>4. QED
    BY <2>3
<1>2. CASE (\A c \in S : ~wrote[c]) /\ \E c \in S : pc[c] # "insert"
  <2>1. PICK c \in S : pc[c] # "insert"
    BY <1>2
  <2>2. WaitsFor(c) \intersect S = {}
    BY <1>2, <2>1 DEF WaitsFor, HeadBlockers
  <2>3. QED
    BY <2>2
<1>3. CASE \A c \in S : pc[c] = "insert"
  <2>1. PICK c \in S : TRUE
    OBVIOUS
  <2>2. \A o \in S : ~inserted[o]
    BY <1>3 DEF IndInv, ControlInv
  <2>3. WaitsFor(c) \intersect S = {}
    BY <1>3, <2>1, <2>2 DEF WaitsFor, RevisionBlockers
  <2>4. QED
    BY <2>3
<1>4. QED
  BY <1>1, <1>2, <1>3

\* The statements of the adapter never deadlock (storage/postgres.py:112-171).
THEOREM DeadlockFree == Spec => []NoDeadlock
  BY Invariance, NoWaitCycle, PTL

-------------------------------------------------------------------------------
(* Refinement *)

\* What the atomic store sees of initialize_head on an existing head.
Matched == [c \in Client |-> pc[c] = "commit" /\ call[c].op = "initialize_head" /\ ~wrote[c]]

LEMMA ContractInit == Init => Contract!StoreInit
  BY DEF Init, Contract!StoreInit, Contract!Init

\* A method that raises is a refused call.
LEMMA RollbackReturns ==
    ASSUME IndInv, NEW c \in Client, NEW result \in Outcome, pc[c] # "idle",
           Rollback(c, result), Contract!Refused(c, result), result \notin {"ok", "lost"}
    PROVE  Contract!Return(c, result)
<1>1. call[c] # None
  BY DEF IndInv, ControlInv
<1>2. Matched' = [Matched EXCEPT ![c] = FALSE]
  BY DEF Matched, IndInv, TypeOK, Rollback, Close, Goto
<1>3. QED
  BY <1>1, <1>2 DEF Contract!Return, Rollback, Close, Matched

\* A committed transaction is a call that takes effect at its commit.
LEMMA CommitReturns ==
    ASSUME IndInv, NEW c \in Client, Commit(c)
    PROVE  \E result \in Outcome : Contract!Return(c, result)
<1>1. PICK result \in {"ok", "lost"} : Close(c, result)
  BY DEF Commit
<1>2. /\ pc[c] = "commit" /\ call[c] \in Call /\ call[c] # None
      /\ call[c].revision \in Revision /\ Resource(c) \in ResourceId
  BY DEF Commit, IndInv, TypeOK, ControlInv, Call, Resource
<1>3. call[c].revision \in Visible(c) /\ revisions' = Visible(c)
  BY <1>2 DEF Commit, IndInv, ControlInv
<1>4. revisions' = revisions \union {call[c].revision}
  BY <1>3 DEF Visible
<1>5. ~Contract!Conflicts(call[c].revision, revisions)
  BY <1>2, <1>3
     DEF IndInv, TypeOK, ImmutableRevisions, OneContentPerKey, Visible, Contract!Conflicts,
         Contract!RowsOf, Contract!SameKey, RowsOf, SameKey
<1>6. Matched' = [Matched EXCEPT ![c] = FALSE]
  BY <1>1 DEF Matched, IndInv, TypeOK, Close, Goto
<1>7. Contract!Effect(c)
  <2>1. CASE call[c].op = "register_revision"
    <3>1. heads' = heads
      BY <2>1 DEF Commit, IndInv, ControlInv
    <3>2. QED
      BY <1>4, <1>5, <2>1, <3>1
         DEF Contract!Effect, Contract!Register
  <2>2. CASE call[c].op = "initialize_head" /\ wrote[c]
    <3>1. heads[Resource(c)] = None
      BY <2>2 DEF IndInv, CheckHoldsUntilCommit
    <3>2. heads' = [heads EXCEPT ![Resource(c)] = call[c].revision]
      BY <2>2 DEF Commit
    <3>3. QED
      BY <1>4, <1>5, <2>2, <3>1, <3>2
         DEF Contract!Effect, Contract!Register, Resource
  <2>3. CASE call[c].op = "initialize_head" /\ ~wrote[c]
    <3>1. revisions' = revisions /\ heads' = heads
      BY <1>2, <1>4, <2>3 DEF Commit, IndInv, ControlInv
    <3>2. Matched[c]
      BY <1>2, <2>3 DEF Matched
    <3>3. QED
      BY <2>3, <3>1, <3>2 DEF Contract!Effect, Contract!vars, Matched
  <2>4. CASE call[c].op = "activate_if_head"
    <3>1. wrote[c]
      BY <1>2, <2>4 DEF IndInv, ControlInv
    <3>2. heads[Resource(c)] = call[c].expected
      BY <2>4, <3>1 DEF IndInv, CheckHoldsUntilCommit
    <3>3. heads' = [heads EXCEPT ![Resource(c)] = call[c].revision]
      BY <3>1 DEF Commit
    <3>4. call[c].expected.resource_id = Resource(c)
      BY <1>2, <2>4 DEF IndInv, ControlInv
    <3>5. QED
      BY <1>4, <1>5, <2>4, <3>2, <3>3, <3>4
         DEF Contract!Effect, Contract!ActivateIfHead, Contract!Register, Resource
  <2>5. QED
    BY <1>2, <2>1, <2>2, <2>3, <2>4 DEF Call, Op
<1>8. QED
  BY <1>1, <1>2, <1>6, <1>7 DEF Contract!Return, Close, Matched, Outcome

LEMMA ContractStep ==
    IndInv /\ [Next]_vars => [Contract!StoreNext]_(Contract!storeVars)
<1> SUFFICES ASSUME IndInv, [Next]_vars
             PROVE  Contract!StoreNext \/ UNCHANGED Contract!storeVars
  OBVIOUS
<1>1. ASSUME UNCHANGED <<revisions, heads, call, outcome>>, Matched' = Matched
      PROVE  UNCHANGED Contract!storeVars
  BY <1>1 DEF Contract!storeVars, Matched
<1>2. ASSUME NEW c \in Client, NEW op \in Op, NEW expected \in Revision,
             NEW revision \in Revision, Begin(c, op, expected, revision)
      PROVE  Contract!StoreNext
  <2>1. call[c] = None
    BY <1>2 DEF Begin, IndInv, ControlInv
  <2>2. Matched' = Matched
    BY <1>2 DEF Begin, Goto, Matched, IndInv, TypeOK
  <2>3. Contract!Invoke(c, op, expected, revision)
    BY <1>2, <2>1, <2>2 DEF Begin, Contract!Invoke, Matched
  <2>4. QED
    BY <2>3 DEF Contract!StoreNext, Contract!Op, Op
<1>3. ASSUME NEW c \in Client, NEW result \in Outcome, pc[c] # "idle",
             Rollback(c, result), Contract!Refused(c, result), result \notin {"ok", "lost"}
      PROVE  Contract!StoreNext
  BY <1>3, RollbackReturns DEF Contract!StoreNext, Contract!Outcome, Outcome
<1>4. ASSUME NEW c \in Client, AssertInitialized(c)
      PROVE  Contract!StoreNext \/ UNCHANGED Contract!storeVars
  <2>1. CASE /\ Advance(c)
             /\ UNCHANGED <<schema, revisions, heads, call, inserted, wrote, outcome>>
    <3>1. Matched' = Matched
      BY <1>4, <2>1
         DEF AssertInitialized, Advance, StatementAfter, Goto, Matched, IndInv, TypeOK
    <3>2. QED
      BY <1>1, <2>1, <3>1
  <2>2. ASSUME NEW result \in {"UnsupportedStorageSchema", "UndefinedTable"},
               Rollback(c, result)
        PROVE  Contract!StoreNext
    <3>1. Contract!Refused(c, result)
      BY <2>2 DEF Rollback, Contract!Refused, Contract!vars
    <3>2. QED
      BY <1>3, <1>4, <2>2, <3>1 DEF AssertInitialized, Outcome
  <2>3. QED
    BY <1>4, <2>1, <2>2 DEF AssertInitialized
<1>5. ASSUME NEW c \in Client, InsertRevision(c)
      PROVE  UNCHANGED Contract!storeVars
  <2>1. Matched' = Matched
    BY <1>5 DEF InsertRevision, Advance, StatementAfter, Goto, Matched, IndInv, TypeOK
  <2>2. QED
    BY <1>1, <1>5, <2>1 DEF InsertRevision
<1>6. ASSUME NEW c \in Client, ConfirmRevision(c)
      PROVE  Contract!StoreNext \/ UNCHANGED Contract!storeVars
  <2>1. CASE /\ Advance(c)
             /\ UNCHANGED <<schema, revisions, heads, call, inserted, wrote, outcome>>
    <3>1. Matched' = Matched
      BY <1>6, <2>1
         DEF ConfirmRevision, Advance, StatementAfter, Goto, Matched, IndInv, TypeOK
    <3>2. QED
      BY <1>1, <2>1, <3>1
  <2>2. CASE call[c].revision \notin Visible(c) /\ Rollback(c, "RevisionConflict")
    <3>1. pc[c] = "confirm" /\ call[c].revision \in Revision
      BY <1>6 DEF ConfirmRevision, IndInv, TypeOK, Call
    <3>2. PICK row \in RowsOf(call[c].revision, revisions) : TRUE
      BY <2>2, <3>1 DEF IndInv, ControlInv, Visible
    <3>3. row \in Revision /\ row # call[c].revision /\ SameKey(row, call[c].revision)
      BY <2>2, <3>2 DEF IndInv, TypeOK, RowsOf, Visible
    <3>4. row.digest # call[c].revision.digest
      BY <3>1, <3>3 DEF SameKey
    <3>5. Contract!Refused(c, "RevisionConflict")
      BY <2>2, <3>2, <3>4
         DEF Rollback, Contract!Refused, Contract!vars, Contract!Conflicts, Contract!RowsOf,
             Contract!SameKey, RowsOf, SameKey
    <3>6. QED
      BY <1>3, <2>2, <3>1, <3>5 DEF Outcome
  <2>3. QED
    BY <1>6, <2>1, <2>2 DEF ConfirmRevision
<1>7. ASSUME NEW c \in Client, InsertHead(c)
      PROVE  UNCHANGED Contract!storeVars
  <2>1. Matched' = Matched
    BY <1>7 DEF InsertHead, Goto, Matched, IndInv, TypeOK
  <2>2. QED
    BY <1>1, <1>7, <2>1 DEF InsertHead
<1>8. ASSUME NEW c \in Client, CompareHead(c)
      PROVE  Contract!StoreNext
  <2>1. /\ pc[c] = "compare" /\ call[c] # None /\ call[c].op = "initialize_head"
        /\ heads[Resource(c)] # None /\ ~wrote[c]
    BY <1>8 DEF CompareHead, IndInv, ControlInv
  <2>2. CASE /\ heads[Resource(c)] = call[c].revision
             /\ Advance(c)
             /\ UNCHANGED <<schema, revisions, heads, call, inserted, wrote, outcome>>
    <3>1. Matched' = [Matched EXCEPT ![c] = TRUE]
      BY <2>1, <2>2 DEF Advance, StatementAfter, Goto, Matched, IndInv, TypeOK
    <3>2. Contract!SeeHead(c)
      BY <2>1, <2>2, <3>1 DEF Contract!SeeHead, Matched, Resource
    <3>3. QED
      BY <3>2 DEF Contract!StoreNext
  <2>3. CASE heads[Resource(c)] # call[c].revision /\ Rollback(c, "HeadConflict")
    <3>1. Contract!Refused(c, "HeadConflict")
      BY <2>1, <2>3 DEF Rollback, Contract!Refused, Contract!vars, Resource
    <3>2. QED
      BY <1>3, <2>1, <2>3, <3>1 DEF Outcome
  <2>4. QED
    BY <1>8, <2>2, <2>3 DEF CompareHead
<1>9. ASSUME NEW c \in Client, UpdateHead(c)
      PROVE  Contract!StoreNext \/ UNCHANGED Contract!storeVars
  <2>1. CASE Advance(c) /\ UNCHANGED <<schema, revisions, heads, call, inserted, outcome>>
                        /\ wrote' = [wrote EXCEPT ![c] = TRUE]
    <3>1. Matched' = Matched
      BY <1>9, <2>1 DEF UpdateHead, Advance, StatementAfter, Goto, Matched, IndInv, TypeOK
    <3>2. QED
      BY <1>1, <2>1, <3>1
  <2>2. CASE heads[Resource(c)] # call[c].expected /\ Rollback(c, "HeadConflict")
    <3>1. Contract!Refused(c, "HeadConflict")
      BY <1>9, <2>2 DEF UpdateHead, Rollback, Contract!Refused, Contract!vars, Resource
    <3>2. QED
      BY <1>3, <1>9, <2>2, <3>1 DEF UpdateHead, Outcome
  <2>3. QED
    BY <1>9, <2>1, <2>2 DEF UpdateHead
<1>10. ASSUME NEW c \in Client, Commit(c)
       PROVE  Contract!StoreNext
  BY <1>10, CommitReturns DEF Contract!StoreNext, Contract!Outcome, Outcome
<1>11. ASSUME NEW c \in Client, Abort(c)
       PROVE  Contract!StoreNext
  <2>1. Contract!Refused(c, "error")
    BY <1>11 DEF Abort, Rollback, Contract!Refused, Contract!vars
  <2>2. QED
    BY <1>3, <1>11, <2>1 DEF Abort, Outcome
<1>12. ASSUME NEW c \in Client, Migrate(c)
       PROVE  Contract!StoreNext
  <2>1. call[c] = None
    BY <1>12 DEF Migrate, IndInv, ControlInv
  <2>2. Matched' = Matched
    BY <1>12 DEF Migrate, Matched
  <2>3. Contract!Administer(c)
    BY <1>12, <2>1, <2>2 DEF Migrate, Contract!Administer, Matched
  <2>4. QED
    BY <2>3 DEF Contract!StoreNext
<1>13. CASE UNCHANGED <<revisions, heads, pc, call, inserted, wrote, outcome>>
  <2>1. Matched' = Matched
    BY <1>13 DEF Matched
  <2>2. QED
    BY <1>1, <1>13, <2>1
<1>14. QED
  BY <1>2, <1>4, <1>5, <1>6, <1>7, <1>8, <1>9, <1>10, <1>11, <1>12, <1>13
     DEF Next, Step, MigrateNewer, vars

\* The adapter implements the atomic store: every step is one of the store's or
\* none of its business (storage/postgres.py:45-171 against storage/base.py:9-25).
THEOREM ImplementsStore == Spec => StoreContract
  BY ContractInit, Invariance, ContractStep, PTL DEF Spec, StoreContract, Contract!StoreSpec

\* A call of the store does to revisions and heads what the registry would do.
LEMMA EffectIsRegistry ==
    ASSUME IndInv, NEW c \in Client, call[c] # None, Contract!Effect(c)
    PROVE  Contract!Next \/ UNCHANGED Contract!vars
<1>1. call[c].revision \in Revision /\ call[c].expected \in Revision
  BY DEF IndInv, TypeOK, Call
<1>2. CASE \E make_head \in BOOLEAN : Contract!Register(call[c].revision, make_head)
  BY <1>1, <1>2 DEF Contract!Next
<1>3. CASE Contract!ActivateIfHead(call[c].expected, call[c].revision)
  BY <1>1, <1>3 DEF Contract!Next
<1>4. QED
  BY <1>2, <1>3 DEF Contract!Effect

LEMMA StoreStepIsRegistry ==
    IndInv /\ [Contract!StoreNext]_(Contract!storeVars) => [Contract!Next]_(Contract!vars)
<1> SUFFICES ASSUME IndInv, Contract!StoreNext PROVE Contract!Next \/ UNCHANGED Contract!vars
  BY DEF Contract!storeVars, Contract!vars
<1>1. ASSUME NEW c \in Client, NEW result \in Contract!Outcome, Contract!Return(c, result)
      PROVE  Contract!Next \/ UNCHANGED Contract!vars
  BY <1>1, EffectIsRegistry DEF Contract!Return, Contract!Refused
<1>2. QED
  BY <1>1 DEF Contract!StoreNext, Contract!Invoke, Contract!SeeHead, Contract!Administer,
              Contract!vars

\* To everyone who reads its committed rows, the database is the reference registry
\* of the kernel, however transactions interleave, fail or go unacknowledged
\* (storage/postgres.py:45-171 against kernel.py:30-62).
THEOREM ImplementsRegistry == Spec => Contract!Spec
<1>1. Contract!StoreInit => Contract!Init
  BY DEF Contract!StoreInit
<1>2. QED
  BY <1>1, ContractInit, Invariance, ContractStep, StoreStepIsRegistry, PTL DEF Spec, Contract!Spec

\* After its initialisation a head moves only through an activation that expected
\* it (storage/postgres.py:134-171).
THEOREM HeadsMoveByActivationHolds == Spec => HeadsMoveByActivation
<1>1. ASSUME IndInv, [Next]_vars, NEW r \in ResourceId, heads[r] # None, heads'[r] # heads[r]
      PROVE  \E c \in Client :
                 /\ call[c] = [op |-> "activate_if_head", expected |-> heads[r],
                               revision |-> heads'[r]]
                 /\ outcome'[c] \in {"ok", "lost"}
  <2>1. PICK c \in Client : Commit(c)
    BY <1>1 DEF Next, Step, Begin, AssertInitialized, InsertRevision, ConfirmRevision,
                InsertHead, CompareHead, UpdateHead, Abort, Rollback, Migrate, MigrateNewer, vars
  <2>2. /\ wrote[c] /\ r = Resource(c) /\ heads'[r] = call[c].revision
        /\ outcome'[c] \in {"ok", "lost"}
    BY <1>1, <2>1 DEF Commit, Close, IndInv, TypeOK
  <2>3. call[c] \in Call /\ call[c].op = "activate_if_head" /\ heads[r] = call[c].expected
    BY <1>1, <2>1, <2>2 DEF Commit, IndInv, TypeOK, CheckHoldsUntilCommit
  <2>4. QED
    BY <2>2, <2>3 DEF Call
<1>2. IndInv /\ [Next]_vars
      => [\A r \in ResourceId :
              heads[r] # None /\ heads'[r] # heads[r] =>
                  \E c \in Client :
                      /\ call[c] = [op |-> "activate_if_head", expected |-> heads[r],
                                    revision |-> heads'[r]]
                      /\ outcome'[c] \in {"ok", "lost"}]_vars
  BY <1>1
<1>3. QED
  BY <1>2, Invariance, PTL DEF Spec, HeadsMoveByActivation

\* Statements bring a call nearer to its end, and nothing sets it back
\* (storage/postgres.py:85-171).
THEOREM CallsAdvanceHolds == Spec => CallsAdvance
<1>1. ASSUME IndInv, NEW c \in Client, Step(c) \/ Abort(c)
      PROVE  StatementsLeft(c)' < StatementsLeft(c)
  <2>1. pc \in [Client -> {"idle", "assert", "insert", "confirm", "head", "compare", "commit"}]
    BY <1>1 DEF IndInv, TypeOK, Statement
  <2>2. CASE AssertInitialized(c)
    <3>1. pc[c] = "assert" /\ pc'[c] \in {"insert", "idle"}
      BY <2>1, <2>2 DEF AssertInitialized, Advance, Goto, StatementAfter, Rollback, Close
    <3>2. QED
      BY <3>1 DEF StatementsLeft
  <2>3. CASE InsertRevision(c)
    BY <2>1, <2>3 DEF InsertRevision, Advance, Goto, StatementAfter, StatementsLeft
  <2>4. CASE ConfirmRevision(c)
    BY <2>1, <2>4 DEF ConfirmRevision, Advance, Goto, StatementAfter, Rollback, Close,
                      StatementsLeft
  <2>5. CASE InsertHead(c)
    BY <2>1, <2>5 DEF InsertHead, Goto, StatementsLeft
  <2>6. CASE CompareHead(c)
    BY <2>1, <2>6 DEF CompareHead, Advance, Goto, StatementAfter, Rollback, Close,
                      StatementsLeft
  <2>7. CASE UpdateHead(c)
    BY <2>1, <2>7 DEF UpdateHead, Advance, Goto, StatementAfter, Rollback, Close,
                      StatementsLeft
  <2>8. CASE Commit(c)
    BY <2>1, <2>8 DEF Commit, Close, Goto, StatementsLeft
  <2>9. CASE Abort(c)
    BY <2>1, <2>9 DEF Abort, Rollback, Close, Goto, StatementsLeft
  <2>10. QED
    BY <1>1, <2>2, <2>3, <2>4, <2>5, <2>6, <2>7, <2>8, <2>9 DEF Step
<1>2. ASSUME IndInv, [Next]_vars, NEW c \in Client, pc[c] # "idle", ~(Step(c) \/ Abort(c))
      PROVE  pc'[c] = pc[c]
  <2>1. ASSUME NEW d \in Client \ {c}, NEW s, Goto(d, s)
        PROVE  pc'[c] = pc[c]
    BY <1>2, <2>1 DEF Goto, IndInv, TypeOK
  <2>2. ASSUME NEW d \in Client \ {c}, Step(d) \/ Abort(d)
        PROVE  pc'[c] = pc[c]
    BY <2>1, <2>2 DEF Step, Abort, AssertInitialized, InsertRevision, ConfirmRevision, InsertHead,
                      CompareHead, UpdateHead, Commit, Advance, Rollback, Close
  <2>3. ASSUME NEW d \in Client, NEW op \in Op, NEW expected \in Revision,
               NEW revision \in Revision, Begin(d, op, expected, revision)
        PROVE  pc'[c] = pc[c]
    BY <1>2, <2>1, <2>3 DEF Begin
  <2>4. QED
    BY <1>2, <2>2, <2>3 DEF Next, Migrate, MigrateNewer, vars
<1>3. IndInv /\ [Next]_vars
      => [\A c \in Client : pc[c] # "idle" =>
              IF Step(c) \/ Abort(c) THEN StatementsLeft(c)' < StatementsLeft(c)
                                    ELSE pc'[c] = pc[c]]_vars
  BY <1>1, <1>2
<1>4. QED
  BY <1>3, Invariance, PTL DEF Spec, CallsAdvance
===============================================================================
