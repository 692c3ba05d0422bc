--------------------------- MODULE AppendOnly_proofs ---------------------------
(***************************************************************************)
(* The append-only tables of the PostgreSQL adapter.  The event log        *)
(* (EventLog) for any clients, consumers, events and bounds: its inductive *)
(* invariant, and what appenders and consumers can rely on.  The witnesses *)
(* (WitnessStore) for any writers, readers, records and any conversion of  *)
(* payloads: likewise, and what writers and readers can rely on.           *)
(***************************************************************************)
EXTENDS EventLog, WitnessStore, FiniteSetTheorems, TLAPS

USE JsonAssumption, EventAssumption, BoundAssumption

-------------------------------------------------------------------------------
(* Initially *)

LEMMA InvInit == Init => IndInv
<1> SUFFICES ASSUME Init PROVE IndInv
  OBVIOUS
<1>1. TypeOK
  BY DEF Init, TypeOK, Statement, Outcome, Result
<1>2. IsFiniteSet(rows)
  BY FS_EmptySet DEF Init
<1>3. ControlInv
  BY <1>2 DEF Init, ControlInv
<1>4. OneRowPerEvent /\ TruthfulAnswers
  BY DEF Init, OneRowPerEvent, TruthfulAnswers
<1>5. QED
  BY <1>1, <1>3, <1>4 DEF IndInv

-------------------------------------------------------------------------------
(* Calls that end *)

\* Ending a call keeps the types of everything it assigns.
LEMMA CloseTypes ==
    ASSUME TypeOK, NEW c \in Client, pc[c] # "idle", NEW result \in Result,
           NEW sequence \in 0..MaxSequence, Close(c, result, sequence)
    PROVE  /\ pc' \in [Client -> Statement]
           /\ event' \in [Client -> Event \union {None}]
           /\ number' \in [Client -> 0..MaxSequence]
           /\ placed' \in [Client -> BOOLEAN]
           /\ before' \in [Client -> SUBSET (1..MaxSequence)]
           /\ outcome' \in [Client -> Outcome]
           /\ \A d \in Client : pc'[d] # "idle" => event'[d] \in Event
<1>1. [result |-> result, event |-> event[c], sequence |-> sequence] \in Outcome
  BY DEF TypeOK, Outcome
<1>2. QED
  BY <1>1 DEF TypeOK, Close, Goto, Statement

\* A call that ends without writing a row keeps the invariant, if its answer is true.
LEMMA CloseKeeps ==
    ASSUME IndInv, NEW c \in Client, pc[c] # "idle", NEW result \in Result,
           NEW sequence \in 0..MaxSequence, Close(c, result, sequence),
           result # "stored",
           result = "EventConflict" =>
               \E row \in RowsOfId(event[c].event_id) : row.content # event[c].content,
           UNCHANGED <<rows, taken, cursor, delivered>>
    PROVE  IndInv'
<1>1. TypeOK'
  BY CloseTypes DEF IndInv, TypeOK
<1>2. /\ pc'[c] = "idle" /\ number'[c] = 0 /\ placed'[c] = FALSE /\ before'[c] = {}
      /\ event'[c] = None
      /\ \A d \in Client \ {c} : /\ pc'[d] = pc[d] /\ number'[d] = number[d]
                                 /\ placed'[d] = placed[d] /\ before'[d] = before[d]
                                 /\ event'[d] = event[d]
  BY DEF IndInv, TypeOK, Close, Goto
<1>3. ControlInv'
  BY <1>2 DEF IndInv, TypeOK, ControlInv, RowsOfId
<1>4. OneRowPerEvent'
  BY <1>2 DEF IndInv, TypeOK, OneRowPerEvent, RowsOfId, Blockers
<1>5. TruthfulAnswers'
  <2>1. outcome'[c] = [result |-> result, event |-> event[c], sequence |-> sequence]
    BY DEF IndInv, TypeOK, Close
  <2>2. \A d \in Client \ {c} : outcome'[d] = outcome[d]
    BY DEF IndInv, TypeOK, Close
  <2>3. QED
    BY <2>1, <2>2 DEF IndInv, TruthfulAnswers, RowsOfId
<1>6. QED
  BY <1>1, <1>3, <1>4, <1>5 DEF IndInv

-------------------------------------------------------------------------------
(* Each action *)

LEMMA AppendKeeps ==
    ASSUME IndInv, NEW c \in Client, NEW e \in Event, Append(c, e)
    PROVE  IndInv'
<1>1. {row.sequence : row \in rows} \subseteq 1..MaxSequence
  BY DEF IndInv, TypeOK, Row
<1>2. TypeOK'
  <2>1. [result |-> "pending", event |-> e, sequence |-> 0] \in Outcome
    BY DEF Outcome, Result
  <2>2. QED
    BY <1>1, <2>1 DEF IndInv, TypeOK, Append, Goto, Statement
<1>3. /\ pc[c] = "idle" /\ pc'[c] = "number" /\ event'[c] = e
      /\ before'[c] = {row.sequence : row \in rows}
      /\ \A d \in Client \ {c} : pc'[d] = pc[d] /\ event'[d] = event[d] /\ before'[d] = before[d]
      /\ UNCHANGED <<rows, taken, number, placed>>
  BY DEF IndInv, TypeOK, Append, Goto
<1>4. number[c] = 0 /\ ~placed[c]
  BY <1>3 DEF IndInv, TypeOK, ControlInv
<1>5. ControlInv'
  BY <1>3, <1>4 DEF IndInv, TypeOK, ControlInv, RowsOfId
<1>6. OneRowPerEvent'
  BY <1>3, <1>4 DEF IndInv, TypeOK, OneRowPerEvent, RowsOfId, Blockers
<1>7. TruthfulAnswers'
  <2>1. outcome'[c].result = "pending"
    BY DEF IndInv, TypeOK, Append
  <2>2. \A d \in Client \ {c} : outcome'[d] = outcome[d]
    BY DEF IndInv, TypeOK, Append
  <2>3. QED
    BY <1>3, <2>1, <2>2 DEF IndInv, TruthfulAnswers, RowsOfId
<1>8. QED
  BY <1>2, <1>5, <1>6, <1>7 DEF IndInv

LEMMA TakeNumberKeeps ==
    ASSUME IndInv, NEW c \in Client, TakeNumber(c)
    PROVE  IndInv'
<1>1. /\ pc[c] = "number" /\ pc'[c] = "insert" /\ taken < MaxSequence /\ taken' = taken + 1
      /\ number'[c] = taken + 1
      /\ \A d \in Client \ {c} : pc'[d] = pc[d] /\ number'[d] = number[d]
      /\ UNCHANGED <<rows, event, placed, before, outcome, cursor, delivered>>
  BY DEF IndInv, TypeOK, TakeNumber, Goto
<1>2. TypeOK'
  BY <1>1 DEF IndInv, TypeOK, TakeNumber, Goto, Statement
<1>3. ~placed[c]
  BY <1>1 DEF IndInv, ControlInv
<1>4. ControlInv'
  <2>1. \A row \in rows : row.sequence \in Int /\ row.sequence <= taken + 1
    BY DEF IndInv, TypeOK, Row, ControlInv
  <2>2. \A d \in Client : number[d] \in Int /\ number[d] <= taken /\ before[d] \subseteq Int
    BY DEF IndInv, TypeOK, ControlInv
  <2>3. taken \in Int
    BY DEF IndInv, TypeOK
  <2>4. \A d \in Client : \A n \in before[d] : n <= taken
    BY DEF IndInv, ControlInv
  <2>5. IsFiniteSet(rows)' /\ \A row \in rows' : row.sequence <= taken'
                                                 /\ JsonOf[row.content] = row.content
    BY <1>1, <2>1 DEF IndInv, ControlInv
  <2>6. ASSUME NEW d \in Client
        PROVE  /\ pc'[d] = "idle" => event'[d] = None
               /\ number'[d] > 0 <=> pc'[d] \in {"insert", "compare", "commit"}
               /\ number'[d] <= taken'
               /\ \A n \in before'[d] : n <= taken' /\ (number'[d] > 0 => n < number'[d])
    <3>1. CASE d = c
      BY <1>1, <2>2, <2>3, <2>4, <3>1 DEF IndInv, TypeOK
    <3>2. CASE d # c
      BY <1>1, <2>2, <2>3, <2>4, <3>2 DEF IndInv, ControlInv
    <3>3. QED
      BY <3>1, <3>2
  <2>7. ASSUME NEW d \in Client
        PROVE  /\ placed'[d] => pc'[d] = "commit"
               /\ pc'[d] = "compare" => RowsOfId(event[d].event_id)' # {}
               /\ pc'[d] = "commit" /\ ~placed'[d] =>
                      \E row \in RowsOfId(event[d].event_id)' : row.content = event'[d].content
    BY <1>1, <1>3 DEF IndInv, ControlInv, RowsOfId
  <2>8. QED
    BY <1>1, <2>5, <2>6, <2>7 DEF ControlInv, RowsOfId
<1>5. OneRowPerEvent'
  <2>1. \A row \in rows : row.sequence # taken + 1
    BY DEF IndInv, TypeOK, Row, ControlInv
  <2>2. \A d \in Client : number[d] # taken + 1
    BY DEF IndInv, TypeOK, ControlInv
  <2>3. QED
    BY <1>1, <2>1, <2>2 DEF IndInv, OneRowPerEvent, RowsOfId, Blockers
<1>6. TruthfulAnswers'
  BY <1>1 DEF IndInv, TruthfulAnswers, RowsOfId
<1>7. QED
  BY <1>2, <1>4, <1>5, <1>6 DEF IndInv

LEMMA InsertKeeps ==
    ASSUME IndInv, NEW c \in Client, Insert(c)
    PROVE  IndInv'
<1> DEFINE fresh == RowsOfId(event[c].event_id) = {}
<1>1. /\ pc[c] = "insert" /\ Blockers(c) = {}
      /\ pc'[c] = IF fresh THEN "commit" ELSE "compare"
      /\ placed'[c] = fresh
      /\ \A d \in Client \ {c} : pc'[d] = pc[d] /\ placed'[d] = placed[d]
      /\ UNCHANGED <<rows, taken, event, number, before, outcome, cursor, delivered>>
  BY DEF IndInv, TypeOK, Insert, Goto
<1>2. TypeOK'
  <2>1. placed' \in [Client -> BOOLEAN] /\ pc' \in [Client -> Statement]
    BY DEF IndInv, TypeOK, Insert, Goto, Statement
  <2>2. \A d \in Client : pc'[d] # "idle" => event'[d] \in Event
    BY <1>1 DEF IndInv, TypeOK
  <2>3. QED
    BY <1>1, <2>1, <2>2 DEF IndInv, TypeOK
<1>3. number[c] > 0 /\ ~placed[c]
  BY <1>1 DEF IndInv, ControlInv
<1>4. ControlInv'
  <2>1. placed'[c] => pc'[c] = "commit"
    BY <1>1
  <2>2. pc'[c] = "compare" => RowsOfId(event[c].event_id) # {}
    BY <1>1
  <2>3. pc'[c] \in {"compare", "commit"} /\ (pc'[c] = "commit" => placed'[c])
    BY <1>1
  <2>4. QED
    BY <1>1, <1>3, <2>1, <2>2, <2>3 DEF IndInv, ControlInv, RowsOfId
<1>5. OneRowPerEvent'
  <2>1. ASSUME NEW d \in Client, placed'[d]
        PROVE  RowsOfId(event[d].event_id) = {}
    BY <1>1, <2>1 DEF IndInv, OneRowPerEvent
  <2>2. ASSUME NEW d \in Client, NEW o \in Client \ {d}, placed'[d], placed'[o]
        PROVE  event[o].event_id # event[d].event_id
    <3>1. CASE d = c
      BY <1>1, <2>2, <3>1 DEF Blockers
    <3>2. CASE o = c
      BY <1>1, <2>2, <3>2 DEF Blockers
    <3>3. CASE d # c /\ o # c
      BY <1>1, <2>2, <3>3 DEF IndInv, OneRowPerEvent, Blockers
    <3>4. QED
      BY <3>1, <3>2, <3>3
  <2>3. QED
    BY <1>1, <2>1, <2>2 DEF IndInv, OneRowPerEvent, RowsOfId, Blockers
<1>6. TruthfulAnswers'
  BY <1>1 DEF IndInv, TruthfulAnswers, RowsOfId
<1>7. QED
  BY <1>2, <1>4, <1>5, <1>6 DEF IndInv

LEMMA CompareKeeps ==
    ASSUME IndInv, NEW c \in Client, Compare(c)
    PROVE  IndInv'
<1>1. pc[c] = "compare" /\ UNCHANGED <<rows, taken, cursor, delivered>>
  BY DEF Compare
<1>2. RowsOfId(event[c].event_id) # {} /\ number[c] > 0 /\ ~placed[c]
  BY <1>1 DEF IndInv, ControlInv
<1>3. CASE /\ \E row \in RowsOfId(event[c].event_id) : row.content = event[c].content
           /\ Goto(c, "commit")
           /\ UNCHANGED <<event, number, placed, before, outcome>>
  <2>1. pc'[c] = "commit" /\ \A d \in Client \ {c} : pc'[d] = pc[d]
    BY <1>3 DEF IndInv, TypeOK, Goto
  <2>2. TypeOK'
    BY <1>1, <1>3 DEF IndInv, TypeOK, Goto, Statement
  <2>3. ControlInv'
    BY <1>1, <1>2, <1>3, <2>1 DEF IndInv, ControlInv, RowsOfId
  <2>4. OneRowPerEvent' /\ TruthfulAnswers'
    BY <1>1, <1>3 DEF IndInv, OneRowPerEvent, TruthfulAnswers, RowsOfId, Blockers
  <2>5. QED
    BY <2>2, <2>3, <2>4 DEF IndInv
<1>4. CASE /\ \A row \in RowsOfId(event[c].event_id) : row.content # event[c].content
           /\ Close(c, "EventConflict", 0)
  BY <1>1, <1>2, <1>4, CloseKeeps DEF Result
<1>5. QED
  BY <1>3, <1>4 DEF Compare

\* A commit adds the transaction's row, which has a new identifier and number.
LEMMA CommitKeeps ==
    ASSUME IndInv, NEW c \in Client, Commit(c)
    PROVE  IndInv'
<1> DEFINE mine == [sequence |-> number[c], event_id |-> event[c].event_id,
                    content |-> JsonOf[event[c].content]]
<1>1. /\ pc[c] = "commit" /\ number[c] > 0 /\ event[c] \in Event
      /\ UNCHANGED <<taken, cursor, delivered>>
  BY DEF IndInv, TypeOK, ControlInv, Commit
<1>2. RowOf(c) = mine /\ mine \in Row /\ JsonOf[mine.content] = mine.content
  BY <1>1 DEF IndInv, TypeOK, RowOf, Row
<1>3. rows' = IF placed[c] THEN rows \union {mine} ELSE rows
  BY <1>2 DEF Commit
<1>4. PICK row \in rows' : /\ row.event_id = event[c].event_id
                           /\ \/ Close(c, "stored", row.sequence)
                              \/ Close(c, "lost", 0)
  BY DEF Commit
<1>5. PICK result \in {"stored", "lost"}, sequence \in {row.sequence, 0} :
          /\ Close(c, result, sequence)
          /\ result = "stored" => sequence = row.sequence
  BY <1>4
<1>6. rows' \subseteq Row /\ row \in Row /\ sequence \in 0..MaxSequence /\ result \in Result
  BY <1>2, <1>3 DEF IndInv, TypeOK, Row, Result
<1>7. TypeOK'
  BY <1>1, <1>5, <1>6, CloseTypes DEF IndInv, TypeOK
<1>8. /\ pc'[c] = "idle" /\ number'[c] = 0 /\ placed'[c] = FALSE /\ before'[c] = {}
      /\ event'[c] = None
      /\ outcome'[c] = [result |-> result, event |-> event[c], sequence |-> sequence]
      /\ \A d \in Client \ {c} : /\ pc'[d] = pc[d] /\ number'[d] = number[d]
                                 /\ placed'[d] = placed[d] /\ before'[d] = before[d]
                                 /\ event'[d] = event[d] /\ outcome'[d] = outcome[d]
  BY <1>5 DEF IndInv, TypeOK, Close, Goto
<1>9. rows \subseteq rows'
  BY <1>3
<1>10. ControlInv'
  <2>1. IsFiniteSet(rows')
    BY <1>3, FS_AddElement DEF IndInv, ControlInv
  <2>2. \A r \in rows' : r.sequence <= taken' /\ JsonOf[r.content] = r.content
    BY <1>1, <1>2, <1>3 DEF IndInv, ControlInv
  <2>3. QED
    BY <1>1, <1>8, <1>9, <2>1, <2>2 DEF IndInv, TypeOK, ControlInv, RowsOfId
<1>11. OneRowPerEvent'
  <2>1. placed[c] => /\ \A r \in rows : r.event_id # mine.event_id
                     /\ \A r \in rows : r.sequence # mine.sequence
    BY <1>1 DEF IndInv, OneRowPerEvent, RowsOfId
  <2>2. \A a, b \in rows' : a.event_id = b.event_id \/ a.sequence = b.sequence => a = b
    BY <1>3, <2>1 DEF IndInv, OneRowPerEvent
  <2>3. ASSUME NEW d \in Client, placed'[d]
        PROVE  RowsOfId(event[d].event_id)' = {} /\ Blockers(d)' = {}
    <3>1. d # c /\ placed[d] /\ event'[d] = event[d]
      BY <1>8, <2>3
    <3>2. RowsOfId(event[d].event_id) = {} /\ Blockers(d) = {}
      BY <3>1 DEF IndInv, OneRowPerEvent
    <3>3. placed[c] => event[c].event_id # event[d].event_id
      BY <3>1, <3>2 DEF Blockers
    <3>4. QED
      BY <1>3, <1>8, <3>1, <3>2, <3>3 DEF RowsOfId, Blockers
  <2>4. ASSUME NEW d \in Client, number'[d] > 0
        PROVE  /\ \A r \in rows' : r.sequence # number'[d]
               /\ \A o \in Client \ {d} : number'[o] # number'[d]
    <3>1. d # c /\ number'[d] = number[d] /\ number[d] > 0
      BY <1>8, <2>4
    <3>2. QED
      BY <1>3, <1>8, <3>1 DEF IndInv, OneRowPerEvent
  <2>5. QED
    BY <2>2, <2>3, <2>4 DEF OneRowPerEvent
<1>12. TruthfulAnswers'
  <2>1. result = "stored" =>
            [sequence |-> sequence, event_id |-> event[c].event_id,
             content |-> JsonOf[event[c].content]] \in rows'
    <3>1. CASE placed[c]
      <4>1. mine \in rows'
        BY <1>3, <3>1
      <4>2. row = mine
        BY <1>4, <1>11, <4>1 DEF OneRowPerEvent
      <4>3. QED
        BY <1>5, <4>1, <4>2
    <3>2. CASE ~placed[c]
      <4>1. PICK r \in rows : r.event_id = event[c].event_id /\ r.content = event[c].content
        BY <1>1, <3>2 DEF IndInv, ControlInv, RowsOfId
      <4>2. row = r
        BY <1>3, <1>4, <3>2, <4>1 DEF IndInv, OneRowPerEvent
      <4>3. JsonOf[event[c].content] = row.content
        BY <4>1, <4>2 DEF IndInv, ControlInv
      <4>4. row = [sequence |-> row.sequence, event_id |-> row.event_id,
                   content |-> row.content]
        BY <1>6 DEF Row
      <4>5. QED
        BY <1>4, <1>5, <4>3, <4>4
    <3>3. QED
      BY <3>1, <3>2
  <2>2. ASSUME NEW d \in Client
        PROVE  LET given == outcome'[d]
               IN /\ given.result = "stored" =>
                         [sequence |-> given.sequence, event_id |-> given.event.event_id,
                          content |-> JsonOf[given.event.content]] \in rows'
                  /\ given.result = "EventConflict" =>
                         \E r \in rows' : /\ r.event_id = given.event.event_id
                                          /\ r.content # given.event.content
    <3>1. CASE d = c
      BY <1>5, <1>8, <2>1, <3>1
    <3>2. CASE d # c
      BY <1>8, <1>9, <3>2 DEF IndInv, TruthfulAnswers, RowsOfId
    <3>3. QED
      BY <3>1, <3>2
  <2>3. QED
    BY <2>2 DEF TruthfulAnswers, RowsOfId
<1>13. QED
  BY <1>7, <1>10, <1>11, <1>12 DEF IndInv

LEMMA PollKeeps ==
    ASSUME IndInv, NEW k \in Consumer, NEW limit \in 1..MaxLimit, Poll(k, limit)
    PROVE  IndInv'
<1>1. UNCHANGED <<rows, taken, pc, event, number, placed, before, outcome>>
  BY DEF Poll
<1>2. Page(k, limit) \subseteq rows
  BY DEF Page, Ahead
<1>3. TypeOK'
  <2>1. PICK row \in Page(k, limit) : cursor' = [cursor EXCEPT ![k] = row.sequence]
    BY DEF Poll
  <2>2. row.sequence \in 0..MaxSequence
    BY <1>2 DEF IndInv, TypeOK, Row
  <2>3. delivered' \in [Consumer -> SUBSET Row]
    BY <1>2 DEF IndInv, TypeOK, Poll
  <2>4. QED
    BY <1>1, <2>1, <2>2, <2>3 DEF IndInv, TypeOK
<1>4. ControlInv' /\ OneRowPerEvent' /\ TruthfulAnswers'
  BY <1>1 DEF IndInv, ControlInv, OneRowPerEvent, TruthfulAnswers, RowsOfId, Blockers
<1>5. QED
  BY <1>3, <1>4 DEF IndInv

-------------------------------------------------------------------------------

LEMMA InvStep == IndInv /\ [Next]_vars => IndInv'
<1> SUFFICES ASSUME IndInv, [Next]_vars PROVE IndInv'
  OBVIOUS
<1>1. ASSUME NEW c \in Client, Abort(c)
      PROVE  IndInv'
  BY <1>1, CloseKeeps DEF Abort, Result
<1>2. CASE UNCHANGED vars
  BY <1>2 DEF vars, IndInv, TypeOK, ControlInv, OneRowPerEvent, TruthfulAnswers, RowsOfId, Blockers
<1>3. QED
  BY <1>1, <1>2, AppendKeeps, TakeNumberKeeps, InsertKeeps, CompareKeeps, CommitKeeps, PollKeeps
     DEF Next, Step

THEOREM Invariance == Spec => []IndInv
  BY InvInit, InvStep, PTL DEF Spec

\* Every value the log keeps has its type (storage/postgres.py:218-278).
THEOREM TypeCorrect == Spec => []TypeOK
  BY Invariance, PTL DEF IndInv

\* No append, retry or race doubles an event or a number (storage/postgres.py:221-252).
THEOREM OneRow == Spec => []OneRowPerEvent
  BY Invariance, PTL DEF IndInv

\* What append_event returned or raised stays true (storage/postgres.py:234-252).
THEOREM AnswersAreTrue == Spec => []TruthfulAnswers
  BY Invariance, PTL DEF IndInv

\* An event is numbered above all that was committed when its append was called
\* (storage/postgres.py:221-233).
THEOREM NumbersFollowRealTime == Spec => []RealTimeOrder
<1>1. IndInv => RealTimeOrder
  BY DEF IndInv, ControlInv, RealTimeOrder
<1>2. QED
  BY <1>1, Invariance, PTL

-------------------------------------------------------------------------------
(* Paging *)

\* A page is downward closed among the rows ahead of the cursor.
LEMMA PageIsPrefix ==
    ASSUME IndInv, NEW k \in Consumer, NEW limit \in 1..MaxLimit, NEW last \in Page(k, limit),
           NEW row \in Ahead(k), row.sequence <= last.sequence
    PROVE  row \in Page(k, limit)
<1> DEFINE Below(r) == {o \in Ahead(k) : o.sequence < r.sequence}
<1>1. IsFiniteSet(Ahead(k))
  BY FS_Subset DEF IndInv, ControlInv, Ahead
<1>2. IsFiniteSet(Below(last))
  BY <1>1, FS_Subset
<1>3. \A o \in Ahead(k) : o.sequence \in Int
  BY DEF Ahead, IndInv, TypeOK, Row
<1>4. Below(row) \subseteq Below(last)
  BY <1>3 DEF Page
<1>5. Cardinality(Below(row)) <= Cardinality(Below(last)) /\ IsFiniteSet(Below(row))
  BY <1>2, <1>4, FS_Subset
<1>6. Cardinality(Below(row)) \in Nat /\ Cardinality(Below(last)) \in Nat
  BY <1>2, <1>5, FS_CardinalityType
<1>7. Cardinality(Below(last)) < limit
  BY DEF Page
<1>8. QED
  BY <1>5, <1>6, <1>7 DEF Page

\* events_after never takes a consumer past a committed row it was not given
\* (storage/postgres.py:261-265).
THEOREM PagesMissNothingCommitted == Spec => NeverPassesCommitted
<1>1. ASSUME IndInv, [Next]_vars, NEW k \in Consumer, NEW row \in rows,
             cursor[k] < row.sequence, row.sequence <= cursor'[k]
      PROVE  row \in delivered'[k]
  <2>1. cursor[k] \in Int /\ row.sequence \in Int
    BY <1>1 DEF IndInv, TypeOK, Row
  <2>2. cursor'[k] # cursor[k]
    BY <1>1, <2>1
  <2>3. PICK limit \in 1..MaxLimit : Poll(k, limit)
    <3>1. ASSUME NEW c \in Client, Step(c) \/ Abort(c) PROVE cursor' = cursor
      BY <3>1 DEF Step, TakeNumber, Insert, Compare, Commit, Abort
    <3>2. ASSUME NEW c \in Client, NEW e \in Event, Append(c, e) PROVE cursor' = cursor
      BY <3>2 DEF Append
    <3>3. ASSUME NEW o \in Consumer, o # k, NEW limit \in 1..MaxLimit, Poll(o, limit)
          PROVE  cursor'[k] = cursor[k]
      BY <1>1, <3>3 DEF Poll, IndInv, TypeOK
    <3>4. QED
      BY <1>1, <2>2, <3>1, <3>2, <3>3 DEF Next, vars
  <2>4. PICK last \in Page(k, limit) : cursor' = [cursor EXCEPT ![k] = last.sequence]
    BY <2>3 DEF Poll
  <2>5. cursor'[k] = last.sequence
    BY <1>1, <2>4 DEF IndInv, TypeOK
  <2>6. row \in Ahead(k)
    BY <1>1 DEF Ahead
  <2>7. row \in Page(k, limit)
    BY <1>1, <2>5, <2>6, PageIsPrefix
  <2>8. delivered'[k] = delivered[k] \union Page(k, limit)
    BY <1>1, <2>3 DEF Poll, IndInv, TypeOK
  <2>9. QED
    BY <2>7, <2>8
<1>2. IndInv /\ [Next]_vars =>
          [\A k \in Consumer, row \in rows :
               cursor[k] < row.sequence /\ row.sequence <= cursor'[k]
               => row \in delivered'[k]]_vars
  BY <1>1
<1>3. QED
  BY <1>2, Invariance, PTL DEF Spec, NeverPassesCommitted

\* Statements bring an append nearer to its end, nothing sets it back, and it waits
\* only for transactions about to commit (storage/postgres.py:218-254).
THEOREM AppendsAdvanceHolds == Spec => AppendsAdvance
<1>1. ASSUME IndInv, NEW c \in Client, Step(c) \/ Abort(c)
      PROVE  StatementsLeft(c)' < StatementsLeft(c)
  <2>1. pc \in [Client -> {"idle", "number", "insert", "compare", "commit"}]
    BY <1>1 DEF IndInv, TypeOK, Statement
  <2>2. CASE TakeNumber(c) \/ Insert(c)
    BY <2>1, <2>2 DEF TakeNumber, Insert, Goto, StatementsLeft
  <2>3. CASE Compare(c)
    BY <2>1, <2>3 DEF Compare, Close, Goto, StatementsLeft
  <2>4. CASE Commit(c)
    BY <2>1, <2>4 DEF Commit, Close, Goto, StatementsLeft
  <2>5. CASE Abort(c)
    BY <2>1, <2>5 DEF Abort, Close, Goto, StatementsLeft
  <2>6. QED
    BY <1>1, <2>2, <2>3, <2>4, <2>5 DEF Step
<1>2. ASSUME IndInv, [Next]_vars, NEW c \in Client, pc[c] # "idle", ~(Step(c) \/ Abort(c))
      PROVE  pc'[c] = pc[c]
  <2>1. ASSUME NEW d \in Client \ {c}, NEW s, Goto(d, s)
        PROVE  pc'[c] = pc[c]
    BY <1>2, <2>1 DEF Goto, IndInv, TypeOK
  <2>2. ASSUME NEW d \in Client \ {c}, Step(d) \/ Abort(d)
        PROVE  pc'[c] = pc[c]
    BY <2>1, <2>2 DEF Step, TakeNumber, Insert, Compare, Commit, Abort, Close
  <2>3. ASSUME NEW d \in Client, NEW e \in Event, Append(d, e)
        PROVE  pc'[c] = pc[c]
    BY <1>2, <2>1, <2>3 DEF Append
  <2>4. ASSUME NEW k \in Consumer, NEW limit \in 1..MaxLimit, Poll(k, limit)
        PROVE  pc'[c] = pc[c]
    BY <2>4 DEF Poll
  <2>5. QED
    BY <1>2, <2>2, <2>3, <2>4 DEF Next, vars
<1>3. ASSUME IndInv, NEW c \in Client
      PROVE  \A o \in Blockers(c) : pc[o] = "commit"
  BY <1>3 DEF Blockers, IndInv, ControlInv
<1>4. IndInv /\ [Next]_vars
      => [\A c \in Client : pc[c] # "idle" =>
              /\ IF Step(c) \/ Abort(c) THEN StatementsLeft(c)' < StatementsLeft(c)
                                       ELSE pc'[c] = pc[c]
              /\ \A o \in Blockers(c) : pc[o] = "commit"]_vars
  BY <1>1, <1>2, <1>3
<1>5. QED
  BY <1>4, Invariance, PTL DEF Spec, AppendsAdvance

-------------------------------------------------------------------------------
(* The table implements the log of protocol v1 *)

LEMMA LogInitMaps == Init => LogContract!LogInit
  BY DEF Init, LogContract!LogInit

\* Ending a call is an answer of the contract.
LEMMA CloseAnswers ==
    ASSUME NEW c \in Client, NEW result, NEW sequence, Close(c, result, sequence),
           UNCHANGED <<cursor, delivered>>
    PROVE  LogContract!Answer(c, result, sequence)
  BY DEF Close, LogContract!Answer

LEMMA CompareMaps ==
    ASSUME IndInv, NEW c \in Client, Compare(c)
    PROVE  \/ LogContract!Refuse(c)
           \/ UNCHANGED <<rows, event, before, outcome, cursor, delivered>>
<1>1. pc[c] = "compare" /\ UNCHANGED <<rows, cursor, delivered>>
  BY DEF Compare
<1>2. CASE Goto(c, "commit") /\ UNCHANGED <<event, number, placed, before, outcome>>
  BY <1>1, <1>2
<1>3. CASE /\ \A row \in RowsOfId(event[c].event_id) : row.content # event[c].content
           /\ Close(c, "EventConflict", 0)
  <2>1. PICK row \in RowsOfId(event[c].event_id) : row.content # event[c].content
    BY <1>1, <1>3 DEF IndInv, ControlInv
  <2>2. LogContract!Answer(c, "EventConflict", 0)
    BY <1>1, <1>3, CloseAnswers
  <2>3. QED
    BY <1>1, <2>1, <2>2 DEF LogContract!Refuse, LogContract!OnRecord, RowsOfId
<1>4. QED
  BY <1>2, <1>3 DEF Compare

\* A commit takes effect: it records the event, or finds it on record.
LEMMA CommitMaps ==
    ASSUME IndInv, IndInv', NEW c \in Client, Commit(c)
    PROVE  LogContract!Record(c) \/ LogContract!Repeat(c)
<1> DEFINE mine == [sequence |-> number[c], event_id |-> event[c].event_id,
                    content |-> JsonOf[event[c].content]]
<1>1. pc[c] = "commit" /\ number[c] \in 1..MaxSequence /\ UNCHANGED <<cursor, delivered>>
  BY DEF IndInv, TypeOK, ControlInv, Commit
<1>2. rows' = IF placed[c] THEN rows \union {mine} ELSE rows
  BY DEF Commit, RowOf
<1>3. PICK row \in rows' : /\ row.event_id = event[c].event_id
                           /\ \/ Close(c, "stored", row.sequence)
                              \/ Close(c, "lost", 0)
  BY DEF Commit
<1>4. LogContract!Stored(c, row.sequence)
  BY <1>1, <1>3, CloseAnswers DEF LogContract!Stored
<1>5. CASE placed[c]
  <2>1. mine \in rows' /\ rows' = rows \union {mine}
    BY <1>2, <1>5
  <2>2. row = mine
    BY <1>3, <2>1 DEF IndInv, OneRowPerEvent
  <2>3. /\ RowsOfId(event[c].event_id) = {}
        /\ \A r \in rows : r.sequence # number[c]
        /\ \A m \in before[c] : m < number[c]
    BY <1>1, <1>5 DEF IndInv, ControlInv, OneRowPerEvent
  <2>4. LogContract!OnRecord(event[c]) = {}
    BY <2>3 DEF LogContract!OnRecord, RowsOfId
  <2>5. LogContract!Stored(c, number[c])
    BY <1>4, <2>2
  <2>6. LogContract!Record(c)
    BY <1>1, <2>1, <2>3, <2>4, <2>5 DEF LogContract!Record
  <2>7. QED
    BY <2>6
<1>6. CASE ~placed[c]
  <2>1. PICK r \in RowsOfId(event[c].event_id) : r.content = event[c].content
    BY <1>1, <1>6 DEF IndInv, ControlInv
  <2>2. rows' = rows /\ row = r
    BY <1>2, <1>3, <1>6, <2>1 DEF IndInv, OneRowPerEvent, RowsOfId
  <2>3. row \in LogContract!OnRecord(event[c]) /\ row.content = event[c].content
    BY <2>1, <2>2 DEF LogContract!OnRecord, RowsOfId
  <2>4. QED
    BY <1>4, <2>2, <2>3 DEF LogContract!Repeat
<1>7. QED
  BY <1>5, <1>6

\* A page is everything ahead of the cursor up to its last row.
LEMMA PollMaps ==
    ASSUME IndInv, NEW k \in Consumer, NEW limit \in 1..MaxLimit, Poll(k, limit)
    PROVE  LogContract!Consume(k)
<1>1. PICK last \in Page(k, limit) :
          /\ \A o \in Page(k, limit) : o.sequence <= last.sequence
          /\ cursor' = [cursor EXCEPT ![k] = last.sequence]
  BY DEF Poll
<1> DEFINE page == {row \in rows : cursor[k] < row.sequence /\ row.sequence <= last.sequence}
           below == {o \in Ahead(k) : o.sequence < last.sequence}
<1>2. last \in Ahead(k) /\ Cardinality(below) < limit /\ Ahead(k) \subseteq rows
  BY DEF Page, Ahead
<1>3. cursor[k] \in Int /\ \A row \in rows : row.sequence \in Int
  BY DEF IndInv, TypeOK, Row
<1>4. page = Page(k, limit)
  <2>1. ASSUME NEW row \in page
        PROVE  row \in Page(k, limit)
    <3>1. row \in Ahead(k) /\ row.sequence <= last.sequence
      BY DEF Ahead
    <3>2. QED
      BY <1>1, <3>1, PageIsPrefix
  <2>2. Page(k, limit) \subseteq page
    BY <1>1 DEF Page, Ahead
  <2>3. QED
    BY <2>1, <2>2
<1>5. page = below \union {last}
  <2>1. \A row \in rows : row.sequence = last.sequence => row = last
    BY <1>2 DEF IndInv, OneRowPerEvent
  <2>2. QED
    BY <1>2, <1>3, <2>1 DEF Ahead
<1>6. Cardinality(page) <= MaxLimit
  <2>1. IsFiniteSet(below)
    BY FS_Subset DEF IndInv, ControlInv, Ahead
  <2>2. Cardinality(below) \in Nat
    BY <2>1, FS_CardinalityType
  <2>3. last \notin below
    BY <1>2, <1>3
  <2>4. Cardinality(below \union {last}) = Cardinality(below) + 1
    <3> HIDE DEF below
    <3>1. QED
      BY <2>1, <2>3, FS_AddElement
  <2>5. Cardinality(page) = Cardinality(below) + 1
    <3> HIDE DEF page, below
    <3>1. QED
      BY <1>5, <2>4
  <2>6. Cardinality(below) < limit
    BY <1>2
  <2>7. QED
    <3> HIDE DEF page, below
    <3>1. QED
      BY <2>2, <2>5, <2>6
<1>7. delivered' = [delivered EXCEPT ![k] = @ \union page]
  BY <1>4 DEF Poll
<1>8. UNCHANGED <<rows, event, before, outcome>>
  BY DEF Poll
<1>9. last \in rows /\ last \in page
  BY <1>1, <1>2, <1>4
<1>10. LogContract!Upto(k, last) = page
  BY DEF LogContract!Upto
<1>11. /\ last \in LogContract!Upto(k, last)
       /\ Cardinality(LogContract!Upto(k, last)) <= MaxLimit
       /\ cursor' = [cursor EXCEPT ![k] = last.sequence]
       /\ delivered' = [delivered EXCEPT ![k] = @ \union LogContract!Upto(k, last)]
  <2> HIDE DEF page
  <2>1. QED
    BY <1>1, <1>6, <1>7, <1>9, <1>10
<1>12. LogContract!Cardinality(LogContract!Upto(k, last)) <= MaxLimit
  BY <1>11 DEF Cardinality, LogContract!Cardinality
<1>13. QED
  BY <1>8, <1>9, <1>11, <1>12, Zenon DEF LogContract!Consume

LEMMA LogStepMaps == IndInv /\ IndInv' /\ [Next]_vars => [LogContract!LogNext]_LogContract!logVars
<1> SUFFICES ASSUME IndInv, IndInv', [Next]_vars
             PROVE  [LogContract!LogNext]_LogContract!logVars
  OBVIOUS
<1> USE DEF LogContract!logVars
<1>1. ASSUME NEW c \in Client, pc[c] # "idle"
      PROVE  event[c] # None
  BY <1>1 DEF IndInv, TypeOK
<1>2. ASSUME NEW c \in Client, NEW e \in Event, Append(c, e)
      PROVE  LogContract!LogNext
  <2>1. event[c] = None
    BY <1>2 DEF Append, IndInv, ControlInv
  <2>2. LogContract!Invoke(c, e)
    BY <1>2, <2>1 DEF Append, LogContract!Invoke
  <2>3. QED
    BY <2>2 DEF LogContract!LogNext
<1>3. ASSUME NEW c \in Client, TakeNumber(c) \/ Insert(c)
      PROVE  UNCHANGED LogContract!logVars
  BY <1>3 DEF TakeNumber, Insert
<1>4. ASSUME NEW c \in Client, Compare(c)
      PROVE  LogContract!LogNext \/ UNCHANGED LogContract!logVars
  <2>1. event[c] # None
    BY <1>1, <1>4 DEF Compare
  <2>2. QED
    BY <1>4, <2>1, CompareMaps DEF LogContract!LogNext
<1>5. ASSUME NEW c \in Client, Commit(c)
      PROVE  LogContract!LogNext
  <2>1. event[c] # None
    BY <1>1, <1>5 DEF Commit
  <2>2. QED
    BY <1>5, <2>1, CommitMaps DEF LogContract!LogNext
<1>6. ASSUME NEW c \in Client, Abort(c)
      PROVE  LogContract!LogNext
  <2>1. event[c] # None /\ LogContract!Answer(c, "error", 0) /\ UNCHANGED rows
    BY <1>1, <1>6, CloseAnswers DEF Abort
  <2>2. LogContract!Refuse(c)
    BY <2>1 DEF LogContract!Refuse
  <2>3. QED
    BY <2>1, <2>2 DEF LogContract!LogNext
<1>7. ASSUME NEW k \in Consumer, NEW limit \in 1..MaxLimit, Poll(k, limit)
      PROVE  LogContract!LogNext
  BY <1>7, PollMaps DEF LogContract!LogNext
<1>8. CASE UNCHANGED vars
  BY <1>8 DEF vars
<1>9. QED
  BY <1>2, <1>3, <1>4, <1>5, <1>6, <1>7, <1>8 DEF Next, Step

\* The table is the atomic log of protocol v1: every append takes effect in one
\* step, in an order that respects real time, and pages pass over nothing
\* (storage/postgres.py:218-278 against storage/base.py:31-33).
THEOREM ImplementsLog == Spec => AppendContract
  BY LogInitMaps, Invariance, LogStepMaps, PTL DEF Spec, AppendContract, LogContract!LogSpec

-------------------------------------------------------------------------------
(* Witnesses *)

USE PayloadAssumption, WitnessAssumption

LEMMA WitnessInvInit == WitnessInit => WitnessInv
<1> SUFFICES ASSUME WitnessInit PROVE WitnessInv
  OBVIOUS
<1>1. WitnessTypeOK
  BY DEF WitnessInit, WitnessTypeOK
<1>2. StoreInv
  BY DEF WitnessInit, StoreInv
<1>3. PutIsReadable /\ RefusedForCause
  BY DEF WitnessInit, PutIsReadable, RefusedForCause
<1>4. QED
  BY <1>1, <1>2, <1>3 DEF WitnessInv

\* A put that ends without writing a row keeps the invariant, if it is refused
\* for cause.
LEMMA EndPutKeeps ==
    ASSUME WitnessInv, NEW c \in Writer, put[c] # "idle",
           NEW result \in {"stored", "lost", "error", "WitnessConflict"}, EndPut(c, result),
           witnesses' = witnesses, recorded' \in {recorded, recorded \union {witness[c]}},
           recorded' # recorded => InPlace(witness[c]),
           result = "WitnessConflict" => HasCause(witness[c])
    PROVE  WitnessInv'
<1>1. witness[c] \in Witness
  BY DEF WitnessInv, WitnessTypeOK
<1>2. /\ put'[c] = "idle" /\ ~inserted'[c] /\ answer'[c] = result
      /\ \A d \in Writer \ {c} : put'[d] = put[d] /\ inserted'[d] = inserted[d] /\ answer'[d] = answer[d]
      /\ UNCHANGED <<witnesses, witness, asked, known, reply, got>>
  BY DEF EndPut, WitnessInv, WitnessTypeOK
<1>3. WitnessTypeOK'
  BY <1>1 DEF EndPut, WitnessInv, WitnessTypeOK
<1>4. \A d \in Writer : InTheWay(d)' \subseteq InTheWay(d)
  BY <1>2 DEF InTheWay, DigestPut
<1>5. \A d \in Writer \ {c} : SeenBy(d)' = SeenBy(d)
  BY <1>2 DEF SeenBy, AddressedBy, DigestPut
<1>6. StoreInv'
  <2>1. \A w \in recorded' : InPlace(w)'
    BY <1>2 DEF WitnessInv, StoreInv, InPlace, AddressedBy
  <2>2. \A d \in Writer : /\ put'[d] \in {"idle", "insert"} => ~inserted'[d]
                          /\ inserted'[d] => AddressedBy(DigestPut(d))' = {} /\ InTheWay(d)' = {}
    BY <1>2, <1>4 DEF WitnessInv, StoreInv, InPlace, AddressedBy, DigestPut
  <2>3. \A d \in Writer : /\ put'[d] \in {"confirm", "commit"} => SeenBy(d)' # {}
                          /\ put'[d] = "commit" => \E row \in SeenBy(d)' : Confirms(row, witness'[d])
    BY <1>2, <1>5 DEF WitnessInv, StoreInv
  <2>4. recorded \subseteq recorded' /\ known' = known
    BY <1>2
  <2>5. QED
    BY <1>2, <2>1, <2>2, <2>3, <2>4 DEF WitnessInv, StoreInv
<1>7. PutIsReadable'
  BY <1>2 DEF WitnessInv, PutIsReadable
<1>8. RefusedForCause'
  BY <1>2 DEF WitnessInv, RefusedForCause, HasCause, AddressedBy
<1>9. QED
  BY <1>3, <1>6, <1>7, <1>8 DEF WitnessInv

LEMMA PutWitnessKeeps ==
    ASSUME WitnessInv, NEW c \in Writer, NEW w \in Witness, PutWitness(c, w)
    PROVE  WitnessInv'
<1>1. /\ put'[c] = "insert" /\ ~inserted[c] /\ answer'[c] = "pending"
      /\ \A d \in Writer \ {c} : put'[d] = put[d] /\ witness'[d] = witness[d] /\ answer'[d] = answer[d]
      /\ UNCHANGED <<witnesses, inserted, recorded, asked, known, reply, got>>
  BY DEF PutWitness, WitnessInv, WitnessTypeOK, StoreInv
<1>2. WitnessTypeOK'
  BY DEF PutWitness, WitnessInv, WitnessTypeOK
<1>3. StoreInv'
  BY <1>1 DEF WitnessInv, StoreInv, InPlace, AddressedBy, DigestPut, InTheWay, SeenBy
<1>4. PutIsReadable' /\ RefusedForCause'
  BY <1>1 DEF WitnessInv, PutIsReadable, RefusedForCause, HasCause, AddressedBy
<1>5. QED
  BY <1>2, <1>3, <1>4 DEF WitnessInv

LEMMA InsertWitnessKeeps ==
    ASSUME WitnessInv, NEW c \in Writer, InsertWitness(c)
    PROVE  WitnessInv'
<1> DEFINE fresh == AddressedBy(DigestPut(c)) = {}
<1>1. /\ put[c] = "insert" /\ put'[c] = "confirm" /\ InTheWay(c) = {} /\ inserted'[c] = fresh
      /\ \A d \in Writer \ {c} : put'[d] = put[d] /\ inserted'[d] = inserted[d]
      /\ UNCHANGED <<witnesses, witness, answer, recorded, asked, known, reply, got>>
  BY DEF InsertWitness, WitnessInv, WitnessTypeOK
<1>2. WitnessTypeOK'
  <2>1. put' \in [Writer -> {"idle", "insert", "confirm", "commit"}]
    BY DEF InsertWitness, WitnessInv, WitnessTypeOK
  <2>2. inserted' \in [Writer -> BOOLEAN]
    BY DEF InsertWitness, WitnessInv, WitnessTypeOK
  <2>3. \A d \in Writer : put'[d] = "idle" <=> answer'[d] # "pending"
    BY <1>1 DEF WitnessInv, WitnessTypeOK
  <2>4. QED
    BY <1>1, <2>1, <2>2, <2>3 DEF WitnessInv, WitnessTypeOK
<1>3. StoreInv'
  <2>1. ASSUME NEW d \in Writer, inserted'[d]
        PROVE  AddressedBy(DigestPut(d))' = {} /\ InTheWay(d)' = {}
    <3>1. AddressedBy(DigestPut(d)) = {}
      BY <1>1, <2>1 DEF WitnessInv, StoreInv
    <3>2. \A o \in Writer \ {d} : inserted'[o] => DigestPut(o) # DigestPut(d)
      BY <1>1, <2>1 DEF WitnessInv, StoreInv, InTheWay
    <3>3. QED
      BY <1>1, <3>1, <3>2 DEF AddressedBy, DigestPut, InTheWay
  <2>2. SeenBy(c)' # {}
    BY <1>1 DEF SeenBy, AddressedBy, DigestPut
  <2>3. \A d \in Writer \ {c} : SeenBy(d)' = SeenBy(d)
    BY <1>1 DEF SeenBy, AddressedBy, DigestPut
  <2>4. QED
    BY <1>1, <2>1, <2>2, <2>3 DEF WitnessInv, StoreInv, InPlace, AddressedBy
<1>4. PutIsReadable' /\ RefusedForCause'
  BY <1>1 DEF WitnessInv, PutIsReadable, RefusedForCause, HasCause, AddressedBy
<1>5. QED
  BY <1>2, <1>3, <1>4 DEF WitnessInv

LEMMA ConfirmWitnessKeeps ==
    ASSUME WitnessInv, NEW c \in Writer, ConfirmWitness(c)
    PROVE  WitnessInv'
<1>1. put[c] = "confirm" /\ UNCHANGED <<witnesses, recorded>> /\ witness[c] \in Witness
  BY DEF ConfirmWitness, WitnessInv, WitnessTypeOK
<1>2. CASE /\ \E row \in SeenBy(c) : Confirms(row, witness[c])
           /\ put' = [put EXCEPT ![c] = "commit"]
           /\ UNCHANGED <<witness, inserted, answer, asked, known, reply, got>>
  <2>1. put'[c] = "commit" /\ \A d \in Writer \ {c} : put'[d] = put[d]
    BY <1>2 DEF WitnessInv, WitnessTypeOK
  <2>2. WitnessTypeOK'
    BY <1>1, <1>2 DEF WitnessInv, WitnessTypeOK
  <2>3. StoreInv'
    BY <1>1, <1>2, <2>1 DEF WitnessInv, StoreInv, InPlace, AddressedBy, DigestPut, InTheWay, SeenBy
  <2>4. PutIsReadable' /\ RefusedForCause'
    BY <1>1, <1>2 DEF WitnessInv, PutIsReadable, RefusedForCause, HasCause, AddressedBy
  <2>5. QED
    BY <2>2, <2>3, <2>4 DEF WitnessInv
<1>3. CASE /\ \A row \in SeenBy(c) : ~Confirms(row, witness[c])
           /\ EndPut(c, "WitnessConflict")
  \* Every row seen has the payload that JSON makes of the record's, so what
  \* differs is the kind, and then the row is another record's.
  <2>1. PICK row \in SeenBy(c) : TRUE
    BY <1>1 DEF WitnessInv, StoreInv
  <2>2. CASE row \in AddressedBy(DigestPut(c))
    <3>1. PICK w \in Witness : row = WitnessRow(w)
      BY <2>2 DEF WitnessInv, WitnessTypeOK, WitnessRows, AddressedBy
    <3>2. DigestOf[w.payload] = DigestOf[witness[c].payload]
      BY <2>2, <3>1 DEF AddressedBy, WitnessRow, DigestPut
    <3>3. row.payload = ReadBack[witness[c].payload]
      BY <1>1, <3>1, <3>2 DEF WitnessRow
    <3>4. \/ ValueOf[ReadBack[witness[c].payload]] # ValueOf[witness[c].payload]
          \/ row.witness_kind # witness[c].witness_kind
      BY <1>3, <3>3 DEF Confirms
    <3>5. HasCause(witness[c])
      BY <2>2, <3>4 DEF HasCause, DigestPut
    <3>6. put[c] # "idle" /\ EndPut(c, "WitnessConflict") /\ recorded' = recorded
      BY <1>1, <1>3
    <3>7. QED
      BY <1>1, <3>5, <3>6, EndPutKeeps
  <2>3. CASE row = WitnessRow(witness[c])
    <3>1. HasCause(witness[c])
      BY <1>3, <2>1, <2>3 DEF Confirms, WitnessRow, HasCause
    <3>2. put[c] # "idle" /\ EndPut(c, "WitnessConflict") /\ recorded' = recorded
      BY <1>1, <1>3
    <3>3. QED
      BY <1>1, <3>1, <3>2, EndPutKeeps
  <2>4. QED
    BY <2>1, <2>2, <2>3 DEF SeenBy
<1>4. QED
  BY <1>2, <1>3 DEF ConfirmWitness

\* A commit adds the row of a digest that had none.
LEMMA CommitWitnessKeeps ==
    ASSUME WitnessInv, NEW c \in Writer, CommitWitness(c)
    PROVE  WitnessInv'
<1>1. /\ put[c] = "commit" /\ witness[c] \in Witness
      /\ \E row \in SeenBy(c) : Confirms(row, witness[c])
  BY DEF CommitWitness, WitnessInv, WitnessTypeOK, StoreInv
<1>2. PICK result \in {"stored", "lost"} :
          /\ EndPut(c, result)
          /\ recorded' = recorded \/ recorded' = recorded \union {witness[c]}
  BY DEF CommitWitness
<1>3. CASE ~inserted[c]
  <2>1. UNCHANGED witnesses /\ SeenBy(c) = AddressedBy(DigestPut(c))
    BY <1>3 DEF CommitWitness, SeenBy
  <2>2. InPlace(witness[c])
    BY <1>1, <2>1 DEF InPlace, DigestPut
  <2>3. QED
    BY <1>1, <1>2, <2>1, <2>2, EndPutKeeps
<1>4. CASE inserted[c]
  <2> DEFINE row == WitnessRow(witness[c])
  <2>1. /\ witnesses' = witnesses \union {row}
        /\ AddressedBy(DigestPut(c)) = {} /\ InTheWay(c) = {}
        /\ row \in WitnessRows /\ row.witness_digest = DigestPut(c)
    BY <1>1, <1>4 DEF CommitWitness, WitnessInv, StoreInv, WitnessRows, WitnessRow, DigestPut
  <2>2. Confirms(row, witness[c])
    BY <1>1, <1>4, <2>1 DEF SeenBy
  <2>3. /\ put'[c] = "idle" /\ ~inserted'[c] /\ answer'[c] = result
        /\ \A d \in Writer \ {c} : put'[d] = put[d] /\ inserted'[d] = inserted[d] /\ answer'[d] = answer[d]
        /\ UNCHANGED <<witness, asked, known, reply, got>>
    BY <1>2 DEF EndPut, WitnessInv, WitnessTypeOK
  <2>4. WitnessTypeOK'
    BY <1>1, <1>2, <2>1 DEF EndPut, WitnessInv, WitnessTypeOK
  <2>5. \A digest : AddressedBy(digest) \subseteq AddressedBy(digest)'
    BY <2>1 DEF AddressedBy
  <2>6. StoreInv'
    <3>1. \A a, b \in witnesses' : a.witness_digest = b.witness_digest => a = b
      BY <2>1 DEF WitnessInv, StoreInv, InPlace, AddressedBy
    <3>2. \A w \in recorded' : InPlace(w)'
      <4>1. row \in {r \in witnesses' : r.witness_digest = DigestOf[witness[c].payload]}
        BY <2>1 DEF DigestPut
      <4>2. InPlace(witness[c])'
        BY <2>2, <2>3, <4>1 DEF InPlace, AddressedBy
      <4>3. ASSUME NEW w \in recorded
            PROVE  InPlace(w)'
        BY <2>1 DEF WitnessInv, StoreInv, InPlace, AddressedBy
      <4>4. QED
        BY <1>2, <2>3, <4>2, <4>3
    <3>3. \A r \in Reader : known'[r] \subseteq recorded'
      BY <1>2, <2>3 DEF WitnessInv, StoreInv
    <3>4. ASSUME NEW d \in Writer \ {c}, inserted'[d]
          PROVE  AddressedBy(DigestPut(d))' = {} /\ InTheWay(d)' = {}
      <4>1. AddressedBy(DigestPut(d)) = {} /\ InTheWay(d) = {}
        BY <2>3, <3>4 DEF WitnessInv, StoreInv
      <4>2. row.witness_digest # DigestPut(d)
        BY <1>4, <2>1, <4>1 DEF InTheWay
      <4>3. QED
        BY <2>1, <2>3, <4>1, <4>2 DEF AddressedBy, InTheWay, DigestPut
    <3>5. ASSUME NEW d \in Writer \ {c}
          PROVE  SeenBy(d) \subseteq SeenBy(d)'
      BY <2>1, <2>3 DEF SeenBy, AddressedBy, DigestPut
    <3>6. \A d \in Writer : /\ put'[d] \in {"idle", "insert"} => ~inserted'[d]
                            /\ put'[d] \in {"confirm", "commit"} => SeenBy(d)' # {}
                            /\ put'[d] = "commit" =>
                                   \E r \in SeenBy(d)' : Confirms(r, witness'[d])
      BY <2>3, <3>5 DEF WitnessInv, StoreInv
    <3>7. \A d \in Writer : inserted'[d] => AddressedBy(DigestPut(d))' = {} /\ InTheWay(d)' = {}
      BY <2>3, <3>4
    <3>8. QED
      BY <3>1, <3>2, <3>3, <3>6, <3>7 DEF StoreInv
  <2>7. PutIsReadable'
    BY <2>3 DEF WitnessInv, PutIsReadable
  <2>8. RefusedForCause'
    BY <2>3, <2>5 DEF WitnessInv, RefusedForCause, HasCause
  <2>9. QED
    BY <2>4, <2>6, <2>7, <2>8 DEF WitnessInv
<1>5. QED
  BY <1>3, <1>4 DEF WitnessInv, WitnessTypeOK

LEMMA GetWitnessKeeps ==
    ASSUME WitnessInv, NEW r \in Reader, NEW digest \in Digest, GetWitness(r, digest)
    PROVE  WitnessInv'
<1>1. WitnessTypeOK'
  BY DEF GetWitness, WitnessInv, WitnessTypeOK
<1>2. StoreInv'
  <2>1. \A q \in Reader : known'[q] \subseteq recorded
    BY DEF GetWitness, WitnessInv, WitnessTypeOK, StoreInv
  <2>2. QED
    BY <2>1 DEF GetWitness, WitnessInv, StoreInv, InPlace, AddressedBy, DigestPut, InTheWay, SeenBy
<1>3. PutIsReadable'
  <2>1. reply'[r] = "pending"
    BY DEF GetWitness, WitnessInv, WitnessTypeOK
  <2>2. \A q \in Reader \ {r} : reply'[q] = reply[q] /\ known'[q] = known[q]
                                /\ asked'[q] = asked[q] /\ got'[q] = got[q]
    BY DEF GetWitness, WitnessInv, WitnessTypeOK
  <2>3. QED
    BY <2>1, <2>2 DEF WitnessInv, PutIsReadable
<1>4. RefusedForCause'
  BY DEF GetWitness, WitnessInv, RefusedForCause, HasCause, AddressedBy
<1>5. QED
  BY <1>1, <1>2, <1>3, <1>4 DEF WitnessInv

LEMMA SelectWitnessKeeps ==
    ASSUME WitnessInv, NEW r \in Reader, SelectWitness(r)
    PROVE  WitnessInv'
<1>1. UNCHANGED <<witnesses, put, witness, inserted, answer, recorded, asked, known>>
  BY DEF SelectWitness
<1>2. WitnessTypeOK'
  <2>1. AddressedBy(asked[r]) \subseteq WitnessRows
    BY DEF AddressedBy, WitnessInv, WitnessTypeOK
  <2>2. /\ reply' \in [Reader -> {"none", "pending", "found", "absent", "error", "ValueError"}]
        /\ got' \in [Reader -> WitnessRows \union {NoWitness}]
    BY <2>1 DEF SelectWitness, WitnessInv, WitnessTypeOK
  <2>3. QED
    BY <1>1, <2>2 DEF WitnessInv, WitnessTypeOK
<1>3. StoreInv'
  BY <1>1 DEF WitnessInv, StoreInv, InPlace, AddressedBy, DigestPut, InTheWay, SeenBy
<1>4. PutIsReadable'
  <2>1. \A q \in Reader \ {r} : reply'[q] = reply[q] /\ got'[q] = got[q]
    BY DEF SelectWitness, WitnessInv, WitnessTypeOK
  <2>2. ASSUME NEW w \in known[r], DigestOf[w.payload] = asked[r]
        PROVE  /\ reply'[r] # "absent"
               /\ reply'[r] = "found" => Confirms(got'[r], w)
               /\ reply'[r] = "ValueError" => DigestOf[ReadBack[w.payload]] # asked[r]
    <3>1. w \in recorded /\ w \in Witness
      BY DEF WitnessInv, WitnessTypeOK, StoreInv
    <3>2. PICK mine \in AddressedBy(asked[r]) : Confirms(mine, w)
      BY <2>2, <3>1 DEF WitnessInv, StoreInv, InPlace
    <3>3. PICK row \in AddressedBy(asked[r]) :
              /\ reply' = [reply EXCEPT ![r] = IF DigestOf[row.payload] = asked[r]
                                               THEN "found" ELSE "ValueError"]
              /\ got' = [got EXCEPT ![r] = row]
      BY <3>2 DEF SelectWitness
    <3>4. row = mine
      BY DEF WitnessInv, StoreInv, InPlace, AddressedBy
    <3>5. PICK v \in Witness : row = WitnessRow(v)
      BY DEF AddressedBy, WitnessInv, WitnessTypeOK, WitnessRows
    <3>6. row.payload = ReadBack[w.payload]
      BY <2>2, <3>1, <3>5 DEF AddressedBy, WitnessRow
    <3>7. /\ reply'[r] = IF DigestOf[row.payload] = asked[r] THEN "found" ELSE "ValueError"
          /\ got'[r] = row
      BY <3>3 DEF WitnessInv, WitnessTypeOK
    <3>8. QED
      BY <3>2, <3>4, <3>6, <3>7
  <2>3. QED
    BY <1>1, <2>1, <2>2 DEF WitnessInv, PutIsReadable
<1>5. RefusedForCause'
  BY <1>1 DEF WitnessInv, RefusedForCause, HasCause, AddressedBy
<1>6. QED
  BY <1>2, <1>3, <1>4, <1>5 DEF WitnessInv

LEMMA AbortGetKeeps ==
    ASSUME WitnessInv, NEW r \in Reader, AbortGet(r)
    PROVE  WitnessInv'
<1>1. WitnessTypeOK'
  BY DEF AbortGet, WitnessInv, WitnessTypeOK
<1>2. StoreInv' /\ RefusedForCause'
  BY DEF AbortGet, WitnessInv, StoreInv, InPlace, RefusedForCause, HasCause, AddressedBy, DigestPut, InTheWay, SeenBy
<1>3. reply'[r] = "error" /\ \A q \in Reader \ {r} : reply'[q] = reply[q]
  BY DEF AbortGet, WitnessInv, WitnessTypeOK
<1>4. PutIsReadable'
  BY <1>3 DEF AbortGet, WitnessInv, PutIsReadable
<1>5. QED
  BY <1>1, <1>2, <1>4 DEF WitnessInv

LEMMA WitnessInvStep == WitnessInv /\ [WitnessNext]_witnessVars => WitnessInv'
<1> SUFFICES ASSUME WitnessInv, [WitnessNext]_witnessVars PROVE WitnessInv'
  OBVIOUS
<1>1. ASSUME NEW c \in Writer, AbortPut(c)
      PROVE  WitnessInv'
  <2>1. /\ put[c] # "idle" /\ EndPut(c, "error")
        /\ UNCHANGED witnesses /\ recorded' = recorded
    BY <1>1 DEF AbortPut
  <2>2. QED
    BY <2>1, EndPutKeeps
<1>2. CASE UNCHANGED witnessVars
  BY <1>2 DEF witnessVars, WitnessInv, WitnessTypeOK, StoreInv, InPlace, PutIsReadable, RefusedForCause,
              HasCause, InPlace, AddressedBy, DigestPut, InTheWay, SeenBy
<1>3. QED
  BY <1>1, <1>2, PutWitnessKeeps, InsertWitnessKeeps, ConfirmWitnessKeeps, CommitWitnessKeeps,
     GetWitnessKeeps, SelectWitnessKeeps, AbortGetKeeps DEF WitnessNext

THEOREM WitnessInvariance == WitnessSpec => []WitnessInv
  BY WitnessInvInit, WitnessInvStep, PTL DEF WitnessSpec

\* Every value the witness store keeps has its type (storage/postgres.py:173-216).
THEOREM WitnessTypes == WitnessSpec => []WitnessTypeOK
  BY WitnessInvariance, PTL DEF WitnessInv

\* A get after a successful put finds the record, unless jsonb gave its payload
\* another text (storage/postgres.py:201-216, protocol.py:33-35).
THEOREM PutsAreReadable == WitnessSpec => []PutIsReadable
  BY WitnessInvariance, PTL DEF WitnessInv

\* No race and no retry has a put refused (storage/postgres.py:176-199).
THEOREM PutsRefusedForCause == WitnessSpec => []RefusedForCause
  BY WitnessInvariance, PTL DEF WitnessInv

-------------------------------------------------------------------------------
(* The table implements the witness store of protocol v1 *)

LEMMA StoreInitMaps == WitnessInit => Contract!StoreInit
  BY DEF WitnessInit, Contract!StoreInit

\* Ending a put is an answer of the contract.
LEMMA EndPutAnswers ==
    ASSUME NEW c \in Writer, NEW result, EndPut(c, result)
    PROVE  Contract!AnswerPut(c, result)
  BY DEF EndPut, Contract!AnswerPut, Contract!getVars

\* A conflict has its cause in the committed rows, whatever was uncommitted when
\* the put was compared.
LEMMA ConfirmMaps ==
    ASSUME WitnessInv, WitnessInv', NEW c \in Writer, ConfirmWitness(c)
    PROVE  Contract!Refuse(c) \/ UNCHANGED Contract!storeVars
<1>1. put[c] = "confirm" /\ UNCHANGED witnesses
  BY DEF ConfirmWitness
<1>2. CASE UNCHANGED <<witness, inserted, answer, asked, known, reply, got>>
  BY <1>1, <1>2 DEF Contract!storeVars, Contract!putVars, Contract!getVars
<1>3. CASE EndPut(c, "WitnessConflict")
  <2>1. answer'[c] = "WitnessConflict" /\ witness' = witness
    BY <1>3 DEF EndPut, WitnessInv, WitnessTypeOK
  <2>2. HasCause(witness[c])
    BY <1>1, <2>1 DEF WitnessInv, RefusedForCause, HasCause, AddressedBy
  <2>3. \/ ~Contract!Kept(witness[c])
        \/ \E row \in Contract!OnRecord(Contract!DigestPut(c)) :
               row.witness_kind # witness[c].witness_kind
    BY <2>2 DEF HasCause, AddressedBy, Contract!Kept, Contract!OnRecord, Contract!DigestPut
  <2>4. QED
    BY <1>1, <1>3, <2>3, EndPutAnswers DEF Contract!Refuse
<1>4. QED
  BY <1>2, <1>3 DEF ConfirmWitness

\* A commit takes effect: it records the witness, or finds it on record.
LEMMA CommitWitnessMaps ==
    ASSUME WitnessInv, NEW c \in Writer, CommitWitness(c)
    PROVE  Contract!Record(c) \/ Contract!Repeat(c)
<1>1. PICK row \in SeenBy(c) : Confirms(row, witness[c])
  BY DEF CommitWitness, WitnessInv, StoreInv
<1>2. Contract!Success(c)
  BY EndPutAnswers DEF CommitWitness, Contract!Success
<1>3. Contract!OnRecord(Contract!DigestPut(c)) = AddressedBy(DigestPut(c))
  BY DEF Contract!OnRecord, Contract!DigestPut, AddressedBy, DigestPut
<1>4. CASE inserted[c]
  <2>1. AddressedBy(DigestPut(c)) = {} /\ row = WitnessRow(witness[c])
    BY <1>1, <1>4 DEF WitnessInv, StoreInv, SeenBy
  <2>2. Contract!Kept(witness[c])
    BY <1>1, <2>1 DEF Confirms, WitnessRow, Contract!Kept
  <2>3. witnesses' = witnesses \union
            {[witness_digest |-> Contract!DigestPut(c), witness_kind |-> witness[c].witness_kind,
              payload |-> ReadBack[witness[c].payload]]}
    BY <1>4 DEF CommitWitness, WitnessRow, Contract!DigestPut
  <2>4. QED
    BY <1>2, <1>3, <2>1, <2>2, <2>3 DEF Contract!Record
<1>5. CASE ~inserted[c]
  <2>1. row \in AddressedBy(DigestPut(c)) /\ UNCHANGED witnesses
    BY <1>5 DEF CommitWitness, SeenBy
  <2>2. Contract!Same(row, witness[c])
    BY <1>1 DEF Confirms, Contract!Same
  <2>3. QED
    BY <1>2, <1>3, <2>1, <2>2 DEF Contract!Repeat
<1>6. QED
  BY <1>4, <1>5

LEMMA StoreStepMaps ==
    WitnessInv /\ WitnessInv' /\ [WitnessNext]_witnessVars
    => [Contract!StoreNext]_Contract!storeVars
<1> SUFFICES ASSUME WitnessInv, WitnessInv', [WitnessNext]_witnessVars
             PROVE  Contract!StoreNext \/ UNCHANGED Contract!storeVars
  OBVIOUS
<1> USE DEF Contract!storeVars, Contract!putVars, Contract!getVars
<1>1. ASSUME NEW c \in Writer
      PROVE  put[c] = "idle" <=> answer[c] # "pending"
  BY DEF WitnessInv, WitnessTypeOK
<1>2. ASSUME NEW c \in Writer, NEW w \in Witness, PutWitness(c, w)
      PROVE  Contract!StoreNext
  <2>1. Contract!InvokePut(c, w)
    BY <1>1, <1>2 DEF PutWitness, Contract!InvokePut
  <2>2. QED
    BY <2>1 DEF Contract!StoreNext
<1>3. ASSUME NEW c \in Writer, InsertWitness(c)
      PROVE  UNCHANGED Contract!storeVars
  BY <1>3 DEF InsertWitness
<1>4. ASSUME NEW c \in Writer, ConfirmWitness(c)
      PROVE  Contract!StoreNext \/ UNCHANGED Contract!storeVars
  <2>1. answer[c] = "pending"
    BY <1>1, <1>4 DEF ConfirmWitness
  <2>2. QED
    BY <1>4, <2>1, ConfirmMaps DEF Contract!StoreNext
<1>5. ASSUME NEW c \in Writer, CommitWitness(c)
      PROVE  Contract!StoreNext
  <2>1. answer[c] = "pending"
    BY <1>1, <1>5 DEF CommitWitness
  <2>2. QED
    BY <1>5, <2>1, CommitWitnessMaps DEF Contract!StoreNext
<1>6. ASSUME NEW c \in Writer, AbortPut(c)
      PROVE  Contract!StoreNext
  <2>1. answer[c] = "pending" /\ UNCHANGED witnesses /\ Contract!AnswerPut(c, "error")
    BY <1>1, <1>6, EndPutAnswers DEF AbortPut
  <2>2. QED
    BY <2>1 DEF Contract!Refuse, Contract!StoreNext
<1>7. ASSUME NEW r \in Reader, NEW digest \in Digest, GetWitness(r, digest)
      PROVE  Contract!StoreNext
  <2>1. Contract!InvokeGet(r, digest)
    BY <1>7 DEF GetWitness, Contract!InvokeGet
  <2>2. QED
    BY <2>1 DEF Contract!StoreNext
<1>8. ASSUME NEW r \in Reader, SelectWitness(r) \/ AbortGet(r)
      PROVE  Contract!StoreNext
  <2>1. AddressedBy(asked[r]) = Contract!OnRecord(asked[r])
    BY DEF AddressedBy, Contract!OnRecord
  <2>2. Contract!AnswerGet(r)
    BY <1>8, <2>1 DEF SelectWitness, AbortGet, Contract!AnswerGet
  <2>3. QED
    BY <2>2 DEF Contract!StoreNext
<1>9. CASE UNCHANGED witnessVars
  BY <1>9 DEF witnessVars
<1>10. QED
  BY <1>2, <1>3, <1>4, <1>5, <1>6, <1>7, <1>8, <1>9 DEF WitnessNext

\* The table is the atomic witness store of protocol v1: every put and every get
\* takes effect in the step that answers it (storage/postgres.py:173-216 against
\* storage/base.py:27-29).
THEOREM ImplementsWitnesses == WitnessSpec => WitnessContract
  BY StoreInitMaps, WitnessInvariance, StoreStepMaps, PTL
     DEF WitnessSpec, WitnessContract, Contract!StoreSpec
===============================================================================
