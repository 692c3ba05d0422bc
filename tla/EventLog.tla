------------------------------- MODULE EventLog -------------------------------
(***************************************************************************)
(* The append-only event log of the PostgreSQL adapter,                    *)
(* src/src/howedo/storage/postgres.py append_event and events_after, over  *)
(* the table howedo_events.  One action is one SQL statement of one        *)
(* READ COMMITTED transaction, as in PostgresStorage; the schema check     *)
(* that opens each transaction is modelled there, and its failure is one   *)
(* of the errors of Abort here.                                            *)
(*                                                                         *)
(* Modelled from how the adapter relies on PostgreSQL: the identity column *)
(* takes its number before the row is checked against the unique event_id, *)
(* outside the transaction (a number is never given back); the insert then *)
(* waits for an in-flight row with the same event_id; a row is visible     *)
(* when its transaction commits.  Consumers are external: they page        *)
(* through the log with the last sequence they have seen.                  *)
(***************************************************************************)
EXTENDS Integers, FiniteSets

CONSTANTS
    Client,      \* threads or processes that append
    Consumer,    \* readers that page through the log
    EventId,     \* caller-chosen event identifiers
    Content,     \* event type, resource, protocol version and payload, in memory
    Event,       \* the ContinuityEvents appended, as they are in memory
    JsonOf,      \* the content read back after json.dumps and jsonb
    None,        \* no event
    MaxSequence, \* bound: numbers the identity column gives out
    MaxLimit     \* bound: largest page asked for (the code's is 1000)

ASSUME JsonAssumption ==
    /\ JsonOf \in [Content -> Content]
    /\ \A content \in Content : JsonOf[JsonOf[content]] = JsonOf[content]

ASSUME EventAssumption ==
    /\ Event \subseteq [event_id : EventId, content : Content]
    /\ None \notin Event

ASSUME BoundAssumption == MaxSequence \in Nat /\ MaxLimit \in Nat \ {0}

VARIABLES
    rows,       \* committed rows of howedo_events
    taken,      \* the last number the identity column gave out
    pc,         \* the next statement of the client's transaction
    event,      \* the event being appended, or None
    number,     \* the number taken for it
    placed,     \* its row is inserted, not committed
    before,     \* history: the committed sequences when the call began
    outcome,    \* what the client's last append returned or raised
    cursor,     \* the last sequence the consumer has seen
    delivered   \* the rows the consumer has been given

vars == <<rows, taken, pc, event, number, placed, before, outcome, cursor, delivered>>

Row == [sequence : 1..MaxSequence, event_id : EventId, content : Content]
Statement == {"idle", "number", "insert", "compare", "commit"}
Result == {"none", "pending", "stored", "lost", "error", "EventConflict"}
Outcome == [result : Result, event : Event \union {None}, sequence : 0..MaxSequence]

TypeOK ==
    /\ rows \subseteq Row
    /\ taken \in 0..MaxSequence
    /\ pc \in [Client -> Statement]
    /\ event \in [Client -> Event \union {None}]
    /\ number \in [Client -> 0..MaxSequence]
    /\ placed \in [Client -> BOOLEAN]
    /\ before \in [Client -> SUBSET (1..MaxSequence)]
    /\ outcome \in [Client -> Outcome]
    /\ cursor \in [Consumer -> 0..MaxSequence]
    /\ delivered \in [Consumer -> SUBSET Row]
    /\ \A c \in Client : pc[c] # "idle" => event[c] \in Event

Init ==
    /\ rows = {}
    /\ taken = 0
    /\ pc = [c \in Client |-> "idle"]
    /\ event = [c \in Client |-> None]
    /\ number = [c \in Client |-> 0]
    /\ placed = [c \in Client |-> FALSE]
    /\ before = [c \in Client |-> {}]
    /\ outcome = [c \in Client |-> [result |-> "none", event |-> None, sequence |-> 0]]
    /\ cursor = [k \in Consumer |-> 0]
    /\ delivered = [k \in Consumer |-> {}]

-------------------------------------------------------------------------------

\* The committed row of an event identifier, at most one (UNIQUE).
RowsOfId(id) == {row \in rows : row.event_id = id}

\* The transactions whose uncommitted row has c's event_id.
Blockers(c) == {o \in Client \ {c} : placed[o] /\ event[o].event_id = event[c].event_id}

\* The row c inserts: the payload goes through JSON.
RowOf(c) == [sequence |-> number[c],
             event_id |-> event[c].event_id,
             content |-> JsonOf[event[c].content]]

Goto(c, s) == pc' = [pc EXCEPT ![c] = s]

\* Defect: a call that ended is not closed.
Close_StaysOpen(c, result, sequence) ==
    /\ event' = [event EXCEPT ![c] = None]
    /\ outcome' = [outcome EXCEPT ![c] =
                      [result |-> result, event |-> event[c], sequence |-> sequence]]
    /\ UNCHANGED <<pc, number, placed, before>>

\* The transaction ends with an answer to its caller.
Close(c, result, sequence) ==
    /\ Goto(c, "idle")
    /\ event' = [event EXCEPT ![c] = None]
    /\ number' = [number EXCEPT ![c] = 0]
    /\ placed' = [placed EXCEPT ![c] = FALSE]
    /\ before' = [before EXCEPT ![c] = {}]
    /\ outcome' = [outcome EXCEPT ![c] =
                      [result |-> result, event |-> event[c], sequence |-> sequence]]

-------------------------------------------------------------------------------
(* Append *)

Append(c, e) ==
    /\ pc[c] = "idle"
    /\ Goto(c, "number")
    /\ event' = [event EXCEPT ![c] = e]
    /\ before' = [before EXCEPT ![c] = {row.sequence : row \in rows}]
    /\ outcome' = [outcome EXCEPT ![c] = [result |-> "pending", event |-> e, sequence |-> 0]]
    /\ UNCHANGED <<rows, taken, number, placed, cursor, delivered>>

\* Defect: the next number is counted from the visible rows.
TakeNumber_FromRows(c) ==
    /\ pc[c] = "number"
    /\ Cardinality(rows) < MaxSequence
    /\ taken' = Cardinality(rows) + 1
    /\ number' = [number EXCEPT ![c] = Cardinality(rows) + 1]
    /\ Goto(c, "insert")
    /\ UNCHANGED <<rows, event, placed, before, outcome, cursor, delivered>>

\* INSERT evaluates the identity column's default.
TakeNumber(c) ==
    /\ pc[c] = "number"
    /\ taken < MaxSequence
    /\ taken' = taken + 1
    /\ number' = [number EXCEPT ![c] = taken + 1]
    /\ Goto(c, "insert")
    /\ UNCHANGED <<rows, event, placed, before, outcome, cursor, delivered>>

\* Defect: the insert does not see rows of unfinished transactions.
Insert_NoWait(c) ==
    /\ pc[c] = "insert"
    /\ LET fresh == RowsOfId(event[c].event_id) = {}
       IN /\ placed' = [placed EXCEPT ![c] = fresh]
          /\ Goto(c, IF fresh THEN "commit" ELSE "compare")
    /\ UNCHANGED <<rows, taken, event, number, before, outcome, cursor, delivered>>

\* INSERT ... ON CONFLICT (event_id) DO NOTHING
Insert(c) ==
    /\ pc[c] = "insert"
    /\ Blockers(c) = {}
    /\ LET fresh == RowsOfId(event[c].event_id) = {}
       IN /\ placed' = [placed EXCEPT ![c] = fresh]
          /\ Goto(c, IF fresh THEN "commit" ELSE "compare")
    /\ UNCHANGED <<rows, taken, event, number, before, outcome, cursor, delivered>>

\* Defect: the identifier alone is taken as proof of the same event.
Compare_IdOnly(c) ==
    /\ pc[c] = "compare"
    /\ Goto(c, "commit")
    /\ UNCHANGED <<rows, taken, event, number, placed, before, outcome, cursor, delivered>>

\* Defect: a stored event that differs sends the caller back to insert.
Compare_Retry(c) ==
    /\ pc[c] = "compare"
    /\ Goto(c, IF \E row \in RowsOfId(event[c].event_id) : row.content = event[c].content
               THEN "commit" ELSE "insert")
    /\ UNCHANGED <<rows, taken, event, number, placed, before, outcome, cursor, delivered>>

\* SELECT the row of event_id; it must be the event given, as it is in memory.
Compare(c) ==
    /\ pc[c] = "compare"
    /\ \/ /\ \E row \in RowsOfId(event[c].event_id) : row.content = event[c].content
          /\ Goto(c, "commit")
          /\ UNCHANGED <<event, number, placed, before, outcome>>
       \/ /\ \A row \in RowsOfId(event[c].event_id) : row.content # event[c].content
          /\ Close(c, "EventConflict", 0)
    /\ UNCHANGED <<rows, taken, cursor, delivered>>

\* The transaction commits, and the client learns the sequence or does not.
Commit(c) ==
    /\ pc[c] = "commit"
    /\ rows' = IF placed[c] THEN rows \union {RowOf(c)} ELSE rows
    /\ \E row \in {r \in rows' : r.event_id = event[c].event_id} :
           \/ Close(c, "stored", row.sequence)
           \/ Close(c, "lost", 0)
    /\ UNCHANGED <<taken, cursor, delivered>>

\* The client dies, the transaction is lost, or the schema is refused; the
\* number, if one was taken, is used up.
Abort(c) ==
    /\ pc[c] # "idle"
    /\ Close(c, "error", 0)
    /\ UNCHANGED <<rows, taken, cursor, delivered>>

-------------------------------------------------------------------------------
(* Consumption *)

Ahead(k) == {row \in rows : row.sequence > cursor[k]}

\* Defect: a page is any rows ahead, in no order.
Page_Unordered(k, limit) ==
    IF Cardinality(Ahead(k)) <= limit THEN Ahead(k)
    ELSE CHOOSE page \in SUBSET Ahead(k) :
             /\ Cardinality(page) = limit
             /\ \A row \in Ahead(k) \ page : \E o \in page : o.sequence > row.sequence

\* events_after: WHERE sequence > cursor ORDER BY sequence LIMIT limit
Page(k, limit) ==
    {row \in Ahead(k) : Cardinality({o \in Ahead(k) : o.sequence < row.sequence}) < limit}

Poll(k, limit) ==
    /\ Page(k, limit) # {}
    /\ delivered' = [delivered EXCEPT ![k] = @ \union Page(k, limit)]
    /\ \E row \in Page(k, limit) :
           /\ \A o \in Page(k, limit) : o.sequence <= row.sequence
           /\ cursor' = [cursor EXCEPT ![k] = row.sequence]
    /\ UNCHANGED <<rows, taken, pc, event, number, placed, before, outcome>>

-------------------------------------------------------------------------------

Step(c) == TakeNumber(c) \/ Insert(c) \/ Compare(c) \/ Commit(c)

Next ==
    \/ \E c \in Client, e \in Event : Append(c, e)
    \/ \E c \in Client : Step(c) \/ Abort(c)
    \/ \E k \in Consumer, limit \in 1..MaxLimit : Poll(k, limit)

Spec == Init /\ [][Next]_vars

\* A client in a call keeps running it, and lock waits are granted in turn.
FairSpec == Spec /\ \A c \in Client : SF_vars(Step(c))

-------------------------------------------------------------------------------
(* Properties *)

\* One row per event identifier and one event per number, counting the rows and
\* numbers of unfinished transactions: no append, retry or race doubles an event.
OneRowPerEvent ==
    /\ \A a, b \in rows : a.event_id = b.event_id \/ a.sequence = b.sequence => a = b
    /\ \A c \in Client :
           /\ placed[c] => RowsOfId(event[c].event_id) = {} /\ Blockers(c) = {}
           /\ number[c] > 0 =>
                  /\ \A row \in rows : row.sequence # number[c]
                  /\ \A o \in Client \ {c} : number[o] # number[c]

\* A client told "stored" can rely on the log holding its event's content, as
\* JSON, under that number for good; one told EventConflict had another content
\* on record under its identifier.
TruthfulAnswers ==
    \A c \in Client :
        LET answer == outcome[c]
        IN /\ answer.result = "stored" =>
                  [sequence |-> answer.sequence, event_id |-> answer.event.event_id,
                   content |-> JsonOf[answer.event.content]] \in rows
           /\ answer.result = "EventConflict" =>
                  \E row \in RowsOfId(answer.event.event_id) :
                      row.content # answer.event.content

\* The sequence is monotonic in real time: an event is numbered above everything
\* that was in the log when its append was called.
RealTimeOrder ==
    \A c \in Client : placed[c] => \A n \in before[c] : n < number[c]

\* What the order of statements and the identity column guarantee.
ControlInv ==
    /\ IsFiniteSet(rows)
    /\ \A row \in rows : row.sequence <= taken /\ JsonOf[row.content] = row.content
    /\ \A c \in Client :
           /\ pc[c] = "idle" => event[c] = None
           /\ number[c] > 0 <=> pc[c] \in {"insert", "compare", "commit"}
           /\ number[c] <= taken
           /\ placed[c] => pc[c] = "commit"
           /\ pc[c] = "compare" => RowsOfId(event[c].event_id) # {}
           /\ pc[c] = "commit" /\ ~placed[c] =>
                  \E row \in RowsOfId(event[c].event_id) : row.content = event[c].content
           /\ \A n \in before[c] : n <= taken /\ (number[c] > 0 => n < number[c])

\* The inductive invariant; RealTimeOrder follows from it.
IndInv == TypeOK /\ ControlInv /\ OneRowPerEvent /\ TruthfulAnswers

\* A page never takes a consumer past a committed row it was not given.
NeverPassesCommitted ==
    [][\A k \in Consumer, row \in rows :
           cursor[k] < row.sequence /\ row.sequence <= cursor'[k] => row \in delivered'[k]]_vars

\* Seen from its committed rows, its callers and its consumers, the table is the
\* atomic log of protocol v1: every append takes effect in one step, exactly once
\* per identifier and in an order that respects real time, or not at all; every
\* answer is true at that step; a page is everything up to its last row.
LogContract == INSTANCE ContinuityLog

AppendContract == LogContract!LogSpec

\* The statements that c's append has still to run, at most.
StatementsLeft(c) ==
    CASE pc[c] = "number" -> 4
      [] pc[c] = "insert" -> 3
      [] pc[c] = "compare" -> 2
      [] pc[c] = "commit" -> 1
      [] OTHER -> 0

\* What can be said of the end of an append without fairness: each of its statements,
\* and the loss of its transaction, brings it nearer, nothing that others do sets it
\* back, and those it waits for wait for nobody.
AppendsAdvance ==
    [][\A c \in Client : pc[c] # "idle" =>
           /\ IF Step(c) \/ Abort(c) THEN StatementsLeft(c)' < StatementsLeft(c)
                                    ELSE pc'[c] = pc[c]
           /\ \A o \in Blockers(c) : pc[o] = "commit"]_vars

\* Every append ends, with an answer or an error.  A client that can take no
\* number at the bound is not counted.
AppendsEnd ==
    \A c \in Client : pc[c] \in {"insert", "compare", "commit"} ~> pc[c] = "idle"

-------------------------------------------------------------------------------
(* Claims of the repository that the code does not meet *)

\* "append-only ... with a database-assigned monotonic sequence for ordered
\* consumption" (ADR-0006): paging by sequence delivers every event.
NothingSkipped ==
    \A k \in Consumer, row \in rows : row.sequence <= cursor[k] => row \in delivered[k]

\* "idempotent" (tests/conformance/test_postgres_storage.py:127): an event whose
\* own row is on record is never refused.
RetryAccepted ==
    \A c \in Client : outcome[c].result = "EventConflict" =>
        \A row \in RowsOfId(outcome[c].event.event_id) :
            row.content # JsonOf[outcome[c].event.content]
===============================================================================
