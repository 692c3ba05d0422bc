----------------------------- MODULE ContinuityLog -----------------------------
(***************************************************************************)
(* What an event log of protocol v1 promises its clients and consumers:    *)
(* the StorageAdapter contract of append_event and events_after            *)
(* (src/src/howedo/storage/base.py, src/docs/protocol/V1.md:19, ADR-0006). *)
(* Each append takes effect atomically, at the step that answers it: it    *)
(* records a new event above everything that was on record when it was     *)
(* called, or answers with the event already on record, or leaves the log  *)
(* as it is.  Consumers page through the log in the order of its numbers.  *)
(***************************************************************************)
EXTENDS Integers, FiniteSets

CONSTANTS
    Client,      \* callers of append_event
    Consumer,    \* callers of events_after
    Event,       \* the events appended, as they are in memory
    JsonOf,      \* the content that is read back
    None,        \* no event
    MaxSequence, \* bound: the largest number
    MaxLimit     \* bound: largest page asked for

VARIABLES
    rows,       \* the events on record
    event,      \* the event of the client's call in progress, or None
    before,     \* the numbers on record when the call began
    outcome,    \* how the client's last call ended
    cursor,     \* the last number the consumer has seen
    delivered   \* the rows the consumer has been given

logVars == <<rows, event, before, outcome, cursor, delivered>>

LogInit ==
    /\ rows = {}
    /\ event = [c \in Client |-> None]
    /\ before = [c \in Client |-> {}]
    /\ outcome = [c \in Client |-> [result |-> "none", event |-> None, sequence |-> 0]]
    /\ cursor = [k \in Consumer |-> 0]
    /\ delivered = [k \in Consumer |-> {}]

OnRecord(e) == {row \in rows : row.event_id = e.event_id}

Invoke(c, e) ==
    /\ event[c] = None
    /\ event' = [event EXCEPT ![c] = e]
    /\ before' = [before EXCEPT ![c] = {row.sequence : row \in rows}]
    /\ outcome' = [outcome EXCEPT ![c] = [result |-> "pending", event |-> e, sequence |-> 0]]
    /\ UNCHANGED <<rows, cursor, delivered>>

Answer(c, result, sequence) ==
    /\ event' = [event EXCEPT ![c] = None]
    /\ before' = [before EXCEPT ![c] = {}]
    /\ outcome' = [outcome EXCEPT ![c] =
                      [result |-> result, event |-> event[c], sequence |-> sequence]]
    /\ UNCHANGED <<cursor, delivered>>

\* The caller learns the number, or the answer is lost.
Stored(c, n) == Answer(c, "stored", n) \/ Answer(c, "lost", 0)

\* A new event, with a number that is free and above what the caller could see.
Record(c) ==
    /\ OnRecord(event[c]) = {}
    /\ \E n \in 1..MaxSequence :
           /\ \A row \in rows : row.sequence # n
           /\ \A m \in before[c] : m < n
           /\ rows' = rows \union {[sequence |-> n, event_id |-> event[c].event_id,
                                    content |-> JsonOf[event[c].content]]}
           /\ Stored(c, n)

\* The event is on record already: a retry.
Repeat(c) ==
    /\ \E row \in OnRecord(event[c]) : row.content = event[c].content /\ Stored(c, row.sequence)
    /\ UNCHANGED rows

\* A call that fails changes nothing; a conflict has another content in its way.
Refuse(c) ==
    /\ \/ Answer(c, "error", 0)
       \/ /\ \E row \in OnRecord(event[c]) : row.content # event[c].content
          /\ Answer(c, "EventConflict", 0)
    /\ UNCHANGED rows

\* Everything on record from the consumer's cursor to a row.
Upto(k, last) == {row \in rows : cursor[k] < row.sequence /\ row.sequence <= last.sequence}

\* A page is everything up to its last row.
Consume(k) ==
    /\ \E last \in rows :
           /\ last \in Upto(k, last)
           /\ Cardinality(Upto(k, last)) <= MaxLimit
           /\ cursor' = [cursor EXCEPT ![k] = last.sequence]
           /\ delivered' = [delivered EXCEPT ![k] = @ \union Upto(k, last)]
    /\ UNCHANGED <<rows, event, before, outcome>>

LogNext ==
    \/ \E c \in Client, e \in Event : Invoke(c, e)
    \/ \E c \in Client : event[c] # None /\ (Record(c) \/ Repeat(c) \/ Refuse(c))
    \/ \E k \in Consumer : Consume(k)

LogSpec == LogInit /\ [][LogNext]_logVars
===============================================================================
