---------------------------- MODULE PostgresStorage ----------------------------
(***************************************************************************)
(* The PostgreSQL storage adapter, src/src/howedo/storage/postgres.py:     *)
(* revisions and heads.  Every method opens a connection and runs its      *)
(* statements in one READ COMMITTED transaction, which psycopg's `with`    *)
(* commits on return and rolls back on an exception.  One action is one    *)
(* SQL statement, so transactions of several clients interleave between    *)
(* statements.                                                             *)
(*                                                                         *)
(* What PostgreSQL does is external and modelled from how the adapter      *)
(* relies on it: a statement sees committed rows and its own; an INSERT    *)
(* ... ON CONFLICT waits for an in-flight transaction holding the same     *)
(* unique key; an UPDATE whose WHERE matches the committed row waits for   *)
(* the transaction that has the row locked and then re-reads it; a         *)
(* transaction may be lost at any statement, and a commit may succeed      *)
(* without its acknowledgement reaching the client.                        *)
(***************************************************************************)
EXTENDS Domain, Naturals

CONSTANT Client   \* threads or processes, each with its own connection

VARIABLES
    schema,     \* howedo_schema_migrations: no table, v1, or also a newer row
    revisions,  \* committed rows of howedo_revisions
    heads,      \* committed rows of howedo_heads, None where there is none
    pc,         \* the next statement of the client's transaction
    call,       \* the method in progress and its arguments
    inserted,   \* the transaction has inserted call.revision in howedo_revisions
    wrote,      \* the transaction has written call.revision in howedo_heads
    outcome     \* what the client's last finished call returned or raised

store == <<revisions, heads>>
vars == <<schema, revisions, heads, pc, call, inserted, wrote, outcome>>

Schema == {"absent", "v1", "newer"}
Op == {"register_revision", "initialize_head", "activate_if_head"}
Statement == {"idle", "assert", "insert", "confirm", "head", "compare", "commit"}
Call == [op : Op, expected : Revision, revision : Revision]

\* "No call" is not a call.
ASSUME NoneIsNoCall == None \notin Call

Outcome == {"none", "pending", "ok", "lost", "error", "RevisionConflict", "HeadConflict",
             "UnsupportedStorageSchema", "UndefinedTable"}

TypeOK ==
    /\ schema \in Schema
    /\ revisions \subseteq Revision
    /\ heads \in [ResourceId -> Revision \union {None}]
    /\ pc \in [Client -> Statement]
    /\ call \in [Client -> Call \union {None}]
    /\ inserted \in [Client -> BOOLEAN]
    /\ wrote \in [Client -> BOOLEAN]
    /\ outcome \in [Client -> Outcome]
    /\ \A c \in Client : pc[c] # "idle" => call[c] \in Call

Init ==
    /\ schema = "absent"
    /\ revisions = {}
    /\ heads = [r \in ResourceId |-> None]
    /\ pc = [c \in Client |-> "idle"]
    /\ call = [c \in Client |-> None]
    /\ inserted = [c \in Client |-> FALSE]
    /\ wrote = [c \in Client |-> FALSE]
    /\ outcome = [c \in Client |-> "none"]

-------------------------------------------------------------------------------
(* Visibility, locks and the order of statements *)

Resource(c) == call[c].revision.resource_id

\* The rows of howedo_revisions a statement of c sees.
Visible(c) == IF inserted[c] THEN revisions \union {call[c].revision} ELSE revisions

\* The transactions whose uncommitted revision row has c's key.
RevisionBlockers(c) ==
    {o \in Client \ {c} : inserted[o] /\ SameKey(call[o].revision, call[c].revision)}

\* The transactions that have c's head row locked.
HeadBlockers(c) == {o \in Client \ {c} : wrote[o] /\ Resource(o) = Resource(c)}

\* Defect: activate_if_head updates the head before it registers the revision.
StatementAfter_HeadFirst(op, s) ==
    CASE s = "assert" -> IF op = "activate_if_head" THEN "head" ELSE "insert"
      [] s = "head" -> "insert"
      [] s = "insert" -> "confirm"
      [] s = "confirm" -> IF op = "initialize_head" THEN "head" ELSE "commit"
      [] OTHER -> "commit"

\* The statement after s in the method op.
StatementAfter(op, s) ==
    CASE s = "assert" -> "insert"
      [] s = "insert" -> "confirm"
      [] s = "confirm" -> IF op = "register_revision" THEN "commit" ELSE "head"
      [] OTHER -> "commit"

Goto(c, s) == pc' = [pc EXCEPT ![c] = s]

Advance(c) == Goto(c, StatementAfter(call[c].op, pc[c]))

\* Defect: a call that ended is not closed.
Close_StaysOpen(c, result) ==
    /\ call' = [call EXCEPT ![c] = None]
    /\ outcome' = [outcome EXCEPT ![c] = result]
    /\ UNCHANGED <<pc, inserted, wrote>>

\* The transaction ends; its uncommitted rows and locks are gone.
Close(c, result) ==
    /\ Goto(c, "idle")
    /\ call' = [call EXCEPT ![c] = None]
    /\ inserted' = [inserted EXCEPT ![c] = FALSE]
    /\ wrote' = [wrote EXCEPT ![c] = FALSE]
    /\ outcome' = [outcome EXCEPT ![c] = result]

\* An exception leaves the `with` block: roll back.
Rollback(c, result) ==
    /\ Close(c, result)
    /\ UNCHANGED <<schema, revisions, heads>>

-------------------------------------------------------------------------------
(* Calls *)

\* A method call; activate_if_head refuses two resources (ValueError) before it
\* connects, which changes nothing.
Begin(c, op, expected, revision) ==
    /\ pc[c] = "idle"
    /\ op = "activate_if_head" => expected.resource_id = revision.resource_id
    /\ op # "activate_if_head" => expected = revision
    /\ Goto(c, "assert")
    /\ call' = [call EXCEPT ![c] = [op |-> op, expected |-> expected, revision |-> revision]]
    /\ outcome' = [outcome EXCEPT ![c] = "pending"]
    /\ UNCHANGED <<schema, revisions, heads, inserted, wrote>>

-------------------------------------------------------------------------------
(* Statements *)

AssertInitialized(c) ==
    /\ pc[c] = "assert"
    /\ \/ /\ schema = "v1"
          /\ Advance(c)
          /\ UNCHANGED <<schema, revisions, heads, call, inserted, wrote, outcome>>
       \/ schema = "newer" /\ Rollback(c, "UnsupportedStorageSchema")
       \/ schema = "absent" /\ Rollback(c, "UndefinedTable")

\* Defect: an insert that does not see rows of unfinished transactions.
InsertRevision_NoWait(c) ==
    /\ pc[c] = "insert"
    /\ inserted' = [inserted EXCEPT ![c] = RowsOf(call[c].revision, revisions) = {}]
    /\ Advance(c)
    /\ UNCHANGED <<schema, revisions, heads, call, wrote, outcome>>

\* INSERT ... ON CONFLICT (resource_id, revision) DO NOTHING
InsertRevision(c) ==
    /\ pc[c] = "insert"
    /\ RevisionBlockers(c) = {}
    /\ inserted' = [inserted EXCEPT ![c] = RowsOf(call[c].revision, revisions) = {}]
    /\ Advance(c)
    /\ UNCHANGED <<schema, revisions, heads, call, wrote, outcome>>

\* SELECT digest ... and the comparison with the given digest
ConfirmRevision(c) ==
    /\ pc[c] = "confirm"
    /\ \/ /\ call[c].revision \in Visible(c)
          /\ Advance(c)
          /\ UNCHANGED <<schema, revisions, heads, call, inserted, wrote, outcome>>
       \/ /\ call[c].revision \notin Visible(c)
          /\ Rollback(c, "RevisionConflict")

\* initialize_head: INSERT ... ON CONFLICT (resource_id) DO NOTHING
InsertHead(c) ==
    /\ pc[c] = "head"
    /\ call[c].op = "initialize_head"
    /\ HeadBlockers(c) = {}
    /\ \/ /\ heads[Resource(c)] = None
          /\ wrote' = [wrote EXCEPT ![c] = TRUE]
          /\ Goto(c, "commit")
       \/ /\ heads[Resource(c)] # None
          /\ Goto(c, "compare")
          /\ UNCHANGED wrote
    /\ UNCHANGED <<schema, revisions, heads, call, inserted, outcome>>

\* Defect: another head sends the call back to its insert instead of raising.
CompareHead_Retry(c) ==
    /\ pc[c] = "compare"
    /\ Goto(c, IF heads[Resource(c)] = call[c].revision THEN "commit" ELSE "head")
    /\ UNCHANGED <<schema, revisions, heads, call, inserted, wrote, outcome>>

\* initialize_head: a head exists already; the same one is accepted.
CompareHead(c) ==
    /\ pc[c] = "compare"
    /\ \/ /\ heads[Resource(c)] = call[c].revision
          /\ Advance(c)
          /\ UNCHANGED <<schema, revisions, heads, call, inserted, wrote, outcome>>
       \/ /\ heads[Resource(c)] # call[c].revision
          /\ Rollback(c, "HeadConflict")

\* Defect: the expected head is read, and the row written without its lock.
UpdateHead_NoLock(c) ==
    /\ pc[c] = "head"
    /\ call[c].op = "activate_if_head"
    /\ \/ /\ heads[Resource(c)] = call[c].expected
          /\ wrote' = [wrote EXCEPT ![c] = TRUE]
          /\ Advance(c)
          /\ UNCHANGED <<schema, revisions, heads, call, inserted, outcome>>
       \/ /\ heads[Resource(c)] # call[c].expected
          /\ Rollback(c, "HeadConflict")

\* Defect: an update of no row is not reported.
UpdateHead_NoRowIsFine(c) ==
    /\ pc[c] = "head"
    /\ call[c].op = "activate_if_head"
    /\ HeadBlockers(c) = {}
    /\ wrote' = [wrote EXCEPT ![c] = heads[Resource(c)] = call[c].expected]
    /\ Advance(c)
    /\ UNCHANGED <<schema, revisions, heads, call, inserted, outcome>>

\* activate_if_head: UPDATE ... WHERE revision and digest are the expected ones.
\* A committed row that does not match is skipped without waiting for its lock.
UpdateHead(c) ==
    /\ pc[c] = "head"
    /\ call[c].op = "activate_if_head"
    /\ \/ /\ heads[Resource(c)] = call[c].expected
          /\ HeadBlockers(c) = {}
          /\ wrote' = [wrote EXCEPT ![c] = TRUE]
          /\ Advance(c)
          /\ UNCHANGED <<schema, revisions, heads, call, inserted, outcome>>
       \/ /\ heads[Resource(c)] # call[c].expected
          /\ Rollback(c, "HeadConflict")

\* The `with` block returns: commit, acknowledged or not.
Commit(c) ==
    /\ pc[c] = "commit"
    /\ \E result \in {"ok", "lost"} : Close(c, result)
    /\ revisions' = Visible(c)
    /\ heads' = IF wrote[c]
                THEN [heads EXCEPT ![Resource(c)] = call[c].revision]
                ELSE heads
    /\ UNCHANGED schema

\* The client dies, or the server or the network drops the transaction.
Abort(c) ==
    /\ pc[c] # "idle"
    /\ Rollback(c, "error")

-------------------------------------------------------------------------------
(* Migrations *)

\* migrate: all statements of 0001_protocol_v1 in one transaction, then
\* schema_version.
Migrate(c) ==
    /\ pc[c] = "idle"
    /\ schema' = IF schema = "absent" THEN "v1" ELSE schema
    /\ outcome' = [outcome EXCEPT ![c] = IF schema = "newer"
                                         THEN "UnsupportedStorageSchema"
                                         ELSE "ok"]
    /\ UNCHANGED <<revisions, heads, pc, call, inserted, wrote>>

\* A later release migrates the same database.
MigrateNewer ==
    /\ schema = "v1"
    /\ schema' = "newer"
    /\ UNCHANGED <<revisions, heads, pc, call, inserted, wrote, outcome>>

-------------------------------------------------------------------------------

Step(c) ==
    \/ AssertInitialized(c)
    \/ InsertRevision(c)
    \/ ConfirmRevision(c)
    \/ InsertHead(c)
    \/ CompareHead(c)
    \/ UpdateHead(c)
    \/ Commit(c)

Next ==
    \/ \E c \in Client, op \in Op, expected, revision \in Revision :
           Begin(c, op, expected, revision)
    \/ \E c \in Client : Step(c) \/ Abort(c) \/ Migrate(c)
    \/ MigrateNewer

Spec == Init /\ [][Next]_vars

\* A client in a call keeps running it, and PostgreSQL grants a contended lock
\* in arrival order, so a waiter is not passed over for ever: strong fairness.
FairSpec == Spec /\ \A c \in Client : SF_vars(Step(c))

-------------------------------------------------------------------------------
(* Properties *)

\* A revision identifier never names two contents, committed or about to be:
\* revisions are immutable (ADR-0006, "immutable resource revisions").
ImmutableRevisions ==
    /\ OneContentPerKey(revisions)
    /\ \A c, d \in Client :
           /\ inserted[c] => RowsOf(call[c].revision, revisions) = {}
           /\ inserted[c] /\ inserted[d] /\ SameKey(call[c].revision, call[d].revision)
              => c = d

\* Every head, committed or about to be, points to a registered revision: the
\* foreign key of howedo_heads never fails an activation.
HeadsRegistered ==
    /\ \A r \in ResourceId : heads[r] # None => heads[r] \in revisions /\ heads[r].resource_id = r
    /\ \A c \in Client : wrote[c] => call[c].revision \in Visible(c)

\* What a transaction checked before it wrote a head (the expected head, or no
\* head) is still true until it ends, and no other transaction is moving that
\* head: the check and the activation are one step to everyone else
\* (ADR-0006, "atomic expected-head activation").
CheckHoldsUntilCommit ==
    \A c \in Client : wrote[c] =>
        /\ heads[Resource(c)] =
              IF call[c].op = "activate_if_head" THEN call[c].expected ELSE None
        /\ HeadBlockers(c) = {}

\* What the order of statements guarantees at each of them.
ControlInv ==
    \A c \in Client :
        /\ pc[c] = "idle" <=> call[c] = None
        /\ inserted[c] => pc[c] \in {"confirm", "head", "compare", "commit"}
        /\ wrote[c] => pc[c] = "commit" /\ call[c].op # "register_revision"
        /\ pc[c] = "confirm" /\ ~inserted[c] => RowsOf(call[c].revision, revisions) # {}
        /\ pc[c] \in {"head", "compare", "commit"} => call[c].revision \in Visible(c)
        /\ pc[c] = "head" => call[c].op # "register_revision"
        /\ pc[c] = "compare" => call[c].op = "initialize_head" /\ heads[Resource(c)] # None
        /\ pc[c] = "commit" /\ call[c].op = "activate_if_head" => wrote[c]
        /\ pc[c] = "commit" /\ call[c].op = "initialize_head" /\ ~wrote[c]
              => call[c].revision \in revisions
        /\ pc[c] # "idle" /\ call[c].op = "activate_if_head"
              => call[c].expected.resource_id = Resource(c)

\* The inductive invariant.
IndInv ==
    TypeOK /\ ControlInv /\ ImmutableRevisions /\ HeadsRegistered /\ CheckHoldsUntilCommit

\* The transactions c's next statement waits for.
WaitsFor(c) ==
    CASE pc[c] = "insert" -> RevisionBlockers(c)
      [] pc[c] = "head" -> HeadBlockers(c)
      [] OTHER -> {}

\* No set of transactions waits only for its own members: every method takes
\* its revision row before its head row, so PostgreSQL never has to kill one.
NoDeadlock ==
    \A S \in SUBSET Client : S # {} => \E c \in S : WaitsFor(c) \intersect S = {}

\* Seen from its committed rows and its clients, the adapter is the atomic store
\* of protocol v1: every call takes effect in one step (an activation only from
\* its expected head, a head is initialised once), a success means the effect
\* happened, a conflict means that nothing was written and that another content
\* or head really stands in the way, an error writes nothing.  initialize_head
\* on an existing head is decided when it compares, before it commits.
Contract == INSTANCE ContinuityStore
    WITH matched <- [c \in Client |-> /\ pc[c] = "commit"
                                      /\ call[c].op = "initialize_head"
                                      /\ ~wrote[c]]

StoreContract == Contract!StoreSpec

\* A head that is set moves only by an activation that expected it, acknowledged or
\* not, to that activation's replacement (src/docs/protocol/V1.md:21).
HeadsMoveByActivation ==
    [][\A r \in ResourceId :
           heads[r] # None /\ heads'[r] # heads[r] =>
               \E c \in Client :
                   /\ call[c] = [op |-> "activate_if_head", expected |-> heads[r],
                                 revision |-> heads'[r]]
                   /\ outcome'[c] \in {"ok", "lost"}]_vars

\* The statements that c's call has still to run, at most.
StatementsLeft(c) ==
    CASE pc[c] = "assert" -> 6
      [] pc[c] = "insert" -> 5
      [] pc[c] = "confirm" -> 4
      [] pc[c] = "head" -> 3
      [] pc[c] = "compare" -> 2
      [] pc[c] = "commit" -> 1
      [] OTHER -> 0

\* What can be said of the end of a call without fairness: each of its statements, and
\* the loss of its transaction, brings it nearer, and nothing that others do, now or
\* while it waits, sets it back: no method retries.
CallsAdvance ==
    [][\A c \in Client : pc[c] # "idle" =>
           IF Step(c) \/ Abort(c) THEN StatementsLeft(c)' < StatementsLeft(c)
                                 ELSE pc'[c] = pc[c]]_vars

\* Every call returns or raises: waiting for another transaction's rows ends.
CallsEnd == \A c \in Client : pc[c] # "idle" ~> pc[c] = "idle"
===============================================================================
