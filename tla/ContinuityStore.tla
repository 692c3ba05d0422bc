---------------------------- MODULE ContinuityStore ----------------------------
(***************************************************************************)
(* What a store of protocol v1 promises its clients: the StorageAdapter    *)
(* contract for revisions and heads (src/src/howedo/storage/base.py,       *)
(* src/docs/protocol/V1.md:19-21, ADR-0006).  Clients call concurrently;   *)
(* each call takes effect atomically, as the reference registry would, at  *)
(* the step that returns.  A head is set once and after that moves only by *)
(* a compare-and-set.                                                      *)
(***************************************************************************)
EXTENDS StateRegistry

CONSTANT Client

VARIABLES
    call,      \* the client's call in progress, or None
    matched,   \* initialize_head has seen its revision already in place
    outcome    \* how the client's last call ended

storeVars == <<revisions, heads, call, matched, outcome>>

StoreInit ==
    /\ Init
    /\ call = [c \in Client |-> None]
    /\ matched = [c \in Client |-> FALSE]
    /\ outcome = [c \in Client |-> "none"]

Invoke(c, op, expected, revision) ==
    /\ call[c] = None
    /\ call' = [call EXCEPT ![c] = [op |-> op, expected |-> expected, revision |-> revision]]
    /\ outcome' = [outcome EXCEPT ![c] = "pending"]
    /\ UNCHANGED <<revisions, heads, matched>>

\* initialize_head accepts a head that is already the given one.
SeeHead(c) ==
    /\ call[c] # None
    /\ call[c].op = "initialize_head"
    /\ heads[call[c].revision.resource_id] = call[c].revision
    /\ matched' = [matched EXCEPT ![c] = TRUE]
    /\ UNCHANGED <<revisions, heads, call, outcome>>

\* The effect of a call that succeeds.
Effect(c) ==
    LET op == call[c].op
        revision == call[c].revision
    IN \/ op = "register_revision" /\ Register(revision, FALSE)
       \/ /\ op = "initialize_head"
          /\ heads[revision.resource_id] = None
          /\ Register(revision, TRUE)
       \/ op = "initialize_head" /\ matched[c] /\ UNCHANGED vars
       \/ op = "activate_if_head" /\ ActivateIfHead(call[c].expected, revision)

\* A call that is refused changes nothing; a conflict names what stands in its way.
Refused(c, result) ==
    LET op == call[c].op
        revision == call[c].revision
        head == heads[revision.resource_id]
    IN /\ UNCHANGED vars
       /\ \/ result \in {"error", "UnsupportedStorageSchema", "UndefinedTable"}
          \/ result = "RevisionConflict" /\ Conflicts(revision, revisions)
          \/ /\ result = "HeadConflict"
             /\ \/ op = "initialize_head" /\ head # None /\ head # revision
                \/ op = "activate_if_head" /\ head # call[c].expected

\* "lost": the call took effect, and the client does not learn it.
Return(c, result) ==
    /\ call[c] # None
    /\ IF result \in {"ok", "lost"} THEN Effect(c) ELSE Refused(c, result)
    /\ call' = [call EXCEPT ![c] = None]
    /\ matched' = [matched EXCEPT ![c] = FALSE]
    /\ outcome' = [outcome EXCEPT ![c] = result]

\* Migrations touch neither revisions nor heads.
Administer(c) ==
    /\ call[c] = None
    /\ \E result \in {"ok", "UnsupportedStorageSchema"} :
           outcome' = [outcome EXCEPT ![c] = result]
    /\ UNCHANGED <<revisions, heads, call, matched>>

Op == {"register_revision", "initialize_head", "activate_if_head"}

Outcome == {"none", "pending", "ok", "lost", "error", "RevisionConflict", "HeadConflict",
            "UnsupportedStorageSchema", "UndefinedTable"}

StoreNext ==
    \E c \in Client :
        \/ \E op \in Op, expected, revision \in Revision : Invoke(c, op, expected, revision)
        \/ SeeHead(c)
        \/ \E result \in Outcome : Return(c, result)
        \/ Administer(c)

StoreSpec == StoreInit /\ [][StoreNext]_storeVars
===============================================================================
