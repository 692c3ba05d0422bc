------------------------------ MODULE MCEventLog ------------------------------
(***************************************************************************)
(* Contents of an event: a payload with a tuple, which is read back from   *)
(* JSON with a list, the same payload with a list, and another payload.    *)
(***************************************************************************)
EXTENDS EventLog

MCContent == {"tuple", "list", "other"}
MCJsonOf == [content \in MCContent |-> IF content = "tuple" THEN "list" ELSE content]
MCEvent == {[event_id |-> "e1", content |-> content] : content \in MCContent}
           \union {[event_id |-> "e2", content |-> "list"]}
MCEventId == {"e1", "e2"}
===============================================================================
