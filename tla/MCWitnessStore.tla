---------------------------- MODULE MCWitnessStore ----------------------------
(***************************************************************************)
(* Payloads: one with a tuple and the same with a list, which have one     *)
(* text; one with the float 1e16 and the same with the integer, which      *)
(* Python takes for equal; and one that JSON keeps, of two kinds.          *)
(***************************************************************************)
EXTENDS WitnessStore, TLC

MCPayload == {"tuple", "list", "float", "integer", "plain"}
MCDigestOf == [p \in MCPayload |-> IF p = "tuple" THEN "list" ELSE p]
MCDigest == {"list", "float", "integer", "plain"}
MCReadBack == [p \in MCPayload |-> CASE p = "tuple" -> "list"
                                     [] p = "float" -> "integer"
                                     [] OTHER -> p]
MCValueOf == [p \in MCPayload |-> IF p = "float" THEN "integer" ELSE p]
MCWitness == {[witness_kind |-> "continuity", payload |-> p] :
                  p \in {"tuple", "list", "float", "plain"}}
             \union {[witness_kind |-> "recovery", payload |-> "plain"]}
===============================================================================
