------------------------------- MODULE MCRecall -------------------------------
(***************************************************************************)
(* Every graph and every assignment of signals on three resources: chains, *)
(* shared dependents and cycles of two and three.                          *)
(***************************************************************************)
EXTENDS Recall

MCResource == {"a", "b", "c"}
===============================================================================
