-------------------------- MODULE MCTemporalAdapter --------------------------
(***************************************************************************)
(* A caller and a workflow with two runs, of which a copied namespace has  *)
(* the first.  A policy p has two revisions, the runtime has two versions; *)
(* the upgrade is compatible, the downgrade undecided.                     *)
(***************************************************************************)
EXTENDS TemporalAdapter, TLC

Rev(r, v) == [resource_id |-> r, revision |-> v, digest |-> "d"]
Heads(p, runtime) == ("p" :> p) @@ ("runtime" :> runtime)
RunOf(namespace, id) == [namespace |-> namespace, workflow_id |-> "w", run_id |-> id]

MCResourceId == {"p", "runtime"}
MCRevisionId == {"v1", "v2"}
MCRevision == {Rev(r, v) : r \in MCResourceId, v \in MCRevisionId}
MCRules == {[resource_id |-> "runtime", from_revision |-> "v1", to_revision |-> "v2",
             classification |-> "COMPATIBLE"]}
MCExecution == {RunOf("n", "1"), RunOf("n", "2"), RunOf("copy", "1")}
MCResourceLists == {<<Rev("p", "v1"), Rev("p", "v2")>>, <<Rev("runtime", "v2")>>}
MCFenceLists == {[r \in MCResourceId |-> 0], Heads(1, 0)}
MCHeadReads == {Heads(p, Rev("runtime", "v2")) : p \in {Rev("p", "v1"), Rev("p", "v2"), None}}
MCFenceReads == {Heads(fence, None) : fence \in {None, 1, 2}}
MCReports == {Heads(signal, "VALID") : signal \in {"VALID", "STALE"}}
===============================================================================
