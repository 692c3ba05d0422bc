-------------------------- MODULE MCLangGraphAdapter --------------------------
(***************************************************************************)
(* A caller and a thread with two checkpoints.  A policy p has two         *)
(* revisions, the runtime has two versions; the upgrade is compatible, the *)
(* downgrade undecided.                                                    *)
(***************************************************************************)
EXTENDS LangGraphAdapter, TLC

Rev(r, v) == [resource_id |-> r, revision |-> v, digest |-> "d"]
Heads(p, runtime) == ("p" :> p) @@ ("runtime" :> runtime)

MCResourceId == {"p", "runtime"}
MCRevisionId == {"v1", "v2"}
MCRevision == {Rev(r, v) : r \in MCResourceId, v \in MCRevisionId}
MCRules == {[resource_id |-> "runtime", from_revision |-> "v1", to_revision |-> "v2",
             classification |-> "COMPATIBLE"]}
MCExecution == {[thread_id |-> "t", checkpoint_id |-> id, checkpoint_ns |-> ""] :
                id \in {"1", "2"}}
MCResourceLists == {<<Rev("p", "v1"), Rev("p", "v2")>>, <<Rev("runtime", "v2")>>}
MCFenceLists == {[r \in MCResourceId |-> 0], Heads(1, 0)}
MCHeadReads == {Heads(p, Rev("runtime", "v2")) : p \in {Rev("p", "v1"), Rev("p", "v2"), None}}
MCFenceReads == {Heads(fence, None) : fence \in {None, 1, 2}}
MCReports == {Heads(signal, "VALID") : signal \in {"VALID", "STALE"}}
===============================================================================
