----------------------------- MODULE MCContinuity -----------------------------
(***************************************************************************)
(* Two resources with two revisions each, of which the agent writes b.     *)
(* Drift of both is compatible, drift back breaks a and is undecided for b.*)
(***************************************************************************)
EXTENDS Continuity

Rev(r, v, d) == [resource_id |-> r, revision |-> v, digest |-> d]

MCResourceId == {"a", "b"}
MCRevisionId == {"v1", "v2"}
MCDigest == {"d"}
MCRevision == {Rev(r, v, "d") : r \in MCResourceId, v \in MCRevisionId}
MCRules == {[resource_id |-> "a", from_revision |-> "v1", to_revision |-> "v2",
             classification |-> "COMPATIBLE"],
            [resource_id |-> "b", from_revision |-> "v1", to_revision |-> "v2",
             classification |-> "COMPATIBLE"],
            [resource_id |-> "a", from_revision |-> "v2", to_revision |-> "v1",
             classification |-> "BREAKING"]}
MCInitialHead == [r \in MCResourceId |-> Rev(r, "v1", "d")]
MCWritable == {"b"}
AllValid == [r \in MCResourceId |-> "VALID"]
MCReports == {AllValid} \union {[AllValid EXCEPT ![r] = signal] :
                 r \in MCResourceId, signal \in {"STALE", "UNKNOWN", "INVALID"}}
===============================================================================
