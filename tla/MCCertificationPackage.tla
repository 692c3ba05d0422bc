------------------------ MODULE MCCertificationPackage ------------------------
(***************************************************************************)
(* A directory with a builder and a verifier.  One source is sound; one    *)
(* has its result issued anew; one has the record of another adapter, and  *)
(* a statement that another workflow signed; one has a sound chain about a *)
(* failed conformance check.                                               *)
(***************************************************************************)
EXTENDS CertificationPackage

MCSigner ==
    [issuer |-> "issuer", identity |-> <<"workflow", "main">>, repository |-> "repository",
     workflow |-> "workflow", execution_sha |-> "sha", execution_ref |-> <<"refs", "main">>,
     trigger |-> "push", evidence_refs |-> {}]

MCRecord(adapter, passed) ==
    LET body == [artifact_version |-> "v1", adapter |-> adapter, checkouts |-> {"sha"},
                 checks |-> [check \in {"recovers", "blocks"} |-> passed],
                 status |-> IF passed THEN "CONFORMANT" ELSE "NON_CONFORMANT"]
    IN [artifact_digest |-> body, body |-> body]

MCRules ==
    [policy_id |-> "policy", allowed_verifiers |-> {"cosign"}, allowed_issuers |-> {"issuer"},
     allowed_identity_patterns |-> {<<"workflow", "*">>}, allowed_repositories |-> {"repository"},
     allowed_workflows |-> {"workflow"}, allowed_ref_patterns |-> {<<"refs", "*">>},
     allowed_triggers |-> {"push"}, allowed_predicate_types |-> {"conformance"},
     allowed_artifact_versions |-> {"v1"}, require_conformant_status |-> TRUE,
     require_transparency_log |-> TRUE, require_execution_sha |-> TRUE]
MCPolicy == [policy_digest |-> MCRules, body |-> MCRules]

MCProfile ==
    [expected_workflow_name |-> "name", trusted_svr_verifier_ids |-> {"svr"},
     trusted_policies |-> {[policy_id |-> "policy", policy_digest |-> MCRules]},
     allowed_crypto_verifiers |-> {"cosign"}, allowed_issuers |-> {"issuer"},
     allowed_identity_patterns |-> {<<"workflow", "main">>}, allowed_repositories |-> {"repository"},
     allowed_workflows |-> {"workflow"}, allowed_ref_patterns |-> {<<"refs", "main">>},
     allowed_triggers |-> {"push"}, require_transparency_log |-> TRUE]

Bundle(blob, name) ==
    [blob |-> blob, claims |-> [Claims(MCSigner, MCProfile) EXCEPT !.workflow_name = name]]

MCPackage(adapter, passed, name, time) ==
    LET artifact == MCRecord(adapter, passed)
        statement == StatementOf(artifact)
        context == Context(MCSigner, TRUE)
        svr == SvrOf(MCPolicy, artifact, TrustReasons(MCPolicy, artifact, statement, context),
                     context, time)
    IN [files |-> [key \in Key |->
            CASE key = "artifact" -> artifact
              [] key = "statement" -> statement
              [] key = "statement_bundle" -> Bundle(statement, name)
              [] key = "policy" -> MCPolicy
              [] key = "svr" -> svr
              [] key = "svr_bundle" -> Bundle(svr, "name")],
        signer |-> MCSigner]

MCSource == {MCPackage("a", TRUE, "name", "t1"), MCPackage("a", TRUE, "name", "t2"),
             MCPackage("b", TRUE, "other", "t1"), MCPackage("a", FALSE, "name", "t1")}
MCProfiles == {MCProfile, [MCProfile EXCEPT !.allowed_triggers = {"dispatch"}]}
===============================================================================
