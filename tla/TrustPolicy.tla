------------------------------ MODULE TrustPolicy ------------------------------
(***************************************************************************)
(* What the certification chain decides (adapter_certification.py,         *)
(* attestation.py, trust_policy.py, consumer_trust.py): a conformance      *)
(* record, its statement, a signer, a policy, the verification result that *)
(* restates the decision (SVR), and a consumer's profile.                  *)
(*                                                                         *)
(* A digest is the content it is of.  The digest of a record or policy is  *)
(* a field beside its body, and may be of another body.  An identity or a  *)
(* ref is the sequence of its segments, and * is a segment of a pattern.   *)
(***************************************************************************)
EXTENDS FiniteSets, Naturals, Sequences

CONSTANTS
    None,
    ConformanceChecks,  \* CONFORMANCE_CHECKS_V1
    ArtifactVersion,    \* CONFORMANCE_ARTIFACT_VERSION
    PredicateType,      \* CONFORMANCE_PREDICATE_V1
    CryptoVerifier,     \* the verifier_id of sigstore_trust.py
    SvrVerifier         \* TRUST_VERIFIER_ID

-------------------------------------------------------------------------------
(* Records and statements *)

StatusOf(checks) ==
    IF \A check \in DOMAIN checks : checks[check] THEN "CONFORMANT" ELSE "NON_CONFORMANT"

\* verify_conformance_record
ValidRecord(artifact) ==
    /\ artifact.artifact_digest = artifact.body
    /\ artifact.body.artifact_version = ArtifactVersion
    /\ DOMAIN artifact.body.checks = ConformanceChecks
    /\ artifact.body.status = StatusOf(artifact.body.checks)

\* build_conformance_statement: the predicate restates parts of the record.
StatementOf(artifact) ==
    LET body == artifact.body
        passed == {check \in DOMAIN body.checks : body.checks[check]}
    IN [predicateType |-> PredicateType,
        subject       |-> artifact.artifact_digest,
        predicate     |-> [adapter          |-> body.adapter,
                           artifact_version |-> body.artifact_version,
                           check_count      |-> Cardinality(DOMAIN body.checks),
                           passed_count     |-> Cardinality(passed),
                           status           |-> body.status,
                           checkouts        |-> body.checkouts]]

\* verify_conformance_statement compares every part of a statement.
ValidStatement(artifact, statement) ==
    ValidRecord(artifact) /\ statement = StatementOf(artifact)

\* load_trust_policy
PolicyLoads(policy) == policy.policy_digest = policy.body

-------------------------------------------------------------------------------
(* The signer, and the policy's decision on it *)

\* SignerVerificationContext
Context(signer, verified) ==
    [verifier_id |-> CryptoVerifier, verified |-> verified, signer |-> signer]

\* In a policy * stands for one segment that is not empty, in a profile for any.
GlobMatch(value, pattern) ==
    /\ Len(value) = Len(pattern)
    /\ \A i \in DOMAIN pattern : pattern[i] = value[i] \/ (pattern[i] = "*" /\ value[i] # "")

ConsumerGlobMatch(value, pattern) ==
    /\ Len(value) = Len(pattern)
    /\ \A i \in DOMAIN pattern : pattern[i] \in {value[i], "*"}

\* The only commit that the record's evidence names, if it names one.
CheckoutIs(artifact, sha) == artifact.body.checkouts = {sha}
CheckoutMissing(artifact) == \A sha \in artifact.body.checkouts : ~CheckoutIs(artifact, sha)

\* evaluate_attestation_trust: the reasons against.
TrustReasons(policy, artifact, statement, context) ==
    LET signer == context.signer
        rules == policy.body
        against == [
            ARTIFACT_INVALID                  |-> ~ValidRecord(artifact),
            STATEMENT_INVALID                 |-> ~ValidStatement(artifact, statement),
            CRYPTOGRAPHIC_VERIFICATION_FAILED |-> ~context.verified,
            VERIFIER_NOT_ALLOWED              |-> context.verifier_id \notin rules.allowed_verifiers,
            ISSUER_NOT_ALLOWED                |-> signer.issuer \notin rules.allowed_issuers,
            IDENTITY_NOT_ALLOWED              |->
                \A pattern \in rules.allowed_identity_patterns : ~GlobMatch(signer.identity, pattern),
            REPOSITORY_NOT_ALLOWED            |-> signer.repository \notin rules.allowed_repositories,
            WORKFLOW_NOT_ALLOWED              |-> signer.workflow \notin rules.allowed_workflows,
            REF_NOT_ALLOWED                   |->
                \A pattern \in rules.allowed_ref_patterns : ~GlobMatch(signer.execution_ref, pattern),
            TRIGGER_NOT_ALLOWED               |-> signer.trigger \notin rules.allowed_triggers,
            PREDICATE_TYPE_NOT_ALLOWED        |->
                statement.predicateType \notin rules.allowed_predicate_types,
            ARTIFACT_VERSION_NOT_ALLOWED      |->
                artifact.body.artifact_version \notin rules.allowed_artifact_versions,
            CONFORMANCE_STATUS_NOT_ALLOWED    |->
                rules.require_conformant_status /\ artifact.body.status # "CONFORMANT",
            TRANSPARENCY_REQUIRED             |-> rules.require_transparency_log /\ ~context.verified,
            ARTIFACT_CHECKOUT_SHA_MISSING     |->
                rules.require_execution_sha /\ CheckoutMissing(artifact),
            EXECUTION_SHA_MISMATCH            |->
                /\ rules.require_execution_sha
                /\ ~CheckoutMissing(artifact)
                /\ ~CheckoutIs(artifact, signer.execution_sha)]
    IN {reason \in DOMAIN against : against[reason]}

\* build_svr_statement
SvrOf(policy, artifact, reasons, context, time) ==
    [subject     |-> artifact.artifact_digest,
     verifier    |-> SvrVerifier,
     policies    |-> [uri |-> policy.body.policy_id, digest |-> policy.body],
     timeCreated |-> time,
     accepted    |-> reasons = {},
     context     |-> context,
     reasons     |-> reasons]

\* verify_svr_statement replays the decision.
SvrReplays(policy, artifact, statement, context, svr) ==
    svr = SvrOf(policy, artifact, TrustReasons(policy, artifact, statement, context), context,
                svr.timeCreated)

-------------------------------------------------------------------------------
(* The consumer *)

\* evaluate_consumer_expectations: the reasons against.
ConsumerReasons(profile, policy, svr, context) ==
    LET signer == context.signer
        against == [
            POLICY_NOT_TRUSTED          |->
                [policy_id |-> policy.body.policy_id, policy_digest |-> policy.body]
                    \notin profile.trusted_policies,
            SVR_VERIFIER_NOT_TRUSTED    |-> svr.verifier \notin profile.trusted_svr_verifier_ids,
            CRYPTO_VERIFIER_NOT_TRUSTED |->
                context.verifier_id \notin profile.allowed_crypto_verifiers,
            ISSUER_NOT_ALLOWED          |-> signer.issuer \notin profile.allowed_issuers,
            IDENTITY_NOT_ALLOWED        |->
                \A pattern \in profile.allowed_identity_patterns :
                    ~ConsumerGlobMatch(signer.identity, pattern),
            REPOSITORY_NOT_ALLOWED      |-> signer.repository \notin profile.allowed_repositories,
            WORKFLOW_NOT_ALLOWED        |-> signer.workflow \notin profile.allowed_workflows,
            REF_NOT_ALLOWED             |->
                \A pattern \in profile.allowed_ref_patterns :
                    ~ConsumerGlobMatch(signer.execution_ref, pattern),
            TRIGGER_NOT_ALLOWED         |-> signer.trigger \notin profile.allowed_triggers,
            TRANSPARENCY_REQUIRED       |-> profile.require_transparency_log /\ ~context.verified]
    IN {reason \in DOMAIN against : against[reason]}
===============================================================================
