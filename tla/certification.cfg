\* One builder, two builds, one verifier.
SPECIFICATION Spec
CONSTANTS
    None = None
    Torn = Torn
    ConformanceChecks = {"recovers", "blocks"}
    ArtifactVersion = "v1"
    PredicateType = "conformance"
    CryptoVerifier = "cosign"
    SvrVerifier = "svr"
    Builder = {b1}
    Verifier = {v1}
    Source <- MCSource
    Profile <- MCProfiles
    MaxBuilds = 2
INVARIANTS
    TypeOK
    SoundVerification
    CompleteVerification
    AcceptedIsTrusted
