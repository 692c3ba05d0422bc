\* Two consumers that fetch into one directory, three root versions.
SPECIFICATION TrustSpec
CONSTANTS
    Absent = Absent
    RootKey <- MCKey
    Root <- MCRoot
    Metadata <- MCMetadata
    PublicationPolicy = {"reference", "lax"}
    Publisher = "reference"
    Rules <- MCRules
    Endpoint = {"https", "http"}
    SecureEndpoint = {"https"}
    Second = 2
    MaxTime = 2
    Consumer = {c1, c2}
    Directory = {"directory"}
    DirectoryOf <- MCDirectoryOf
    Target = {"first", "second"}
    ProfileOf <- MCProfileOf
    ProfileId = {"id", "other"}
INVARIANTS
    TrustTypeOK
    OnlineKeysNeverRotate
    ReleasesStand
    NoConsumerStranded
    LoneReceiptIsTrue
SYMMETRY MCSymmetry
