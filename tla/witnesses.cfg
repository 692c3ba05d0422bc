\* Two writers, one reader, payloads that JSON keeps, changes and renders anew.
SPECIFICATION WitnessSpec
CONSTANTS
    Writer = {w1, w2}
    Reader = {r}
    Payload <- MCPayload
    Digest <- MCDigest
    DigestOf <- MCDigestOf
    ReadBack <- MCReadBack
    ValueOf <- MCValueOf
    Witness <- MCWitness
    NoWitness = NoWitness
INVARIANTS
    WitnessTypeOK
    PutIsReadable
PROPERTY
    WitnessContract
