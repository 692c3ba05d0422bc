--------------------------- MODULE TrustPublication ---------------------------
(***************************************************************************)
(* The publication of trust roots (trust_publication.py, its CLI and       *)
(* TUF_ROOT_CEREMONY.md): the publication manifest of the root history,    *)
(* with the root that a ceremony has signed last, is built, and later the  *)
(* root and its manifest are released.  A released root stays (ADR-0015).  *)
(*                                                                         *)
(* A root and a policy are files, and their digest is the file itself:     *)
(* Metadata is what a root file says and the keys whose signatures it has, *)
(* Rules what a policy asks for.  Time is counted in ticks, and a manifest *)
(* keeps whole seconds.                                                    *)
(***************************************************************************)
EXTENDS FiniteSets, Integers, Sequences

CONSTANTS
    Absent,
    RootKey,            \* key identifiers
    Root,               \* the root files that ceremonies produce
    Metadata,
    PublicationPolicy,  \* the policies, and the one of the publisher
    Publisher,
    Rules,
    Endpoint,           \* base URLs, target path and identifiers of a publication
    SecureEndpoint,     \* those whose base URLs are absolute https URLs
    Second,             \* ticks in a second
    MaxTime             \* bound: the clock

RoleName == {"root", "snapshot", "targets", "timestamp"}

ASSUME RootAssumption ==
    /\ IsFiniteSet(RootKey)
    /\ Absent \notin Root
    /\ Metadata \in [Root -> [version : Nat, expires : Nat, spec_major : Nat,
                             consistent_snapshot : BOOLEAN,
                             roles : [RoleName -> [keyids : SUBSET RootKey, threshold : Nat]],
                             signers : SUBSET RootKey]]

\* TrustRootPublicationPolicy; the window is in ticks.
ASSUME PolicyAssumption ==
    /\ Publisher \in PublicationPolicy
    /\ Rules \in [PublicationPolicy ->
           [minimum_root_keys : Nat \ {0}, minimum_root_threshold : Nat \ {0},
            minimum_root_validity : Nat \ {0}, required_spec_major : Nat \ {0},
            require_consistent_snapshot : BOOLEAN, require_disjoint_role_keys : BOOLEAN,
            require_https_endpoints : BOOLEAN]]
    /\ \A policy \in PublicationPolicy :
           Rules[policy].minimum_root_threshold <= Rules[policy].minimum_root_keys

ASSUME PublicationAssumption ==
    /\ SecureEndpoint \subseteq Endpoint
    /\ Second \in Nat \ {0} /\ MaxTime \in Nat

VARIABLES
    clock,
    repository,  \* the released roots
    published,   \* the manifest released with each of them
    attested     \* the manifest built for the next release, or Absent

publication == <<repository, published, attested>>

PublicationManifest ==
    [policy_digest : PublicationPolicy, root_history : Seq(Root),
     verified_at : Nat, endpoint : Endpoint]
PublicationRecord == [manifest_digest : PublicationManifest, manifest : PublicationManifest]

-------------------------------------------------------------------------------
(* The root history: _verify_root_history *)

\* External: get_verification_result, the threshold of a root role.
SignedBy(root, by) ==
    LET role == Metadata[by].roles["root"]
    IN Cardinality(Metadata[root].signers \intersect role.keyids) >= role.threshold

\* Defect: a root is verified by its own keys only.
VerifiedRoot_OwnKeys(history, n) ==
    /\ Metadata[history[n]].version = n
    /\ SignedBy(history[n], history[n])

\* By the previous root and by itself; the first by itself only.
VerifiedRoot(history, n) ==
    /\ Metadata[history[n]].version = n
    /\ n > 1 => SignedBy(history[n], history[n - 1])
    /\ SignedBy(history[n], history[n])

VerifiedHistory(history) ==
    /\ history # <<>>
    /\ \A n \in DOMAIN history : VerifiedRoot(history, n)

-------------------------------------------------------------------------------
(* The publication policy *)

\* PublishedRole
RolesWellFormed(root) ==
    \A name \in RoleName :
        LET role == Metadata[root].roles[name]
        IN role.keyids # {} /\ role.threshold \in 1..Cardinality(role.keyids)

KeysOf(root, name) == Metadata[root].roles[name].keyids

\* Defect: only the keys of the timestamp role are compared.
RoleKeysDisjoint_Timestamp(root) ==
    KeysOf(root, "root") \intersect KeysOf(root, "timestamp") = {}

\* _require_disjoint_role_keys
RoleKeysDisjoint(root) ==
    \A one, other \in RoleName :
        one # other => KeysOf(root, one) \intersect KeysOf(root, other) = {}

\* The checks on the current root but for its expiry.
MeetsPolicy(root, policy) ==
    LET metadata == Metadata[root]
        rules == Rules[policy]
    IN /\ metadata.spec_major = rules.required_spec_major
       /\ rules.require_consistent_snapshot => metadata.consistent_snapshot
       /\ RolesWellFormed(root)
       /\ Cardinality(KeysOf(root, "root")) >= rules.minimum_root_keys
       /\ metadata.roles["root"].threshold >= rules.minimum_root_threshold
       /\ rules.require_disjoint_role_keys => RoleKeysDisjoint(root)

ValidThrough(root, policy, at) ==
    Metadata[root].expires >= at + Rules[policy].minimum_root_validity

\* _normalize_utc drops the microseconds.
Normalize(time) == time - (time % Second)

Current(history) == history[Len(history)]

\* build_trust_root_publication_manifest, up to the manifest
Publishable(history, policy, endpoint, at) ==
    /\ VerifiedHistory(history)
    /\ MeetsPolicy(Current(history), policy)
    /\ Rules[policy].require_https_endpoints => endpoint \in SecureEndpoint
    /\ ValidThrough(Current(history), policy, Normalize(at))

\* TrustRootPublicationManifest; the fields that restate the current root are left out.
ManifestOf(history, policy, endpoint, at) ==
    [policy_digest |-> policy, root_history |-> history,
     verified_at |-> Normalize(at), endpoint |-> endpoint]

Record(manifest) == [manifest_digest |-> manifest, manifest |-> manifest]

\* Defect: the window is checked at the time of the verification.
VerifiedPublication_Now(history, record, policy) ==
    LET manifest == record.manifest
    IN /\ record.manifest_digest = manifest
       /\ manifest.policy_digest = policy
       /\ Publishable(history, policy, manifest.endpoint, clock)
       /\ ManifestOf(history, policy, manifest.endpoint, manifest.verified_at) = manifest

\* verify_trust_root_publication: the manifest is loaded, and built again at the
\* time that it states itself.
VerifiedPublication(history, record, policy) ==
    LET manifest == record.manifest
    IN /\ record.manifest_digest = manifest
       /\ manifest.policy_digest = policy
       /\ Publishable(history, policy, manifest.endpoint, manifest.verified_at)
       /\ ManifestOf(history, policy, manifest.endpoint, manifest.verified_at) = manifest

-------------------------------------------------------------------------------
(* The ceremony *)

PublicationInit ==
    /\ clock = 0
    /\ repository = <<>>
    /\ published = <<>>
    /\ attested = Absent

PassTime ==
    /\ clock < MaxTime
    /\ clock' = clock + 1
    /\ UNCHANGED publication

\* build_main, with the roots released and the one just signed: the time is now, or
\* the one given by --verified-at.
BuildManifest(root, endpoint, at) ==
    /\ LET history == Append(repository, root)
       IN /\ Publishable(history, Publisher, endpoint, at)
          /\ attested' = Record(ManifestOf(history, Publisher, endpoint, at))
    /\ UNCHANGED <<clock, repository, published>>

\* Defect: the root is released without its manifest.
Release_RootOnly ==
    /\ attested # Absent
    /\ repository' = Append(repository, Current(attested.manifest.root_history))
    /\ attested' = Absent
    /\ UNCHANGED <<clock, published>>

\* "Run the R14 verifier over the complete root history before publication."
Release ==
    /\ attested # Absent
    /\ repository' = Append(repository, Current(attested.manifest.root_history))
    /\ published' = Append(published, attested)
    /\ attested' = Absent
    /\ UNCHANGED clock

PublicationNext ==
    \/ PassTime
    \/ \E root \in Root, endpoint \in Endpoint, at \in 0..MaxTime :
           BuildManifest(root, endpoint, at)
    \/ Release

-------------------------------------------------------------------------------
(* Properties *)

\* A manifest record that the publisher has built for a history.
Attests(record, history) ==
    \E endpoint \in Endpoint, at \in 0..MaxTime :
        /\ record = Record(ManifestOf(history, Publisher, endpoint, at))
        /\ Publishable(history, Publisher, endpoint, at)

\* Each released root was the last of a history that the publisher checked.
ChainInv ==
    /\ \A n \in 1..Len(repository) : Attests(published[n], SubSeq(repository, 1, n))
    /\ attested # Absent => \E root \in Root : Attests(attested, Append(repository, root))

\* The keys that hold no role but root's under a root.
RootOnly(root) ==
    KeysOf(root, "root") \ UNION {KeysOf(root, name) : name \in RoleName \ {"root"}}

\* A released root was signed by at least the policy's threshold of keys that its
\* predecessor has for nothing else: the keys of the other roles, the online
\* timestamp key among them, never make up for a missing root signature.
OnlineKeysNeverRotate ==
    Rules[Publisher].require_disjoint_role_keys =>
        \A n \in 2..Len(repository) :
            Cardinality(Metadata[repository[n]].signers \intersect RootOnly(repository[n - 1]))
                >= Rules[Publisher].minimum_root_threshold
===============================================================================
