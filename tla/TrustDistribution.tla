-------------------------- MODULE TrustDistribution --------------------------
(***************************************************************************)
(* Consumers of the published trust roots (trust_distribution.py and its   *)
(* CLI, one run of it each): a consumer takes the bootstrap root and the   *)
(* publication manifest from the channel that the publisher selected, not  *)
(* from a mirror (ADR-0014, TUF_ROOT_CEREMONY.md), verifies the root       *)
(* history by the manifest, and fetches the consumer trust profile through *)
(* a TUF updater, while roots are rotated, profiles replaced and time      *)
(* passes.  Runs may share the directories they fetch into, at once or one *)
(* after the other.  One action per access to the repository or to a       *)
(* directory.                                                              *)
(*                                                                         *)
(* External, as fetch_consumer_trust_profile relies on python-tuf: making  *)
(* an Updater links root.json to the bootstrap root; refresh() asks for    *)
(* the next root until there is none, each verified by its predecessor and *)
(* itself, and links root.json to the last it trusts; its limit on the     *)
(* rotations of one walk is left out.  It refuses a last root that has     *)
(* expired, and reads the metadata of the other roles, which is fresh and  *)
(* signed by the keys of the newest root.  The target's hash is that of    *)
(* the targets metadata, and a repository with consistent snapshots serves *)
(* the content of that hash although the target has been replaced.         *)
(***************************************************************************)
EXTENDS TrustPublication

CONSTANTS
    Consumer,
    Directory,
    DirectoryOf,  \* where a consumer keeps metadata and targets
    Target,       \* contents of the target
    ProfileOf,    \* the profile_id of one that loads as a profile, or Absent
    ProfileId

ASSUME DistributionAssumption ==
    /\ DirectoryOf \in [Consumer -> Directory]
    /\ ProfileOf \in [Target -> ProfileId \union {Absent}]
    /\ Absent \notin Target /\ Absent \notin ProfileId

VARIABLES
    target,       \* the target in the repository, or Absent
    rootFile,     \* root.json of a directory, or Absent
    profileFile,  \* the target file of a directory, or Absent
    bootstrap,    \* the bootstrap root a consumer has pinned, or Absent
    stage,        \* where its fetch is
    trusted,      \* the root its updater trusts, or Absent
    info,         \* the target its updater has found, or Absent
    fetched,      \* the profile it has read, or Absent
    receipt,      \* the receipt of its fetch, or Absent
    failure,      \* why its fetch failed, or "none"
    alone         \* history: no other fetch has written to its directory meanwhile

directories == <<rootFile, profileFile>>
consumers == <<bootstrap, stage, trusted, info, fetched, receipt, failure, alone>>
trustVars == <<clock, publication, target, directories, consumers>>

Stage == {"start", "refresh", "metadata", "download", "read", "receipt", "done"}
Failure == {"none", "error", "UnsignedRoot", "UnsignedMetadata", "ExpiredMetadata",
            "FileNotFound", "HashMismatch", "ProfileRefused"}
Receipt == [bootstrap_root_digest : Root, trusted_root_version : Nat,
            target_hashes : Target, profile_digest : Target]

TrustTypeOK ==
    /\ clock \in 0..MaxTime
    /\ repository \in Seq(Root)
    /\ published \in Seq(PublicationRecord) /\ Len(published) = Len(repository)
    /\ attested \in PublicationRecord \union {Absent}
    /\ target \in Target \union {Absent}
    /\ rootFile \in [Directory -> Root \union {Absent}]
    /\ profileFile \in [Directory -> Target \union {Absent}]
    /\ bootstrap \in [Consumer -> Root \union {Absent}]
    /\ stage \in [Consumer -> Stage]
    /\ trusted \in [Consumer -> Root \union {Absent}]
    /\ info \in [Consumer -> Target \union {Absent}]
    /\ fetched \in [Consumer -> Target \union {Absent}]
    /\ receipt \in [Consumer -> Receipt \union {Absent}]
    /\ failure \in [Consumer -> Failure]
    /\ alone \in [Consumer -> BOOLEAN]

TrustInit ==
    /\ PublicationInit
    /\ target = Absent
    /\ rootFile = [d \in Directory |-> Absent]
    /\ profileFile = [d \in Directory |-> Absent]
    /\ bootstrap = [c \in Consumer |-> Absent]
    /\ stage = [c \in Consumer |-> "start"]
    /\ trusted = [c \in Consumer |-> Absent]
    /\ info = [c \in Consumer |-> Absent]
    /\ fetched = [c \in Consumer |-> Absent]
    /\ receipt = [c \in Consumer |-> Absent]
    /\ failure = [c \in Consumer |-> "none"]
    /\ alone = [c \in Consumer |-> FALSE]

-------------------------------------------------------------------------------
(* The repository and the bootstrap *)

Ceremony == PublicationNext /\ UNCHANGED <<target, directories, consumers>>

\* The targets role signs another profile.
PublishTarget(content) ==
    /\ repository # <<>>
    /\ content # target
    /\ target' = content
    /\ UNCHANGED <<clock, publication, directories, consumers>>

\* verify_main over the released roots, and the first of them as bootstrap.
PinBootstrap(c) ==
    /\ stage[c] = "start" /\ bootstrap[c] = Absent
    /\ \E n \in DOMAIN published, policy \in PublicationPolicy :
           VerifiedPublication(SubSeq(repository, 1, n), published[n], policy)
    /\ bootstrap' = [bootstrap EXCEPT ![c] = repository[1]]
    /\ UNCHANGED <<clock, publication, target, directories, stage, trusted, info, fetched,
                   receipt, failure, alone>>

-------------------------------------------------------------------------------
(* fetch_consumer_trust_profile *)

\* Writing to its directory, c is in the way of the others that are fetching into it.
Interfere(c) ==
    [o \in Consumer |->
        alone[o] /\ (o = c \/ stage[o] = "done" \/ DirectoryOf[o] # DirectoryOf[c])]

\* The fetch ends, by an exception or with the receipt.
EndFetch(c, reason) ==
    /\ stage' = [stage EXCEPT ![c] = "done"]
    /\ info' = [info EXCEPT ![c] = Absent]
    /\ fetched' = [fetched EXCEPT ![c] = Absent]
    /\ failure' = [failure EXCEPT ![c] = reason]

MakeUpdater(c) ==
    /\ stage[c] = "start"
    /\ bootstrap[c] # Absent
    /\ stage' = [stage EXCEPT ![c] = "refresh"]
    /\ trusted' = [trusted EXCEPT ![c] = bootstrap[c]]
    /\ rootFile' = [rootFile EXCEPT ![DirectoryOf[c]] = bootstrap[c]]
    /\ alone' = [Interfere(c) EXCEPT ![c] = TRUE]
    /\ UNCHANGED <<clock, publication, target, profileFile, bootstrap, info, fetched,
                   receipt, failure>>

\* root.json is linked to the root that the updater trusts.
Link(c) ==
    /\ rootFile' = [rootFile EXCEPT ![DirectoryOf[c]] = trusted[c]]
    /\ alone' = Interfere(c)

NextVersion(c) == Metadata[trusted[c]].version + 1

\* refresh: the next root is trusted when the one before it and it itself sign it.
NextRoot(c) ==
    /\ stage[c] = "refresh"
    /\ NextVersion(c) \in DOMAIN repository
    /\ LET root == repository[NextVersion(c)]
       IN IF SignedBy(root, trusted[c]) /\ SignedBy(root, root)
          THEN /\ trusted' = [trusted EXCEPT ![c] = root]
               /\ UNCHANGED <<rootFile, alone, stage, info, fetched, failure>>
          ELSE EndFetch(c, "UnsignedRoot") /\ Link(c) /\ UNCHANGED trusted
    /\ UNCHANGED <<clock, publication, target, profileFile, bootstrap, receipt>>

EndWalk(c) ==
    /\ stage[c] = "refresh"
    /\ NextVersion(c) \notin DOMAIN repository
    /\ Link(c)
    /\ stage' = [stage EXCEPT ![c] = "metadata"]
    /\ UNCHANGED <<clock, publication, target, profileFile, bootstrap, trusted, info, fetched,
                   receipt, failure>>

\* The rest of refresh, and get_targetinfo: a root released since the walk may have
\* other keys for the other roles.
ReadMetadata(c) ==
    /\ stage[c] = "metadata"
    /\ LET fresh == clock < Metadata[trusted[c]].expires
       IN \/ ~fresh /\ EndFetch(c, "ExpiredMetadata")
          \/ fresh /\ NextVersion(c) \in DOMAIN repository /\ EndFetch(c, "UnsignedMetadata")
          \/ fresh /\ target = Absent /\ EndFetch(c, "FileNotFound")
          \/ /\ fresh /\ target # Absent
             /\ stage' = [stage EXCEPT ![c] = "download"]
             /\ info' = [info EXCEPT ![c] = target]
             /\ UNCHANGED <<fetched, failure>>
    /\ UNCHANGED <<clock, publication, target, directories, bootstrap, trusted, receipt, alone>>

\* download_target
Download(c) ==
    /\ stage[c] = "download"
    /\ IF Metadata[trusted[c]].consistent_snapshot \/ target = info[c]
       THEN /\ profileFile' = [profileFile EXCEPT ![DirectoryOf[c]] = info[c]]
            /\ stage' = [stage EXCEPT ![c] = "read"]
            /\ alone' = Interfere(c)
            /\ UNCHANGED <<info, fetched, failure>>
       ELSE EndFetch(c, "HashMismatch") /\ UNCHANGED <<profileFile, alone>>
    /\ UNCHANGED <<clock, publication, target, rootFile, bootstrap, trusted, receipt>>

\* The file is read again, and must load as the profile expected.
ReadProfile(c) ==
    /\ stage[c] = "read"
    /\ LET profile == profileFile[DirectoryOf[c]]
       IN \E expected \in ProfileId \union {Absent} :
              IF ProfileOf[profile] # Absent /\ expected \in {Absent, ProfileOf[profile]}
              THEN /\ fetched' = [fetched EXCEPT ![c] = profile]
                   /\ stage' = [stage EXCEPT ![c] = "receipt"]
                   /\ UNCHANGED <<info, failure>>
              ELSE EndFetch(c, "ProfileRefused")
    /\ UNCHANGED <<clock, publication, target, directories, bootstrap, trusted, receipt,
                   alone>>

\* Defect: the version is that of the newest root released.
WriteReceipt_Newest(c) ==
    /\ stage[c] = "receipt"
    /\ receipt' = [receipt EXCEPT ![c] =
           [bootstrap_root_digest |-> bootstrap[c],
            trusted_root_version  |-> Len(repository),
            target_hashes         |-> info[c],
            profile_digest        |-> fetched[c]]]
    /\ EndFetch(c, "none")
    /\ UNCHANGED <<clock, publication, target, directories, bootstrap, trusted, alone>>

\* The version is that of root.json, read again.
WriteReceipt(c) ==
    /\ stage[c] = "receipt"
    /\ receipt' = [receipt EXCEPT ![c] =
           [bootstrap_root_digest |-> bootstrap[c],
            trusted_root_version  |-> Metadata[rootFile[DirectoryOf[c]]].version,
            target_hashes         |-> info[c],
            profile_digest        |-> fetched[c]]]
    /\ EndFetch(c, "none")
    /\ UNCHANGED <<clock, publication, target, directories, bootstrap, trusted, alone>>

\* Any other error: the network, the file system.  One in the walk links root.json
\* all the same, unless the process dies.
Fail(c) ==
    /\ stage[c] \notin {"start", "done"}
    /\ EndFetch(c, "error")
    /\ \/ stage[c] = "refresh" /\ Link(c)
       \/ UNCHANGED <<rootFile, alone>>
    /\ UNCHANGED <<clock, publication, target, profileFile, bootstrap, trusted, receipt>>

TrustNext ==
    \/ Ceremony
    \/ \E content \in Target : PublishTarget(content)
    \/ \E c \in Consumer :
           \/ PinBootstrap(c)
           \/ MakeUpdater(c)
           \/ NextRoot(c)
           \/ EndWalk(c)
           \/ ReadMetadata(c)
           \/ Download(c)
           \/ ReadProfile(c)
           \/ WriteReceipt(c)
           \/ Fail(c)

TrustSpec == TrustInit /\ [][TrustNext]_trustVars

-------------------------------------------------------------------------------
(* Properties *)

\* A release verifies for good: the manifest that came out of the ceremony is
\* verified at the time that it states, in whole seconds, so that neither the root's
\* expiry nor later releases disturb it, and a consumer can pin any release at any
\* time.
ReleasesStand ==
    \A n \in DOMAIN published :
        VerifiedPublication(SubSeq(repository, 1, n), published[n], Publisher)

\* A consumer at the first root gets through every later one: no fetch meets a root
\* it cannot verify; none metadata it cannot verify, unless a root was released after
\* its walk; none an expired root within the window that the root's manifest vouches
\* for; and none a target whose hash has changed meanwhile, when the policy asks for
\* consistent snapshots.
NoConsumerStranded ==
    \A c \in Consumer :
        /\ failure[c] # "UnsignedRoot"
        /\ failure[c] = "UnsignedMetadata" => NextVersion(c) \in DOMAIN repository
        /\ failure[c] = "ExpiredMetadata" =>
               clock >= published[Metadata[trusted[c]].version].manifest.verified_at
                            + Rules[Publisher].minimum_root_validity
        /\ Rules[Publisher].require_consistent_snapshot => failure[c] # "HashMismatch"

\* The receipt of a fetch that had its directories to itself names the root that its
\* updater trusted, a released one, and the profile whose hashes were verified, however
\* the repository has moved since.
LoneReceiptIsTrue ==
    \A c \in Consumer : receipt[c] # Absent /\ alone[c] =>
        /\ receipt[c].trusted_root_version = Metadata[trusted[c]].version
        /\ trusted[c] = repository[Metadata[trusted[c]].version]
        /\ receipt[c].profile_digest = receipt[c].target_hashes
        /\ receipt[c].bootstrap_root_digest = repository[1]

\* What a fetch knows of its updater and its files, and what it cannot know of the
\* files when another fetch wrote to them.
FetchFacts(c) ==
    LET dir == DirectoryOf[c]
    IN /\ bootstrap[c] # Absent => repository # <<>> /\ bootstrap[c] = repository[1]
       /\ trusted[c] # Absent => \E n \in 1..Len(repository) : trusted[c] = repository[n]
       /\ stage[c] # "start" =>
              bootstrap[c] # Absent /\ trusted[c] # Absent /\ rootFile[dir] # Absent
       /\ stage[c] \in {"download", "read", "receipt"} => info[c] # Absent
       /\ stage[c] = "read" => profileFile[dir] # Absent
       /\ stage[c] = "receipt" => fetched[c] # Absent
       /\ alone[c] /\ stage[c] \in {"metadata", "download", "read", "receipt"} =>
              rootFile[dir] = trusted[c]
       /\ alone[c] /\ stage[c] = "read" => profileFile[dir] = info[c]
       /\ alone[c] /\ stage[c] = "receipt" => fetched[c] = info[c]
       /\ failure[c] # "none" \/ receipt[c] # Absent => stage[c] = "done"

FetchInv == \A c \in Consumer : FetchFacts(c)

\* The inductive invariant.
TrustInv ==
    TrustTypeOK /\ ChainInv /\ FetchInv /\ NoConsumerStranded /\ LoneReceiptIsTrue
===============================================================================
