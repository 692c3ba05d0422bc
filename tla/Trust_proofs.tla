------------------------------ MODULE Trust_proofs ------------------------------
(***************************************************************************)
(* What consumers trust.  Certification packages, for any builders,        *)
(* verifiers, sources, profiles and number of builds: from a directory at  *)
(* rest exactly the certified ones are accepted, and what is accepted at   *)
(* all is trusted.  Trust roots, for any roots, policies, consumers,       *)
(* directories and profiles: what is released verifies and is walked for   *)
(* good, and only root keys rotate it.                                     *)
(***************************************************************************)
EXTENDS CertificationPackage, TrustDistribution, FiniteSetTheorems, TLAPS

-------------------------------------------------------------------------------
(* Manifests *)

LEMMA NormalizeTwice ==
    ASSUME NEW t \in Nat
    PROVE  Normalize(t) \in Nat /\ Normalize(Normalize(t)) = Normalize(t)
<1> DEFINE q == t \div Second
           m == t % Second
<1>1. t = Second * q + m /\ m \in Nat /\ q \in Nat
  BY Z3, PublicationAssumption
<1>2. Second * q \in Nat /\ (Second * q) % Second = 0
  BY <1>1, PublicationAssumption
<1> HIDE DEF q, m
<1>3. t - m = Second * q
  BY <1>1, <1>2
<1>4. t - m \in Nat /\ (t - m) % Second = 0
  BY <1>2, <1>3
<1>5. QED
  BY <1>4 DEF Normalize, m

\* What the publisher has checked of a root that a record attests.
LEMMA AttestedRoots ==
    ASSUME NEW history \in Seq(Root), NEW rec, Attests(rec, history)
    PROVE  /\ history # <<>>
           /\ \A n \in 1..Len(history) : VerifiedRoot(history, n)
           /\ MeetsPolicy(history[Len(history)], Publisher)
           /\ Metadata[history[Len(history)]].expires
                  >= rec.manifest.verified_at + Rules[Publisher].minimum_root_validity
           /\ rec \in PublicationRecord
           /\ rec.manifest.root_history = history
<1>1. PICK endpoint \in Endpoint, at \in 0..MaxTime :
          /\ rec = Record(ManifestOf(history, Publisher, endpoint, at))
          /\ Publishable(history, Publisher, endpoint, at)
  BY DEF Attests
<1>2. /\ VerifiedHistory(history)
      /\ MeetsPolicy(history[Len(history)], Publisher)
      /\ ValidThrough(history[Len(history)], Publisher, Normalize(at))
  BY <1>1 DEF Publishable, Current
<1>3. at \in Nat /\ Normalize(at) \in Nat
  BY NormalizeTwice, PublicationAssumption
<1>4. ManifestOf(history, Publisher, endpoint, at) \in PublicationManifest
  BY <1>3, PolicyAssumption DEF ManifestOf, PublicationManifest
<1>5. /\ rec \in PublicationRecord
      /\ rec.manifest.root_history = history
      /\ rec.manifest.verified_at = Normalize(at)
  BY <1>1, <1>4 DEF Record, PublicationRecord, ManifestOf
<1>6. QED
  BY <1>2, <1>5 DEF VerifiedHistory, ValidThrough

\* What was attested verifies by its own manifest: it is built again at a time in
\* whole seconds.
LEMMA AttestedVerifies ==
    ASSUME NEW history \in Seq(Root), NEW rec, Attests(rec, history)
    PROVE  VerifiedPublication(history, rec, Publisher)
<1>1. PICK endpoint \in Endpoint, at \in 0..MaxTime :
          /\ rec = Record(ManifestOf(history, Publisher, endpoint, at))
          /\ Publishable(history, Publisher, endpoint, at)
  BY DEF Attests
<1>2. Normalize(Normalize(at)) = Normalize(at)
  BY NormalizeTwice, PublicationAssumption
<1>3. /\ rec.manifest_digest = rec.manifest
      /\ rec.manifest.policy_digest = Publisher
      /\ rec.manifest.endpoint = endpoint
      /\ rec.manifest.verified_at = Normalize(at)
      /\ rec.manifest = ManifestOf(history, Publisher, endpoint, at)
  BY <1>1 DEF Record, ManifestOf
<1>4. Publishable(history, Publisher, endpoint, Normalize(at))
  BY <1>1, <1>2 DEF Publishable
<1>5. ManifestOf(history, Publisher, endpoint, Normalize(at)) = rec.manifest
  BY <1>2, <1>3 DEF ManifestOf
<1>6. QED
  BY <1>3, <1>4, <1>5 DEF VerifiedPublication

\* A history keeps its beginnings when a root is appended.
LEMMA Beginnings ==
    ASSUME NEW history \in Seq(Root), NEW root \in Root
    PROVE  LET longer == Append(history, root)
           IN /\ longer \in Seq(Root) /\ Len(longer) = Len(history) + 1
              /\ \A n \in 1..Len(history) : /\ longer[n] = history[n]
                                            /\ SubSeq(longer, 1, n) = SubSeq(history, 1, n)
              /\ SubSeq(longer, 1, Len(history) + 1) = longer
              /\ longer[Len(history) + 1] = root
OBVIOUS

LEMMA Beginning ==
    ASSUME NEW history \in Seq(Root), NEW n \in 1..Len(history)
    PROVE  LET first == SubSeq(history, 1, n)
           IN /\ first \in Seq(Root) /\ Len(first) = n
              /\ \A m \in 1..n : first[m] = history[m]
OBVIOUS

-------------------------------------------------------------------------------
(* The chain of released roots *)

\* What the publisher has checked of each released root.
LEMMA ReleasedRoots ==
    ASSUME TrustTypeOK, ChainInv, NEW n \in 1..Len(repository)
    PROVE  /\ repository[n] \in Root /\ published[n] \in PublicationRecord
           /\ Metadata[repository[n]].version = n
           /\ n > 1 => SignedBy(repository[n], repository[n - 1])
           /\ SignedBy(repository[n], repository[n])
           /\ MeetsPolicy(repository[n], Publisher)
           /\ Metadata[repository[n]].expires
                  >= published[n].manifest.verified_at + Rules[Publisher].minimum_root_validity
           /\ published[n].manifest.verified_at \in Nat
           /\ VerifiedPublication(SubSeq(repository, 1, n), published[n], Publisher)
<1> DEFINE first == SubSeq(repository, 1, n)
<1>1. repository \in Seq(Root)
  BY DEF TrustTypeOK
<1>2. first \in Seq(Root) /\ Len(first) = n /\ \A m \in 1..n : first[m] = repository[m]
  BY <1>1, Beginning
<1>3. Attests(published[n], first)
  BY DEF ChainInv
<1> HIDE DEF first
<1>4. /\ \A m \in 1..n : VerifiedRoot(first, m)
      /\ MeetsPolicy(first[n], Publisher)
      /\ Metadata[first[n]].expires
             >= published[n].manifest.verified_at + Rules[Publisher].minimum_root_validity
      /\ published[n] \in PublicationRecord
  BY <1>2, <1>3, AttestedRoots
<1>5. VerifiedPublication(first, published[n], Publisher)
  BY <1>2, <1>3, AttestedVerifies
<1>6. VerifiedRoot(first, n) /\ first[n] = repository[n]
  BY <1>2, <1>4
<1>7. /\ Metadata[repository[n]].version = n
      /\ n > 1 => SignedBy(repository[n], first[n - 1])
      /\ SignedBy(repository[n], repository[n])
  BY <1>6 DEF VerifiedRoot
<1>8. n > 1 => first[n - 1] = repository[n - 1]
  BY <1>2
<1>9. repository[n] \in Root /\ published[n].manifest.verified_at \in Nat
  BY <1>1, <1>4 DEF PublicationRecord, PublicationManifest
<1>10. QED
  BY <1>4, <1>5, <1>6, <1>7, <1>8, <1>9 DEF first

\* No step changes what was released, a release extends it, and time passes.
Growth ==
    /\ clock' \in 0..MaxTime /\ clock' >= clock
    /\ repository' \in Seq(Root)
    /\ published' \in Seq(PublicationRecord) /\ Len(published') = Len(repository')
    /\ attested' \in PublicationRecord \union {Absent}
    /\ Len(repository') >= Len(repository)
    /\ \A n \in 1..Len(repository) :
           /\ repository'[n] = repository[n] /\ published'[n] = published[n]
           /\ SubSeq(repository', 1, n) = SubSeq(repository, 1, n)
    /\ ChainInv'

LEMMA Grown ==
    ASSUME TrustTypeOK, ChainInv, [TrustNext]_trustVars
    PROVE  Growth
<1>1. /\ clock \in 0..MaxTime /\ repository \in Seq(Root)
      /\ published \in Seq(PublicationRecord) /\ Len(published) = Len(repository)
      /\ attested \in PublicationRecord \union {Absent}
  BY DEF TrustTypeOK
<1>2. CASE PassTime
  BY <1>1, <1>2, PublicationAssumption DEF PassTime, publication, ChainInv, Growth
<1>3. ASSUME NEW root \in Root, NEW endpoint \in Endpoint, NEW at \in 0..MaxTime,
             BuildManifest(root, endpoint, at)
      PROVE  Growth
  <2>1. Attests(attested', Append(repository, root))
    BY <1>3 DEF BuildManifest, Attests
  <2>2. attested' \in PublicationRecord
    BY <1>1, <2>1, Beginnings, AttestedRoots
  <2>3. QED
    BY <1>1, <1>3, <2>1, <2>2, PublicationAssumption DEF BuildManifest, ChainInv, Growth
<1>4. CASE Release
  <2>1. PICK root \in Root : Attests(attested, Append(repository, root))
    BY <1>4 DEF Release, ChainInv
  <2> DEFINE longer == Append(repository, root)
  <2>2. /\ longer \in Seq(Root) /\ Len(longer) = Len(repository) + 1
        /\ \A n \in 1..Len(repository) :
               longer[n] = repository[n] /\ SubSeq(longer, 1, n) = SubSeq(repository, 1, n)
        /\ SubSeq(longer, 1, Len(repository) + 1) = longer
        /\ longer[Len(repository) + 1] = root
    BY <1>1, Beginnings
  <2>3. attested \in PublicationRecord /\ attested.manifest.root_history = longer
    BY <2>1, <2>2, AttestedRoots
  <2> HIDE DEF longer
  <2>4. repository' = longer
    BY <1>4, <2>2, <2>3 DEF Release, Current, longer
  <2>5. /\ published' \in Seq(PublicationRecord) /\ Len(published') = Len(repository) + 1
        /\ \A n \in 1..Len(repository) : published'[n] = published[n]
        /\ published'[Len(repository) + 1] = attested
    BY <1>1, <1>4, <2>3 DEF Release
  <2>6. attested' = Absent /\ clock' = clock
    BY <1>4 DEF Release
  <2>7. ASSUME NEW n \in 1..Len(repository')
        PROVE  Attests(published'[n], SubSeq(repository', 1, n))
    <3>1. CASE n = Len(repository) + 1
      BY <2>1, <2>2, <2>4, <2>5, <3>1 DEF longer
    <3>2. CASE n # Len(repository) + 1
      <4>1. n \in 1..Len(repository)
        BY <1>1, <2>2, <2>4, <3>2
      <4>2. QED
        BY <2>2, <2>4, <2>5, <4>1 DEF ChainInv
    <3>3. QED
      BY <3>1, <3>2
  <2>8. ChainInv'
    BY <2>6, <2>7 DEF ChainInv
  <2>9. QED
    BY <1>1, <2>2, <2>4, <2>5, <2>6, <2>8, PublicationAssumption DEF Growth
<1>5. CASE UNCHANGED <<clock, publication>>
  BY <1>1, <1>5, PublicationAssumption DEF publication, ChainInv, Growth
<1>6. QED
  BY <1>2, <1>3, <1>4, <1>5
     DEF TrustNext, Ceremony, PublicationNext, PublishTarget, PinBootstrap, MakeUpdater, NextRoot,
         EndWalk, ReadMetadata, Download, ReadProfile, WriteReceipt, Fail, trustVars

-------------------------------------------------------------------------------
(* Consumers *)

\* What is pinned is the first released root.
LEMMA Pinned ==
    ASSUME TrustTypeOK, NEW c \in Consumer, PinBootstrap(c)
    PROVE  /\ repository # <<>> /\ repository[1] \in Root
           /\ bootstrap' = [bootstrap EXCEPT ![c] = repository[1]]
<1>1. \E n \in 1..Len(repository) : TRUE
  BY DEF PinBootstrap, TrustTypeOK
<1>2. repository \in Seq(Root)
  BY DEF TrustTypeOK
<1>3. QED
  BY <1>1, <1>2 DEF PinBootstrap

\* What an updater trusts is a released root.
LEMMA TrustedRoot ==
    ASSUME TrustTypeOK, ChainInv, FetchInv, NEW c \in Consumer, stage[c] # "start"
    PROVE  \E n \in 1..Len(repository) :
               /\ trusted[c] = repository[n] /\ trusted[c] \in Root
               /\ NextVersion(c) = n + 1
<1>1. PICK n \in 1..Len(repository) : trusted[c] = repository[n]
  BY DEF FetchInv, FetchFacts
<1>2. repository[n] \in Root /\ Metadata[repository[n]].version = n
  BY ReleasedRoots
<1>3. QED
  BY <1>1, <1>2 DEF NextVersion

\* The next root of a walk always verifies.
LEMMA NextTrusted ==
    ASSUME TrustTypeOK, ChainInv, FetchInv, NEW c \in Consumer, NextRoot(c)
    PROVE  \E n \in 1..Len(repository) :
               /\ repository[n] \in Root
               /\ trusted' = [trusted EXCEPT ![c] = repository[n]]
               /\ UNCHANGED <<rootFile, alone, stage, info, fetched, failure>>
<1>1. stage[c] = "refresh" /\ NextVersion(c) \in 1..Len(repository)
  BY DEF NextRoot, TrustTypeOK
<1>2. PICK n \in 1..Len(repository) : trusted[c] = repository[n] /\ NextVersion(c) = n + 1
  BY <1>1, TrustedRoot
<1> DEFINE next == repository[n + 1]
<1>3. n + 1 \in 1..Len(repository) /\ n \in Nat /\ n + 1 > 1 /\ (n + 1) - 1 = n
  BY <1>1, <1>2
<1>4. next \in Root /\ SignedBy(next, trusted[c]) /\ SignedBy(next, next)
  BY <1>2, <1>3, ReleasedRoots
<1>5. next = repository[NextVersion(c)]
  BY <1>2
<1> HIDE DEF next
<1>6. trusted' = [trusted EXCEPT ![c] = next]
      /\ UNCHANGED <<rootFile, alone, stage, info, fetched, failure>>
  BY <1>4, <1>5 DEF NextRoot
<1>7. QED
  BY <1>3, <1>4, <1>6 DEF next

\* Reading the metadata ends the fetch, or finds the target.
LEMMA MetadataRead ==
    ASSUME TrustTypeOK, ChainInv, FetchInv, NEW c \in Consumer, ReadMetadata(c)
    PROVE  \/ clock >= Metadata[trusted[c]].expires /\ EndFetch(c, "ExpiredMetadata")
           \/ NextVersion(c) \in DOMAIN repository /\ EndFetch(c, "UnsignedMetadata")
           \/ EndFetch(c, "FileNotFound")
           \/ /\ target # Absent
              /\ stage' = [stage EXCEPT ![c] = "download"]
              /\ info' = [info EXCEPT ![c] = target]
              /\ UNCHANGED <<fetched, failure>>
<1>1. trusted[c] \in Root
  BY TrustedRoot DEF ReadMetadata
<1>2. clock \in Nat /\ Metadata[trusted[c]].expires \in Nat
  BY <1>1, PublicationAssumption, RootAssumption DEF TrustTypeOK
<1>3. ~(clock < Metadata[trusted[c]].expires) => clock >= Metadata[trusted[c]].expires
  BY <1>2
<1>4. QED
  BY <1>3 DEF ReadMetadata

\* The roots of the directories, the stages and the rest keep their types.
LEMMA TypeStep ==
    ASSUME TrustTypeOK, ChainInv, FetchInv, [TrustNext]_trustVars
    PROVE  TrustTypeOK'
<1>1. Growth
  BY Grown
<1>2. /\ clock' \in 0..MaxTime
      /\ repository' \in Seq(Root)
      /\ published' \in Seq(PublicationRecord) /\ Len(published') = Len(repository')
      /\ attested' \in PublicationRecord \union {Absent}
  BY <1>1 DEF Growth
<1>3. CASE Ceremony \/ UNCHANGED trustVars
  BY <1>2, <1>3 DEF TrustTypeOK, Ceremony, directories, consumers, trustVars
<1>4. ASSUME NEW content \in Target, PublishTarget(content)
      PROVE  TrustTypeOK'
  BY <1>2, <1>4 DEF TrustTypeOK, PublishTarget, directories, consumers
<1>5. ASSUME NEW c \in Consumer, PinBootstrap(c)
      PROVE  TrustTypeOK'
  <2>1. bootstrap' \in [Consumer -> Root \union {Absent}]
    BY <1>5, Pinned DEF TrustTypeOK
  <2>2. QED
    BY <1>2, <1>5, <2>1 DEF TrustTypeOK, PinBootstrap, directories
<1>6. ASSUME NEW c \in Consumer, NEW reason \in Failure, EndFetch(c, reason)
      PROVE  /\ stage' \in [Consumer -> Stage]
             /\ info' \in [Consumer -> Target \union {Absent}]
             /\ fetched' \in [Consumer -> Target \union {Absent}]
             /\ failure' \in [Consumer -> Failure]
  BY <1>6 DEF TrustTypeOK, EndFetch, Stage
<1>7. ASSUME NEW c \in Consumer, stage[c] # "start", Link(c)
      PROVE  rootFile' \in [Directory -> Root \union {Absent}] /\ alone' \in [Consumer -> BOOLEAN]
  <2>1. trusted[c] \in Root
    BY <1>7, TrustedRoot
  <2>2. rootFile' \in [Directory -> Root \union {Absent}]
    BY <1>7, <2>1 DEF Link, TrustTypeOK
  <2>3. alone' \in [Consumer -> BOOLEAN]
    BY <1>7 DEF Link, Interfere, TrustTypeOK
  <2>4. QED
    BY <2>2, <2>3
<1>8. ASSUME NEW c \in Consumer, MakeUpdater(c)
      PROVE  TrustTypeOK'
  BY <1>2, <1>8, DistributionAssumption DEF TrustTypeOK, Stage, MakeUpdater, Interfere
<1>9. ASSUME NEW c \in Consumer, NextRoot(c)
      PROVE  TrustTypeOK'
  <2>1. trusted' \in [Consumer -> Root \union {Absent}]
        /\ UNCHANGED <<rootFile, alone, stage, info, fetched, failure>>
    BY <1>9, NextTrusted DEF TrustTypeOK
  <2>2. QED
    BY <1>2, <1>9, <2>1 DEF TrustTypeOK, NextRoot
<1>10. ASSUME NEW c \in Consumer, EndWalk(c)
      PROVE  TrustTypeOK'
  <2>1. stage[c] # "start" /\ Link(c)
    BY <1>10 DEF EndWalk
  <2>2. stage' \in [Consumer -> Stage]
    BY <1>10 DEF EndWalk, Stage, TrustTypeOK
  <2>3. QED
    BY <1>2, <1>7, <1>10, <2>1, <2>2 DEF TrustTypeOK, EndWalk
<1>11. ASSUME NEW c \in Consumer, ReadMetadata(c)
      PROVE  TrustTypeOK'
  <2>1. /\ stage' \in [Consumer -> Stage]
        /\ info' \in [Consumer -> Target \union {Absent}]
        /\ fetched' \in [Consumer -> Target \union {Absent}]
        /\ failure' \in [Consumer -> Failure]
    <3>1. {"ExpiredMetadata", "UnsignedMetadata", "FileNotFound"} \subseteq Failure
      BY DEF Failure
    <3>2. CASE \E reason \in {"ExpiredMetadata", "UnsignedMetadata", "FileNotFound"} :
                   EndFetch(c, reason)
      BY <3>1, <3>2, <1>6
    <3>3. CASE /\ target # Absent
               /\ stage' = [stage EXCEPT ![c] = "download"]
               /\ info' = [info EXCEPT ![c] = target]
               /\ UNCHANGED <<fetched, failure>>
      BY <3>3 DEF TrustTypeOK, Stage
    <3>4. QED
      BY <1>11, <3>2, <3>3, MetadataRead
  <2>2. QED
    BY <1>2, <1>11, <2>1 DEF TrustTypeOK, ReadMetadata, directories
<1>12. ASSUME NEW c \in Consumer, Download(c)
      PROVE  TrustTypeOK'
  <2>1. info[c] \in Target
    BY <1>12 DEF Download, FetchInv, FetchFacts, TrustTypeOK
  <2>2. alone' \in [Consumer -> BOOLEAN]
    BY <1>12 DEF Download, Interfere, TrustTypeOK
  <2>3. profileFile' \in [Directory -> Target \union {Absent}]
    BY <1>12, <2>1 DEF Download, TrustTypeOK
  <2>4. /\ stage' \in [Consumer -> Stage]
        /\ info' \in [Consumer -> Target \union {Absent}]
        /\ fetched' \in [Consumer -> Target \union {Absent}]
        /\ failure' \in [Consumer -> Failure]
    BY <1>12 DEF Download, EndFetch, TrustTypeOK, Stage, Failure
  <2>5. QED
    BY <1>2, <1>12, <2>2, <2>3, <2>4 DEF TrustTypeOK, Download
<1>13. ASSUME NEW c \in Consumer, ReadProfile(c)
      PROVE  TrustTypeOK'
  <2>1. profileFile[DirectoryOf[c]] \in Target
    BY <1>13, DistributionAssumption DEF ReadProfile, FetchInv, FetchFacts, TrustTypeOK
  <2>2. QED
    BY <1>2, <1>13, <2>1 DEF TrustTypeOK, ReadProfile, EndFetch, Stage, Failure, directories
<1>14. ASSUME NEW c \in Consumer, WriteReceipt(c)
       PROVE  TrustTypeOK'
  <2>1. /\ bootstrap[c] \in Root /\ rootFile[DirectoryOf[c]] \in Root
        /\ info[c] \in Target /\ fetched[c] \in Target
    <3>1. /\ bootstrap[c] # Absent /\ rootFile[DirectoryOf[c]] # Absent
          /\ info[c] # Absent /\ fetched[c] # Absent
      BY <1>14 DEF WriteReceipt, FetchInv, FetchFacts
    <3>2. DirectoryOf[c] \in Directory
      BY DistributionAssumption
    <3>3. QED
      BY <3>1, <3>2 DEF TrustTypeOK
  <2>2. Metadata[rootFile[DirectoryOf[c]]].version \in Nat
    BY <2>1, RootAssumption
  <2>3. receipt' \in [Consumer -> Receipt \union {Absent}]
    BY <1>14, <2>1, <2>2 DEF WriteReceipt, Receipt, TrustTypeOK
  <2>4. QED
    BY <1>2, <1>14, <2>3 DEF TrustTypeOK, WriteReceipt, EndFetch, Stage, Failure, directories
<1>15. ASSUME NEW c \in Consumer, Fail(c)
       PROVE  TrustTypeOK'
  <2>1. stage[c] # "start" /\ EndFetch(c, "error") /\ "error" \in Failure
    BY <1>15 DEF Fail, Failure
  <2>2. Link(c) \/ UNCHANGED <<rootFile, alone>>
    BY <1>15 DEF Fail
  <2>3. rootFile' \in [Directory -> Root \union {Absent}] /\ alone' \in [Consumer -> BOOLEAN]
    BY <1>7, <2>1, <2>2 DEF TrustTypeOK
  <2>4. /\ stage' \in [Consumer -> Stage]
        /\ info' \in [Consumer -> Target \union {Absent}]
        /\ fetched' \in [Consumer -> Target \union {Absent}]
        /\ failure' \in [Consumer -> Failure]
    BY <1>6, <2>1
  <2>5. QED
    BY <1>2, <1>15, <2>3, <2>4 DEF TrustTypeOK, Fail
<1>16. QED
  BY <1>3, <1>4, <1>5, <1>8, <1>9, <1>10, <1>11, <1>12, <1>13, <1>14, <1>15 DEF TrustNext

\* What a fetch knows stays true whoever takes a step.
LEMMA FetchStep ==
    ASSUME TrustTypeOK, ChainInv, FetchInv, [TrustNext]_trustVars, NEW o \in Consumer
    PROVE  FetchFacts(o)'
<1>1. /\ Growth
      /\ FetchFacts(o)
      /\ repository \in Seq(Root) /\ repository' \in Seq(Root)
      /\ DirectoryOf[o] \in Directory
  BY Grown, DistributionAssumption DEF FetchInv, Growth, TrustTypeOK
<1>2. /\ repository # <<>> => repository' # <<>> /\ repository'[1] = repository[1]
      /\ \A n \in 1..Len(repository) :
             n \in 1..Len(repository') /\ repository'[n] = repository[n]
  BY <1>1 DEF Growth
<1>3. CASE Ceremony \/ (\E content \in Target : PublishTarget(content)) \/ UNCHANGED trustVars
  <2>1. UNCHANGED <<directories, consumers>>
    BY <1>3 DEF Ceremony, PublishTarget, trustVars
  <2>2. QED
    BY <1>1, <1>2, <2>1 DEF FetchFacts, directories, consumers
<1>4. ASSUME NEW c \in Consumer, PinBootstrap(c)
      PROVE  FetchFacts(o)'
  <2>1. bootstrap' = [bootstrap EXCEPT ![c] = repository[1]]
    BY <1>4, Pinned
  <2>2. repository # <<>> /\ repository[1] \in Root
    BY <1>4, Pinned
  <2>3. bootstrap'[o] = (IF o = c THEN repository[1] ELSE bootstrap[o])
    BY <2>1 DEF TrustTypeOK
  <2>4. /\ stage[c] = "start"
        /\ UNCHANGED <<directories, repository, stage, trusted, info, fetched, receipt, failure,
                       alone>>
    BY <1>4 DEF PinBootstrap, publication
  <2>5. bootstrap[o] # Absent => bootstrap'[o] = repository[1]
    BY <1>1, <2>3 DEF FetchFacts
  <2>6. bootstrap'[o] = repository[1] \/ (o # c /\ bootstrap'[o] = bootstrap[o])
    BY <2>3
  <2>7. repository[1] # Absent
    BY <1>1, <2>2, RootAssumption
  <2>8. QED
    BY <1>1, <2>2, <2>4, <2>5, <2>6, <2>7 DEF FetchFacts, directories
<1>5. ASSUME NEW c \in Consumer, MakeUpdater(c)
      PROVE  FetchFacts(o)'
  <2>1. /\ stage[c] = "start" /\ bootstrap[c] # Absent
        /\ repository # <<>> /\ bootstrap[c] = repository[1]
    BY <1>5 DEF MakeUpdater, FetchInv, FetchFacts
  <2>2. /\ stage' = [stage EXCEPT ![c] = "refresh"]
        /\ trusted' = [trusted EXCEPT ![c] = bootstrap[c]]
        /\ rootFile' = [rootFile EXCEPT ![DirectoryOf[c]] = bootstrap[c]]
        /\ alone' = [Interfere(c) EXCEPT ![c] = TRUE]
        /\ UNCHANGED <<repository, profileFile, bootstrap, info, fetched, receipt, failure>>
    BY <1>5 DEF MakeUpdater, publication
  <2>3. rootFile'[DirectoryOf[o]] # Absent \/ rootFile'[DirectoryOf[o]] = rootFile[DirectoryOf[o]]
    BY <1>1, <2>1, <2>2 DEF TrustTypeOK
  <2>4. CASE o = c
    <3>1. /\ stage'[o] = "refresh" /\ trusted'[o] = repository[1]
          /\ rootFile'[DirectoryOf[o]] = repository[1]
      BY <1>1, <2>1, <2>2, <2>4 DEF TrustTypeOK
    <3>2. 1 \in 1..Len(repository)
      BY <1>1, <2>1
    <3>3. failure[o] = "none" /\ receipt[o] = Absent
      BY <1>1, <2>1, <2>4 DEF FetchFacts
    <3>4. QED
      BY <1>1, <2>1, <2>2, <2>4, <3>1, <3>2, <3>3 DEF FetchFacts
  <2>5. CASE o # c
    <3>1. stage'[o] = stage[o] /\ trusted'[o] = trusted[o]
      BY <2>2, <2>5 DEF TrustTypeOK
    <3>2. alone'[o] => alone[o] /\ (stage[o] = "done" \/ DirectoryOf[o] # DirectoryOf[c])
      BY <2>2, <2>5 DEF Interfere, TrustTypeOK
    <3>3. DirectoryOf[o] # DirectoryOf[c] => rootFile'[DirectoryOf[o]] = rootFile[DirectoryOf[o]]
      BY <1>1, <2>2 DEF TrustTypeOK
    <3>4. QED
      BY <1>1, <2>2, <2>3, <3>1, <3>2, <3>3 DEF FetchFacts
  <2>6. QED
    BY <2>4, <2>5
<1>6. ASSUME NEW c \in Consumer, stage[c] # "start", Link(c)
      PROVE  /\ o = c => rootFile'[DirectoryOf[o]] = trusted[o] /\ alone'[o] = alone[o]
             /\ alone'[o] =>
                    alone[o] /\ (o = c \/ stage[o] = "done" \/ DirectoryOf[o] # DirectoryOf[c])
             /\ DirectoryOf[o] # DirectoryOf[c] =>
                    rootFile'[DirectoryOf[o]] = rootFile[DirectoryOf[o]]
             /\ \/ rootFile'[DirectoryOf[o]] # Absent
                \/ rootFile'[DirectoryOf[o]] = rootFile[DirectoryOf[o]]
  <2>1. trusted[c] # Absent
    BY <1>6 DEF FetchInv, FetchFacts
  <2>2. rootFile'[DirectoryOf[o]]
        = (IF DirectoryOf[o] = DirectoryOf[c] THEN trusted[c] ELSE rootFile[DirectoryOf[o]])
    BY <1>1, <1>6 DEF Link, TrustTypeOK
  <2>3. alone'[o] =
            (alone[o] /\ (o = c \/ stage[o] = "done" \/ DirectoryOf[o] # DirectoryOf[c]))
    BY <1>6 DEF Link, Interfere
  <2>4. alone[o] \in BOOLEAN
    BY DEF TrustTypeOK
  <2>5. QED
    BY <2>1, <2>2, <2>3, <2>4
<1>7. ASSUME NEW c \in Consumer, NEW reason \in Failure, EndFetch(c, reason)
      PROVE  /\ o = c => stage'[o] = "done"
             /\ o # c => /\ stage'[o] = stage[o] /\ info'[o] = info[o]
                         /\ fetched'[o] = fetched[o] /\ failure'[o] = failure[o]
  BY <1>7 DEF EndFetch, TrustTypeOK
<1>8. ASSUME NEW c \in Consumer, NextRoot(c)
      PROVE  FetchFacts(o)'
  <2>1. PICK n \in 1..Len(repository) :
            /\ repository[n] \in Root
            /\ trusted' = [trusted EXCEPT ![c] = repository[n]]
            /\ UNCHANGED <<rootFile, alone, stage, info, fetched, failure>>
    BY <1>8, NextTrusted
  <2>2. /\ stage[c] = "refresh"
        /\ UNCHANGED <<repository, profileFile, bootstrap, receipt>>
    BY <1>8 DEF NextRoot, publication
  <2>3. trusted'[o] = (IF o = c THEN repository[n] ELSE trusted[o])
    BY <2>1 DEF TrustTypeOK
  <2>4. repository[n] # Absent
    BY <2>1, RootAssumption
  <2>5. CASE o = c
    BY <1>1, <2>1, <2>2, <2>3, <2>4, <2>5 DEF FetchFacts
  <2>6. CASE o # c
    BY <1>1, <2>1, <2>2, <2>3, <2>6 DEF FetchFacts
  <2>7. QED
    BY <2>5, <2>6
<1>9. ASSUME NEW c \in Consumer, EndWalk(c)
      PROVE  FetchFacts(o)'
  <2>1. /\ stage[c] = "refresh" /\ stage[c] # "start" /\ Link(c)
        /\ stage' = [stage EXCEPT ![c] = "metadata"]
        /\ UNCHANGED <<repository, profileFile, bootstrap, trusted, info, fetched, receipt, failure>>
    BY <1>9 DEF EndWalk, publication
  <2>2. stage'[o] = (IF o = c THEN "metadata" ELSE stage[o])
    BY <2>1 DEF TrustTypeOK
  <2>3. CASE o = c
    <3>1. rootFile'[DirectoryOf[o]] = trusted[o] /\ trusted[o] # Absent
      BY <1>1, <1>6, <2>1, <2>3 DEF FetchFacts
    <3>2. QED
      BY <1>1, <2>1, <2>2, <2>3, <3>1 DEF FetchFacts
  <2>4. CASE o # c
    BY <1>1, <1>6, <2>1, <2>2, <2>4 DEF FetchFacts
  <2>5. QED
    BY <2>3, <2>4
<1>10. ASSUME NEW c \in Consumer, ReadMetadata(c)
      PROVE  FetchFacts(o)'
  <2>1. /\ stage[c] = "metadata" /\ receipt[c] = Absent /\ failure[c] = "none"
        /\ UNCHANGED <<repository, rootFile, profileFile, bootstrap, trusted, receipt, alone>>
    BY <1>10 DEF ReadMetadata, publication, directories, FetchInv, FetchFacts
  <2>2. CASE \E reason \in {"ExpiredMetadata", "UnsignedMetadata", "FileNotFound"} :
                 EndFetch(c, reason)
    <3>1. {"ExpiredMetadata", "UnsignedMetadata", "FileNotFound"} \subseteq Failure
      BY DEF Failure
    <3>2. /\ o = c => stage'[o] = "done"
          /\ o # c => /\ stage'[o] = stage[o] /\ info'[o] = info[o]
                      /\ fetched'[o] = fetched[o] /\ failure'[o] = failure[o]
      BY <1>7, <2>2, <3>1
    <3>3. QED
      BY <1>1, <2>1, <3>2 DEF FetchFacts
  <2>3. CASE /\ target # Absent
             /\ stage' = [stage EXCEPT ![c] = "download"]
             /\ info' = [info EXCEPT ![c] = target]
             /\ UNCHANGED <<fetched, failure>>
    <3>1. /\ stage'[o] = (IF o = c THEN "download" ELSE stage[o])
          /\ info'[o] = (IF o = c THEN target ELSE info[o])
      BY <2>3 DEF TrustTypeOK
    <3>2. QED
      BY <1>1, <2>1, <2>3, <3>1 DEF FetchFacts
  <2>4. QED
    BY <1>10, <2>2, <2>3, MetadataRead
<1>11. ASSUME NEW c \in Consumer, Download(c)
      PROVE  FetchFacts(o)'
  <2>1. /\ stage[c] = "download" /\ info[c] # Absent /\ receipt[c] = Absent
        /\ UNCHANGED <<repository, rootFile, bootstrap, trusted, receipt>>
    BY <1>11 DEF Download, publication, FetchInv, FetchFacts
  <2>2. CASE EndFetch(c, "HashMismatch") /\ UNCHANGED <<profileFile, alone>>
    <3>1. /\ o = c => stage'[o] = "done"
          /\ o # c => /\ stage'[o] = stage[o] /\ info'[o] = info[o]
                      /\ fetched'[o] = fetched[o] /\ failure'[o] = failure[o]
      BY <2>2 DEF EndFetch, TrustTypeOK
    <3>2. QED
      BY <1>1, <2>1, <2>2, <3>1 DEF FetchFacts
  <2>3. CASE /\ profileFile' = [profileFile EXCEPT ![DirectoryOf[c]] = info[c]]
             /\ stage' = [stage EXCEPT ![c] = "read"]
             /\ alone' = Interfere(c)
             /\ UNCHANGED <<info, fetched, failure>>
    <3>1. /\ o = c => stage'[o] = "read" /\ profileFile'[DirectoryOf[o]] = info[o] /\ alone'[o] = alone[o]
          /\ o # c => /\ stage'[o] = stage[o]
                      /\ alone'[o] => /\ alone[o]
                                      /\ stage[o] = "done" \/ DirectoryOf[o] # DirectoryOf[c]
      BY <1>1, <2>3 DEF Interfere, TrustTypeOK
    <3>2. /\ DirectoryOf[o] # DirectoryOf[c] =>
                 profileFile'[DirectoryOf[o]] = profileFile[DirectoryOf[o]]
          /\ \/ profileFile'[DirectoryOf[o]] # Absent
             \/ profileFile'[DirectoryOf[o]] = profileFile[DirectoryOf[o]]
      BY <1>1, <2>1, <2>3 DEF TrustTypeOK
    <3>3. QED
      BY <1>1, <2>1, <2>3, <3>1, <3>2 DEF FetchFacts
  <2>4. QED
    BY <1>11, <2>2, <2>3 DEF Download
<1>12. ASSUME NEW c \in Consumer, ReadProfile(c)
      PROVE  FetchFacts(o)'
  <2>1. /\ stage[c] = "read" /\ profileFile[DirectoryOf[c]] # Absent
        /\ receipt[c] = Absent /\ failure[c] = "none"
        /\ alone[c] => profileFile[DirectoryOf[c]] = info[c]
        /\ UNCHANGED <<repository, rootFile, profileFile, bootstrap, trusted, receipt, alone>>
    BY <1>12 DEF ReadProfile, publication, directories, FetchInv, FetchFacts
  <2>2. \/ EndFetch(c, "ProfileRefused")
        \/ /\ fetched' = [fetched EXCEPT ![c] = profileFile[DirectoryOf[c]]]
           /\ stage' = [stage EXCEPT ![c] = "receipt"]
           /\ UNCHANGED <<info, failure>>
    BY <1>12 DEF ReadProfile
  <2>3. CASE EndFetch(c, "ProfileRefused")
    <3>1. /\ o = c => stage'[o] = "done"
          /\ o # c => /\ stage'[o] = stage[o] /\ info'[o] = info[o]
                      /\ fetched'[o] = fetched[o] /\ failure'[o] = failure[o]
      BY <2>3 DEF EndFetch, TrustTypeOK
    <3>2. QED
      BY <1>1, <2>1, <3>1 DEF FetchFacts
  <2>4. CASE /\ fetched' = [fetched EXCEPT ![c] = profileFile[DirectoryOf[c]]]
             /\ stage' = [stage EXCEPT ![c] = "receipt"]
             /\ UNCHANGED <<info, failure>>
    <3>1. /\ o = c => stage'[o] = "receipt" /\ fetched'[o] = profileFile[DirectoryOf[o]]
          /\ o # c => stage'[o] = stage[o] /\ fetched'[o] = fetched[o]
      BY <2>4 DEF TrustTypeOK
    <3>2. QED
      BY <1>1, <2>1, <2>4, <3>1 DEF FetchFacts
  <2>5. QED
    BY <2>2, <2>3, <2>4
<1>13. ASSUME NEW c \in Consumer, WriteReceipt(c)
      PROVE  FetchFacts(o)'
  <2>1. /\ stage[c] # "start"
        /\ UNCHANGED <<repository, rootFile, profileFile, bootstrap, trusted, alone>>
    BY <1>13 DEF WriteReceipt, publication, directories
  <2>2. o # c => receipt'[o] = receipt[o]
    BY <1>13 DEF WriteReceipt, TrustTypeOK
  <2>3. /\ o = c => stage'[o] = "done"
        /\ o # c => /\ stage'[o] = stage[o] /\ info'[o] = info[o]
                    /\ fetched'[o] = fetched[o] /\ failure'[o] = failure[o]
    BY <1>13 DEF WriteReceipt, EndFetch, TrustTypeOK
  <2>4. QED
    BY <1>1, <2>1, <2>2, <2>3 DEF FetchFacts
<1>14. ASSUME NEW c \in Consumer, Fail(c)
      PROVE  FetchFacts(o)'
  <2>1. /\ stage[c] # "start"
        /\ UNCHANGED <<repository, profileFile, bootstrap, trusted, receipt>>
    BY <1>14 DEF Fail, publication
  <2>2. "error" \in Failure /\ EndFetch(c, "error")
    BY <1>14 DEF Fail, Failure
  <2>3. /\ o = c => stage'[o] = "done"
        /\ o # c => /\ stage'[o] = stage[o] /\ info'[o] = info[o]
                    /\ fetched'[o] = fetched[o] /\ failure'[o] = failure[o]
    BY <1>7, <2>2
  <2>4. CASE UNCHANGED <<rootFile, alone>>
    BY <1>1, <2>1, <2>3, <2>4 DEF FetchFacts
  <2>5. CASE Link(c)
    <3>1. CASE o = c
      BY <1>1, <1>6, <2>1, <2>3, <2>5, <3>1 DEF FetchFacts
    <3>2. CASE o # c
      BY <1>1, <1>6, <2>1, <2>3, <2>5, <3>2 DEF FetchFacts
    <3>3. QED
      BY <3>1, <3>2
  <2>6. QED
    BY <1>14, <2>4, <2>5 DEF Fail
<1>15. QED
  BY <1>3, <1>4, <1>5, <1>8, <1>9, <1>10, <1>11, <1>12, <1>13, <1>14 DEF TrustNext

\* A step fails a fetch for a reason that its policy allows, and a fetch that failed
\* stays failed for that reason.
LEMMA StrandedStep ==
    ASSUME TrustTypeOK, ChainInv, FetchInv, NoConsumerStranded, [TrustNext]_trustVars,
           NEW o \in Consumer
    PROVE  /\ failure'[o] # "UnsignedRoot"
           /\ failure'[o] = "UnsignedMetadata" => NextVersion(o)' \in DOMAIN repository'
           /\ failure'[o] = "ExpiredMetadata" =>
                  clock' >= published'[Metadata[trusted'[o]].version].manifest.verified_at
                                + Rules[Publisher].minimum_root_validity
           /\ Rules[Publisher].require_consistent_snapshot => failure'[o] # "HashMismatch"
<1> DEFINE due(n) == published[n].manifest.verified_at + Rules[Publisher].minimum_root_validity
<1>1. /\ \A n \in 1..Len(repository) : published'[n] = published[n]
      /\ clock' >= clock /\ clock \in Nat /\ clock' \in Nat
      /\ DOMAIN repository \subseteq DOMAIN repository'
  BY Grown, PublicationAssumption DEF Growth, TrustTypeOK
<1>2. \A n \in 1..Len(repository) : due(n) \in Nat /\ Metadata[repository[n]].version = n
  <2>1. Rules[Publisher].minimum_root_validity \in Nat
    BY PolicyAssumption
  <2>2. QED
    BY <2>1, ReleasedRoots
<1>3. /\ failure[o] # "UnsignedRoot"
      /\ failure[o] = "UnsignedMetadata" => NextVersion(o) \in DOMAIN repository
      /\ failure[o] = "ExpiredMetadata" => clock >= due(Metadata[trusted[o]].version)
      /\ Rules[Publisher].require_consistent_snapshot => failure[o] # "HashMismatch"
  BY DEF NoConsumerStranded
<1>4. CASE failure'[o] \in {"none", "error", "FileNotFound", "ProfileRefused"}
  BY <1>4
<1>5. CASE UNCHANGED <<failure[o], trusted[o]>>
  <2>1. CASE failure[o] = "ExpiredMetadata"
    <3>1. trusted[o] # Absent
      BY <2>1 DEF FetchInv, FetchFacts
    <3>2. PICK n \in 1..Len(repository) : trusted[o] = repository[n]
      BY <3>1 DEF FetchInv, FetchFacts
    <3>3. Metadata[trusted[o]].version = n /\ due(n) \in Nat /\ clock >= due(n)
      BY <1>2, <1>3, <2>1, <3>2
    <3>4. QED
      BY <1>1, <1>5, <2>1, <3>3
  <2>2. CASE failure[o] # "ExpiredMetadata"
    BY <1>1, <1>3, <1>5, <2>2 DEF NextVersion
  <2>3. QED
    BY <2>1, <2>2
<1>6. ASSUME ReadMetadata(o)
      PROVE  \/ failure'[o] \in {"none", "FileNotFound"}
             \/ failure'[o] = "UnsignedMetadata" /\ NextVersion(o)' \in DOMAIN repository'
             \/ /\ failure'[o] = "ExpiredMetadata"
                /\ clock' >= published'[Metadata[trusted'[o]].version].manifest.verified_at
                                 + Rules[Publisher].minimum_root_validity
  <2>1. failure[o] = "none" /\ UNCHANGED <<clock, repository, trusted>> /\ stage[o] # "start"
    BY <1>6 DEF ReadMetadata, publication, FetchInv, FetchFacts
  <2>2. PICK n \in 1..Len(repository) : trusted[o] = repository[n]
    BY <2>1, TrustedRoot
  <2>3. /\ Metadata[trusted[o]].version = n /\ Metadata[trusted[o]].expires >= due(n)
        /\ Metadata[trusted[o]].expires \in Nat /\ due(n) \in Nat /\ published'[n] = published[n]
    BY <1>1, <1>2, <2>2, ReleasedRoots, RootAssumption
  <2>4. CASE clock >= Metadata[trusted[o]].expires /\ EndFetch(o, "ExpiredMetadata")
    <3>1. failure'[o] = "ExpiredMetadata"
      BY <2>4 DEF EndFetch, TrustTypeOK
    <3>2. clock' >= due(n)
      <4> HIDE DEF due
      <4>1. QED
        BY <1>1, <2>1, <2>3, <2>4
    <3>3. QED
      BY <2>1, <2>3, <3>1, <3>2
  <2>5. CASE NextVersion(o) \in DOMAIN repository /\ EndFetch(o, "UnsignedMetadata")
    BY <2>1, <2>5 DEF EndFetch, TrustTypeOK, NextVersion
  <2>6. CASE EndFetch(o, "FileNotFound")
    BY <2>6 DEF EndFetch, TrustTypeOK
  <2>7. QED
    BY <1>6, <2>1, <2>4, <2>5, <2>6, MetadataRead
<1>7. ASSUME Download(o)
      PROVE  \/ failure'[o] = "none"
             \/ failure'[o] = "HashMismatch" /\ ~Rules[Publisher].require_consistent_snapshot
  <2>1. failure[o] = "none" /\ trusted[o] # Absent
    BY <1>7 DEF Download, FetchInv, FetchFacts
  <2>2. PICK n \in 1..Len(repository) : trusted[o] = repository[n]
    BY <2>1 DEF FetchInv, FetchFacts
  <2>3. MeetsPolicy(trusted[o], Publisher)
    BY <2>2, ReleasedRoots
  <2>4. Rules[Publisher].require_consistent_snapshot =>
            Metadata[trusted[o]].consistent_snapshot
    BY <2>3 DEF MeetsPolicy
  <2>5. CASE ~Metadata[trusted[o]].consistent_snapshot /\ EndFetch(o, "HashMismatch")
    BY <2>4, <2>5 DEF EndFetch, TrustTypeOK
  <2>6. CASE UNCHANGED failure
    BY <2>1, <2>6
  <2>7. QED
    BY <1>7, <2>5, <2>6 DEF Download
<1>8. ASSUME ReadProfile(o) \/ WriteReceipt(o) \/ Fail(o)
      PROVE  failure'[o] \in {"none", "error", "ProfileRefused"}
  <2>1. failure[o] = "none"
    BY <1>8 DEF ReadProfile, WriteReceipt, Fail, FetchInv, FetchFacts
  <2>2. QED
    BY <1>8, <2>1 DEF ReadProfile, WriteReceipt, Fail, EndFetch, TrustTypeOK
<1>9. ASSUME MakeUpdater(o) \/ NextRoot(o) \/ EndWalk(o)
      PROVE  failure'[o] = "none"
  <2>1. failure[o] = "none"
    BY <1>9 DEF MakeUpdater, NextRoot, EndWalk, FetchInv, FetchFacts
  <2>2. UNCHANGED failure
    BY <1>9, NextTrusted DEF MakeUpdater, EndWalk
  <2>3. QED
    BY <2>1, <2>2
<1>10. ASSUME NEW c \in Consumer, c # o,
              \/ MakeUpdater(c) \/ NextRoot(c) \/ EndWalk(c) \/ ReadMetadata(c)
              \/ Download(c) \/ ReadProfile(c) \/ WriteReceipt(c) \/ Fail(c)
       PROVE  UNCHANGED <<failure[o], trusted[o]>>
  <2>1. CASE NextRoot(c) \/ EndWalk(c) \/ ReadMetadata(c)
    BY <1>10, <2>1 DEF NextRoot, EndWalk, ReadMetadata, EndFetch, TrustTypeOK
  <2>2. CASE MakeUpdater(c) \/ Download(c) \/ ReadProfile(c) \/ WriteReceipt(c) \/ Fail(c)
    BY <1>10, <2>2
       DEF MakeUpdater, Download, ReadProfile, WriteReceipt, Fail, EndFetch, TrustTypeOK
  <2>3. QED
    BY <1>10, <2>1, <2>2
<1>11. CASE \/ Ceremony \/ (\E content \in Target : PublishTarget(content))
            \/ (\E c \in Consumer : PinBootstrap(c)) \/ UNCHANGED trustVars
  <2>1. UNCHANGED <<failure[o], trusted[o]>>
    BY <1>11 DEF Ceremony, PublishTarget, PinBootstrap, consumers, trustVars
  <2>2. QED
    BY <1>5, <2>1
<1>12. QED
  BY <1>4, <1>5, <1>6, <1>7, <1>8, <1>9, <1>10, <1>11 DEF TrustNext

LEMMA ReceiptStep ==
    ASSUME TrustTypeOK, ChainInv, FetchInv, LoneReceiptIsTrue, [TrustNext]_trustVars,
           NEW o \in Consumer, receipt'[o] # Absent, alone'[o]
    PROVE  /\ receipt'[o].trusted_root_version = Metadata[trusted'[o]].version
           /\ trusted'[o] = repository'[Metadata[trusted'[o]].version]
           /\ receipt'[o].profile_digest = receipt'[o].target_hashes
           /\ receipt'[o].bootstrap_root_digest = repository'[1]
<1>1. /\ \A n \in 1..Len(repository) : repository'[n] = repository[n]
      /\ Len(repository) \in Nat /\ repository # <<>> => 1 \in 1..Len(repository)
  BY Grown DEF Growth, TrustTypeOK
<1>2. \A n \in 1..Len(repository) : Metadata[repository[n]].version = n
  BY ReleasedRoots
<1>3. FetchFacts(o)
  BY DEF FetchInv
<1>4. CASE WriteReceipt(o)
  <2>1. /\ stage[o] = "receipt" /\ alone[o]
        /\ UNCHANGED <<repository, trusted>>
        /\ receipt'[o] = [bootstrap_root_digest |-> bootstrap[o],
                          trusted_root_version  |-> Metadata[rootFile[DirectoryOf[o]]].version,
                          target_hashes         |-> info[o],
                          profile_digest        |-> fetched[o]]
    BY <1>4 DEF WriteReceipt, publication, TrustTypeOK
  <2>2. /\ bootstrap[o] = repository[1] /\ rootFile[DirectoryOf[o]] = trusted[o]
        /\ fetched[o] = info[o]
        /\ \E n \in 1..Len(repository) : trusted[o] = repository[n]
    BY <1>3, <2>1 DEF FetchFacts
  <2>3. QED
    BY <1>2, <2>1, <2>2
<1>5. CASE UNCHANGED <<receipt[o], trusted[o]>> /\ (alone'[o] => alone[o])
  <2>1. /\ receipt[o] # Absent /\ alone[o]
        /\ receipt[o].trusted_root_version = Metadata[trusted[o]].version
        /\ receipt[o].profile_digest = receipt[o].target_hashes
        /\ receipt[o].bootstrap_root_digest = repository[1]
    BY <1>5 DEF LoneReceiptIsTrue
  <2>2. stage[o] # "start" /\ bootstrap[o] # Absent /\ repository # <<>>
    BY <1>3, <2>1 DEF FetchFacts
  <2>3. PICK n \in 1..Len(repository) : trusted[o] = repository[n]
    BY <1>3, <2>2 DEF FetchFacts
  <2>4. QED
    BY <1>1, <1>2, <1>5, <2>1, <2>2, <2>3
<1>6. ASSUME \/ MakeUpdater(o) \/ NextRoot(o) \/ EndWalk(o) \/ ReadMetadata(o)
             \/ Download(o) \/ ReadProfile(o) \/ Fail(o)
      PROVE  FALSE
  <2>1. receipt[o] = Absent
    BY <1>3, <1>6
       DEF MakeUpdater, NextRoot, EndWalk, ReadMetadata, Download, ReadProfile, Fail, FetchFacts
  <2>2. QED
    BY <1>6, <2>1 DEF MakeUpdater, NextRoot, EndWalk, ReadMetadata, Download, ReadProfile, Fail
<1>7. ASSUME NEW c \in Consumer, c # o,
             \/ MakeUpdater(c) \/ NextRoot(c) \/ EndWalk(c) \/ ReadMetadata(c)
             \/ Download(c) \/ ReadProfile(c) \/ WriteReceipt(c) \/ Fail(c)
      PROVE  UNCHANGED <<receipt[o], trusted[o]>> /\ (alone'[o] => alone[o])
  <2>1. UNCHANGED <<receipt[o], trusted[o]>>
    BY <1>7 DEF MakeUpdater, NextRoot, EndWalk, ReadMetadata, Download, ReadProfile, WriteReceipt,
                Fail, TrustTypeOK
  <2>2. alone'[o] => alone[o]
    <3>1. CASE NextRoot(c) \/ EndWalk(c) \/ ReadMetadata(c) \/ Fail(c)
      BY <1>7, <3>1 DEF NextRoot, EndWalk, ReadMetadata, Fail, Link, Interfere, TrustTypeOK
    <3>2. CASE MakeUpdater(c) \/ Download(c) \/ ReadProfile(c) \/ WriteReceipt(c)
      BY <1>7, <3>2 DEF MakeUpdater, Download, ReadProfile, WriteReceipt, Interfere, TrustTypeOK
    <3>3. QED
      BY <1>7, <3>1, <3>2
  <2>3. QED
    BY <2>1, <2>2
<1>8. CASE \/ Ceremony \/ (\E content \in Target : PublishTarget(content))
           \/ (\E c \in Consumer : PinBootstrap(c)) \/ UNCHANGED trustVars
  <2>1. UNCHANGED <<receipt[o], trusted[o], alone[o]>>
    BY <1>8 DEF Ceremony, PublishTarget, PinBootstrap, consumers, trustVars
  <2>2. QED
    BY <1>5, <2>1
<1>9. QED
  BY <1>4, <1>5, <1>6, <1>7, <1>8 DEF TrustNext

\* What consumers have pinned and fetched stays within the invariant, for any roots,
\* policies, consumers, directories and profiles.
THEOREM TrustInductive == TrustSpec => []TrustInv
<1>1. TrustInit => TrustInv
  <2>1. SUFFICES ASSUME TrustInit
                 PROVE  TrustInv
    OBVIOUS
  <2>2. TrustTypeOK
    BY <2>1, PublicationAssumption, DistributionAssumption
       DEF TrustInit, PublicationInit, TrustTypeOK, Stage, Failure
  <2>3. ChainInv
    BY <2>1 DEF TrustInit, PublicationInit, ChainInv
  <2>4. FetchInv
    BY <2>1 DEF TrustInit, PublicationInit, FetchInv, FetchFacts
  <2>5. NoConsumerStranded /\ LoneReceiptIsTrue
    BY <2>1 DEF TrustInit, NoConsumerStranded, LoneReceiptIsTrue
  <2>6. QED
    BY <2>2, <2>3, <2>4, <2>5 DEF TrustInv
<1>2. TrustInv /\ [TrustNext]_trustVars => TrustInv'
  <2>1. SUFFICES ASSUME TrustInv, [TrustNext]_trustVars
                 PROVE  TrustInv'
    OBVIOUS
  <2>2. TrustTypeOK /\ ChainInv /\ FetchInv /\ NoConsumerStranded /\ LoneReceiptIsTrue
    BY <2>1 DEF TrustInv
  <2>3. TrustTypeOK' /\ ChainInv'
    BY <2>1, <2>2, TypeStep, Grown DEF Growth
  <2>4. FetchInv'
    BY <2>1, <2>2, FetchStep DEF FetchInv
  <2>5. NoConsumerStranded'
    BY <2>1, <2>2, StrandedStep DEF NoConsumerStranded
  <2>6. LoneReceiptIsTrue'
    BY <2>1, <2>2, ReceiptStep DEF LoneReceiptIsTrue
  <2>7. QED
    BY <2>3, <2>4, <2>5, <2>6 DEF TrustInv
<1>3. QED
  BY <1>1, <1>2, PTL DEF TrustSpec

\* The state of publisher, repository, directories and consumers keeps its types.
THEOREM TrustTypes == TrustSpec => []TrustTypeOK
<1>1. TrustInv => TrustTypeOK
  BY DEF TrustInv
<1>2. QED
  BY <1>1, TrustInductive, PTL

\* No rotation that the publisher checked strands a consumer.
THEOREM NobodyStranded == TrustSpec => []NoConsumerStranded
<1>1. TrustInv => NoConsumerStranded
  BY DEF TrustInv
<1>2. QED
  BY <1>1, TrustInductive, PTL

\* The receipt of an undisturbed fetch is true.
THEOREM LoneReceipts == TrustSpec => []LoneReceiptIsTrue
<1>1. TrustInv => LoneReceiptIsTrue
  BY DEF TrustInv
<1>2. QED
  BY <1>1, TrustInductive, PTL

\* Nothing that is released later, and no time that passes, disturbs a release
\* (verify_trust_root_publication).
THEOREM ReleasesVerify == TrustSpec => []ReleasesStand
<1>1. TrustInv => ReleasesStand
  <2>1. SUFFICES ASSUME TrustInv, NEW n \in DOMAIN published
                 PROVE  VerifiedPublication(SubSeq(repository, 1, n), published[n], Publisher)
    BY DEF ReleasesStand
  <2>2. TrustTypeOK /\ ChainInv /\ n \in 1..Len(repository)
    BY <2>1 DEF TrustInv, TrustTypeOK
  <2>3. QED
    BY <2>2, ReleasedRoots
<1>2. QED
  BY <1>1, TrustInductive, PTL

\* Under a policy of disjoint keys only root keys rotate a root: each released root is
\* signed by a threshold of its predecessor's root keys, which hold no other role.
THEOREM RootKeysRotate == TrustSpec => []OnlineKeysNeverRotate
<1>1. TrustInv => OnlineKeysNeverRotate
  <2>1. SUFFICES ASSUME TrustInv, Rules[Publisher].require_disjoint_role_keys,
                        NEW n \in 2..Len(repository)
                 PROVE  Cardinality(Metadata[repository[n]].signers
                                        \intersect RootOnly(repository[n - 1]))
                            >= Rules[Publisher].minimum_root_threshold
    BY DEF OnlineKeysNeverRotate
  <2> DEFINE old == repository[n - 1]
             rootSigners == Metadata[repository[n]].signers \intersect KeysOf(old, "root")
  <2>2. TrustTypeOK /\ ChainInv /\ Len(repository) \in Nat
    BY <2>1 DEF TrustInv, TrustTypeOK
  <2>3. n \in 1..Len(repository) /\ n > 1 /\ n - 1 \in 1..Len(repository)
    BY <2>2
  <2>4. SignedBy(repository[n], old) /\ MeetsPolicy(old, Publisher) /\ old \in Root
        /\ repository[n] \in Root
    BY <2>2, <2>3, ReleasedRoots
  <2> HIDE DEF old
  <2>5. RootOnly(old) = KeysOf(old, "root")
    <3>1. RoleKeysDisjoint(old)
      BY <2>1, <2>4 DEF MeetsPolicy
    <3>2. "root" \in RoleName
      BY DEF RoleName
    <3>3. \A name \in RoleName \ {"root"} :
              KeysOf(old, "root") \intersect KeysOf(old, name) = {}
      BY <3>1, <3>2 DEF RoleKeysDisjoint
    <3>4. QED
      BY <3>3 DEF RootOnly
  <2>6. Cardinality(rootSigners) >= Metadata[old].roles["root"].threshold
    BY <2>4 DEF SignedBy, KeysOf
  <2>7. Metadata[old].roles["root"].threshold >= Rules[Publisher].minimum_root_threshold
    BY <2>4 DEF MeetsPolicy
  <2>8. Cardinality(rootSigners) \in Nat
    <3>1. IsFiniteSet(rootSigners)
      BY <2>4, RootAssumption, FS_Subset
    <3>2. QED
      BY <3>1, FS_CardinalityType
  <2>9. Metadata[old].roles["root"].threshold \in Nat
        /\ Rules[Publisher].minimum_root_threshold \in Nat
    BY <2>4, RootAssumption, PolicyAssumption DEF RoleName
  <2>10. Cardinality(rootSigners) >= Rules[Publisher].minimum_root_threshold
    BY <2>6, <2>7, <2>8, <2>9
  <2>11. QED
    BY <2>5, <2>10 DEF old
<1>2. QED
  BY <1>1, TrustInductive, PTL

-------------------------------------------------------------------------------
(* Certification packages *)

USE PackageAssumption

-------------------------------------------------------------------------------
(* The orders, and the contents of packages *)

LEMMA Orders ==
    /\ Key = {"artifact", "statement", "statement_bundle", "policy", "svr", "svr_bundle"}
    /\ \A i \in 1..6 : CopyOrder[i] \in Key /\ CheckOrder[i] \in Key
    /\ \A i \in 1..4 : LoadOrder[i] \in Key
    /\ \A key \in Key : (\E i \in 1..6 : CopyOrder[i] = key) /\ (\E i \in 1..6 : CheckOrder[i] = key)
    /\ \A i, j \in 1..6 : CopyOrder[i] = CopyOrder[j] => i = j
    /\ \A i, j \in 1..4 : LoadOrder[i] = LoadOrder[j] => i = j
<1>1. 1..6 = {1, 2, 3, 4, 5, 6} /\ 1..4 = {1, 2, 3, 4}
  OBVIOUS
<1>2. QED
  BY <1>1 DEF Key, CopyOrder, CheckOrder, LoadOrder

LEMMA SourceContent ==
    ASSUME NEW s \in Source, NEW key \in Key
    PROVE  s.files[key] \in Content /\ s.files[key] # None /\ s.files[key] # Torn
  BY DEF Content

\* The equal contents of a record are decided on equally.
LEMMA TrustReasonsOf ==
    ASSUME NEW p1, NEW p2, NEW a1, NEW a2, NEW statement, NEW context,
           p1.body = p2.body, a1.body = a2.body, a1.artifact_digest = a2.artifact_digest
    PROVE  /\ StatementOf(a1) = StatementOf(a2)
           /\ TrustReasons(p1, a1, statement, context) = TrustReasons(p2, a2, statement, context)
<1>1. ValidRecord(a1) = ValidRecord(a2) /\ StatementOf(a1) = StatementOf(a2)
  BY DEF ValidRecord, StatementOf
<1>2. ValidStatement(a1, statement) = ValidStatement(a2, statement)
  BY <1>1 DEF ValidStatement
<1>3. /\ CheckoutMissing(a1) = CheckoutMissing(a2)
      /\ \A sha : CheckoutIs(a1, sha) = CheckoutIs(a2, sha)
  BY DEF CheckoutMissing, CheckoutIs
<1>4. QED
  BY <1>1, <1>2, <1>3 DEF TrustReasons

\* What acceptance establishes of the contents loaded.
Meets(pin, prof, content) ==
    LET signer == Context(pin.signer, TRUE)
        artifact == content["artifact"]
        statement == content["statement"]
        policy == content["policy"]
        svr == content["svr"]
    IN /\ artifact.artifact_digest = pin.artifact_digest /\ policy.body = pin.policy_digest
       /\ ValidStatement(artifact, statement)
       /\ ConsumerReasons(prof, policy, svr, signer) = {}
       /\ TrustReasons(policy, artifact, statement, signer) = {}
       /\ SvrReplays(policy, artifact, statement, signer, svr)

\* Without a reason against it, a package meets every condition.
LEMMA AcceptedMeets ==
    ASSUME NEW pin, NEW prof, NEW content, NEW stated \in BOOLEAN, NEW replayed \in BOOLEAN,
           Reasons(pin, prof, content, stated, replayed) = {}
    PROVE  stated /\ replayed /\ Meets(pin, prof, content)
<1> DEFINE against == Against(pin, prof, content, stated, replayed)
<1>1. \A reason \in DOMAIN against : ~against[reason]
  BY DEF Reasons
<1>2. DOMAIN against = {"ARTIFACT_BINDING_INVALID", "POLICY_BINDING_INVALID",
                       "STATEMENT_SIGNATURE_INVALID", "CONSUMER_EXPECTATION_REJECTED",
                       "TRUST_REPLAY_REJECTED", "SVR_REPLAY_INVALID", "SVR_SIGNATURE_INVALID",
                       "SIGNER_CONTEXT_MISMATCH"}
  BY DEF Against
<1>3. stated /\ replayed
  BY <1>1, <1>2 DEF Against
<1>4. Context(pin.signer, stated) = Context(pin.signer, TRUE)
  BY <1>3
<1>5. QED
  BY <1>1, <1>2, <1>3, <1>4 DEF Against, Meets

LEMMA MeetsTrusts ==
    ASSUME NEW pin, NEW prof, NEW content, Meets(pin, prof, content)
    PROVE  Trusts(pin)
<1> DEFINE a1 == content["artifact"]
           p1 == content["policy"]
           a2 == [artifact_digest |-> pin.artifact_digest, body |-> pin.artifact_digest]
           p2 == [policy_digest |-> pin.policy_digest, body |-> pin.policy_digest]
           signer == Context(pin.signer, TRUE)
<1>1. /\ a1.body = a2.body /\ a1.artifact_digest = a2.artifact_digest /\ p1.body = p2.body
      /\ TrustReasons(p1, a1, StatementOf(a1), signer) = {}
  BY DEF Meets, ValidStatement, ValidRecord
<1>2. TrustReasons(p2, a2, StatementOf(a2), signer) = {}
  <2> HIDE DEF a1, p1, a2, p2, signer
  <2>1. QED
    BY <1>1, TrustReasonsOf
<1>3. QED
  BY <1>2 DEF Trusts

LEMMA MeetsCertified ==
    ASSUME NEW pin, NEW prof, NEW content, Meets(pin, prof, content),
           \A i \in 1..4 : /\ content[LoadOrder[i]] = pin.files[LoadOrder[i]]
                           /\ Loads(LoadOrder[i], pin.files[LoadOrder[i]]),
           LET claims == Claims(pin.signer, prof)
           IN /\ Signs(pin.files["statement_bundle"], pin.files["statement"], claims)
              /\ Signs(pin.files["svr_bundle"], pin.files["svr"], claims)
    PROVE  Certified(pin, prof)
<1>1. LoadOrder[1] = "artifact" /\ LoadOrder[2] = "statement" /\ LoadOrder[3] = "policy"
      /\ LoadOrder[4] = "svr" /\ {1, 2, 3, 4} \subseteq 1..4
  BY DEF LoadOrder
<1>2. /\ content["artifact"] = pin.files["artifact"] /\ content["statement"] = pin.files["statement"]
      /\ content["policy"] = pin.files["policy"] /\ content["svr"] = pin.files["svr"]
      /\ PolicyLoads(pin.files["policy"])
      /\ \A i \in 1..4 : pin.files[LoadOrder[i]] \notin {None, Torn}
  BY <1>1 DEF Loads
<1>3. LET svr == content["svr"]
          signer == Context(pin.signer, TRUE)
      IN  svr = SvrOf(content["policy"], content["artifact"], {}, signer, svr.timeCreated)
  BY DEF Meets, SvrReplays
<1>4. content["artifact"].body = pin.artifact_digest
  BY DEF Meets, ValidStatement, ValidRecord
<1>5. QED
  BY <1>2, <1>3, <1>4 DEF Meets, Certified

-------------------------------------------------------------------------------
(* Builders keep the invariant *)

LEMMA Initial == Init => IndInv
<1> SUFFICES ASSUME Init PROVE IndInv
  OBVIOUS
<1>1. NoPins \in Pins
  BY DEF NoPins, Pins
<1>2. TypeOK
  BY <1>1 DEF Init, TypeOK
<1>3. SoundVerification /\ AcceptedIsTrusted
  BY DEF Init, SoundVerification, SoundFor, AcceptedIsTrusted, TrustedFor
<1>4. \A b \in Builder : BuildInv(b)
  BY DEF Init, BuildInv
<1>5. \A v \in Verifier : VerifyInv(v) /\ RestInv(v)
  BY DEF Init, VerifyInv, RestInv
<1>6. QED
  BY <1>2, <1>3, <1>4, <1>5 DEF IndInv

\* Verifications stand, whether a builder writes or only reads.
LEMMA VerificationsStand ==
    ASSUME IndInv,
           UNCHANGED <<vpc, read, profile, pinned, loaded, signed, decision, answered>>,
           Disturb \/ UNCHANGED <<files, quiet>>
    PROVE  /\ SoundVerification' /\ AcceptedIsTrusted'
           /\ \A v \in Verifier : VerifyInv(v)' /\ RestInv(v)'
<1> USE DEF IndInv
<1>1. AcceptedIsTrusted' /\ \A v \in Verifier : VerifyInv(v)'
  BY DEF AcceptedIsTrusted, TrustedFor, VerifyInv
<1>2. CASE Disturb
  BY <1>1, <1>2 DEF Disturb, SoundVerification, SoundFor, RestInv
<1>3. CASE UNCHANGED <<files, quiet>>
  BY <1>1, <1>3 DEF SoundVerification, SoundFor, RestInv
<1>4. QED
  BY <1>2, <1>3

\* Nobody removes a file, and a builder leaves the counts and pins of others.
LEMMA OthersBuild ==
    ASSUME IndInv, NEW b \in Builder,
           \A c \in Builder \ {b} :
               bpc'[c] = bpc[c] /\ source'[c] = source[c] /\ copied'[c] = copied[c]
               /\ pins'[c] = pins[c],
           \A key \in Key : files[key] # None => files'[key] # None
    PROVE  \A c \in Builder \ {b} : BuildInv(c)'
<1> SUFFICES ASSUME NEW c \in Builder \ {b} PROVE BuildInv(c)'
  OBVIOUS
<1>1. copied[c] \in 0..6 /\ (copied[c] < 6 => CopyOrder[copied[c] + 1] \in Key)
  BY Orders DEF IndInv, TypeOK
<1>2. BuildInv(c)
  BY DEF IndInv
<1>3. QED
  BY <1>1, <1>2 DEF BuildInv

LEMMA StartBuildKeeps == ASSUME IndInv, NEW b \in Builder, StartBuild(b) PROVE IndInv'
<1> USE DEF IndInv, StartBuild, directory, verifying
<1>1. TypeOK'
  BY DEF TypeOK
<1>2. \A c \in Builder : BuildInv(c)'
  <2>1. BuildInv(b)'
    BY DEF BuildInv, TypeOK
  <2>2. \A c \in Builder \ {b} : BuildInv(c)'
    BY OthersBuild DEF TypeOK
  <2>3. QED
    BY <2>1, <2>2
<1>3. QED
  BY <1>1, <1>2, VerificationsStand

\* The file that a builder is at.
LEMMA AtFile ==
    ASSUME IndInv, NEW b \in Builder, copied[b] # 6
    PROVE  /\ copied[b] \in 0..5 /\ CopyOrder[copied[b] + 1] \in Key
           /\ \A i \in 1..copied[b] : CopyOrder[i] # CopyOrder[copied[b] + 1]
  BY Orders DEF IndInv, TypeOK

LEMMA OpenKeeps == ASSUME IndInv, NEW b \in Builder, Open(b) PROVE IndInv'
<1> USE DEF IndInv, Open
<1>1. UNCHANGED <<vpc, read, profile, pinned, loaded, signed, decision, answered>> /\ Disturb
  OBVIOUS
<1>2. files' \in Pins /\ \A key \in Key : files[key] # None => files'[key] # None
  BY AtFile DEF TypeOK, Pins
<1>3. TypeOK'
  BY <1>2 DEF TypeOK, Disturb
<1>4. BuildInv(b)'
  <2>1. CASE copied[b] = 6
    BY <2>1 DEF BuildInv, TypeOK
  <2>2. CASE copied[b] # 6
    <3>1. files'[CopyOrder[copied[b] + 1]] = Torn
      BY <2>2, AtFile DEF TypeOK, Pins
    <3>2. QED
      BY <2>2, <3>1 DEF BuildInv, TypeOK
  <2>3. QED
    BY <2>1, <2>2
<1>5. \A c \in Builder \ {b} : BuildInv(c)'
  BY <1>2, OthersBuild DEF TypeOK
<1>6. QED
  BY <1>1, <1>3, <1>4, <1>5, VerificationsStand

LEMMA WriteKeeps == ASSUME IndInv, NEW b \in Builder, Write(b) PROVE IndInv'
<1> USE DEF IndInv, Write
<1> DEFINE key == CopyOrder[copied[b] + 1]
<1>1. UNCHANGED <<vpc, read, profile, pinned, loaded, signed, decision, answered>> /\ Disturb
  OBVIOUS
<1>2. key \in Key /\ source[b] \in Source
  BY AtFile DEF BuildInv, TypeOK
<1>3. source[b].files[key] \in Content /\ source[b].files[key] # None
  BY <1>2, SourceContent
<1>4. /\ files' \in Pins /\ files'[key] # None
      /\ \A k \in Key : files[k] # None => files'[k] # None
  BY <1>2, <1>3 DEF TypeOK, Pins
<1>5. TypeOK'
  BY <1>4 DEF TypeOK, Disturb
<1>6. BuildInv(b)'
  BY <1>4 DEF BuildInv, TypeOK
<1>7. \A c \in Builder \ {b} : BuildInv(c)'
  BY <1>4, OthersBuild DEF TypeOK
<1>8. QED
  BY <1>1, <1>5, <1>6, <1>7, VerificationsStand

LEMMA ReadDigestKeeps == ASSUME IndInv, NEW b \in Builder, ReadDigest(b) PROVE IndInv'
<1> USE DEF IndInv, ReadDigest, directory, verifying
<1> DEFINE key == CopyOrder[copied[b] + 1]
<1>1. copied[b] \in 0..5 /\ key \in Key /\ files[key] # None
  BY AtFile DEF BuildInv, TypeOK
<1>2. pins' = [pins EXCEPT ![b] = [pins[b] EXCEPT ![key] = files[key]]]
  BY DEF TypeOK
<1>3. pins'[b] \in Pins /\ pins'[b][key] = files[key]
      /\ \A k \in Key \ {key} : pins'[b][k] = pins[b][k]
  BY <1>1, <1>2 DEF TypeOK, Pins
<1>4. TypeOK'
  BY <1>1, <1>2, <1>3 DEF TypeOK
<1>5. BuildInv(b)'
  <2>1. copied'[b] = copied[b] + 1 /\ bpc'[b] = "open" /\ source'[b] = source[b] /\ source[b] # None
    BY DEF TypeOK, BuildInv
  <2>2. ASSUME NEW i \in 1..copied'[b] PROVE pins'[b][CopyOrder[i]] # None
    <3>1. CASE i = copied[b] + 1
      BY <1>1, <1>3, <3>1
    <3>2. CASE i \in 1..copied[b]
      <4>1. CopyOrder[i] \in Key /\ CopyOrder[i] # key
        BY <1>1, <3>2, AtFile, Orders
      <4>2. QED
        BY <1>3, <3>2, <4>1 DEF BuildInv
    <3>3. QED
      BY <1>1, <2>1, <3>1, <3>2
  <2>3. QED
    BY <2>1, <2>2 DEF BuildInv
<1>6. \A c \in Builder \ {b} : BuildInv(c)'
  BY <1>2, OthersBuild DEF TypeOK
<1>7. QED
  BY <1>4, <1>5, <1>6, VerificationsStand

LEMMA EndBuildKeeps ==
    ASSUME IndInv, NEW b \in Builder, EndBuild(b), UNCHANGED files
    PROVE  /\ \A c \in Builder : BuildInv(c)'
           /\ builds' \in 0..MaxBuilds
           /\ bpc' \in [Builder -> {"idle", "open", "write", "digest"}]
           /\ source' \in [Builder -> Source \union {None}]
           /\ copied' \in [Builder -> 0..6]
           /\ pins' \in [Builder -> Pins]
<1> USE DEF IndInv, EndBuild
<1>1. NoPins \in Pins
  BY DEF NoPins, Pins
<1>2. BuildInv(b)'
  BY DEF BuildInv, TypeOK
<1>3. \A c \in Builder \ {b} : BuildInv(c)'
  BY OthersBuild DEF TypeOK
<1>4. QED
  BY <1>1, <1>2, <1>3 DEF TypeOK

LEMMA WriteManifestKeeps == ASSUME IndInv, NEW b \in Builder, WriteManifest(b) PROVE IndInv'
<1> USE DEF IndInv, WriteManifest
<1>1. UNCHANGED <<vpc, read, profile, pinned, loaded, signed, decision, answered>> /\ Disturb
  OBVIOUS
<1>2. manifest' \in Manifest
  <2>1. source[b] \in Source
    BY DEF BuildInv, TypeOK
  <2>2. pins[b] \in [Key -> Content \union {Torn}]
    <3>1. ASSUME NEW key \in Key PROVE pins[b][key] # None
      BY Orders DEF BuildInv
    <3>2. QED
      BY <3>1 DEF TypeOK, Pins
  <2>3. QED
    BY <2>1, <2>2 DEF Manifest
<1>3. TypeOK'
  BY <1>2, EndBuildKeeps DEF TypeOK, Disturb
<1>4. QED
  BY <1>1, <1>3, EndBuildKeeps, VerificationsStand

LEMMA CrashBuildKeeps == ASSUME IndInv, NEW b \in Builder, CrashBuild(b) PROVE IndInv'
<1> USE DEF IndInv, CrashBuild, directory, verifying
<1>1. TypeOK'
  BY EndBuildKeeps DEF TypeOK
<1>2. QED
  BY <1>1, EndBuildKeeps, VerificationsStand

-------------------------------------------------------------------------------
(* Verifiers keep the invariant *)

OthersStand(v) ==
    \A w \in Verifier \ {v} :
        /\ vpc'[w] = vpc[w] /\ read'[w] = read[w] /\ profile'[w] = profile[w]
        /\ pinned'[w] = pinned[w] /\ loaded'[w] = loaded[w] /\ signed'[w] = signed[w]
        /\ decision'[w] = decision[w] /\ quiet'[w] = quiet[w]

\* The directory and the builds stand, and so do the verifications of others.
LEMMA OthersVerify ==
    ASSUME IndInv, NEW v \in Verifier, UNCHANGED <<directory, building>>, TypeOK',
           OthersStand(v), VerifyInv(v)', RestInv(v)', SoundFor(v)', TrustedFor(v)'
    PROVE  IndInv'
<1> USE DEF IndInv, directory, building, OthersStand
<1>1. \A b \in Builder : BuildInv(b)'
  BY DEF BuildInv
<1>2. ASSUME NEW w \in Verifier PROVE VerifyInv(w)' /\ RestInv(w)'
  <2>1. CASE w = v
    BY <2>1
  <2>2. CASE w # v
    <3>1. VerifyInv(w) /\ RestInv(w)
      OBVIOUS
    <3>2. QED
      BY <2>2, <3>1 DEF VerifyInv, RestInv
  <2>3. QED
    BY <2>1, <2>2
<1>3. ASSUME NEW w \in Verifier PROVE SoundFor(w)' /\ TrustedFor(w)'
  <2>1. CASE w = v
    BY <2>1
  <2>2. CASE w # v
    <3>1. SoundFor(w) /\ TrustedFor(w)
      BY DEF SoundVerification, AcceptedIsTrusted
    <3>2. QED
      BY <2>2, <3>1 DEF SoundFor, TrustedFor
  <2>3. QED
    BY <2>1, <2>2
<1>4. QED
  BY <1>1, <1>2, <1>3 DEF SoundVerification, AcceptedIsTrusted

\* A rejection ends a verification.
LEMMA RejectKeeps ==
    ASSUME IndInv, NEW v \in Verifier, Decide(v, "REJECT"), UNCHANGED <<directory, building>>,
           answered' \in [Verifier -> BOOLEAN]
    PROVE  IndInv'
<1> USE DEF IndInv, Decide, directory, building
<1>1. NoPins \in Pins
  BY DEF NoPins, Pins
<1>2. TypeOK'
  <2>1. UNCHANGED <<files, manifest, builds, bpc, source, copied, pins, profile, pinned, quiet>>
    OBVIOUS
  <2>2. /\ decision' \in [Verifier -> {"ACCEPT", "REJECT", None}]
        /\ vpc' \in [Verifier -> {"idle", "check", "load", "statement", "svr"}]
        /\ read' \in [Verifier -> 0..6]
    BY DEF TypeOK
  <2>3. loaded' \in [Verifier -> Pins] /\ signed' \in [Verifier -> BOOLEAN]
    BY <1>1 DEF TypeOK
  <2>4. QED
    BY <2>1, <2>2, <2>3 DEF TypeOK
<1>3. vpc'[v] = "idle" /\ read'[v] = 0 /\ decision'[v] = "REJECT"
  BY DEF TypeOK
<1>4. VerifyInv(v)' /\ RestInv(v)' /\ SoundFor(v)' /\ TrustedFor(v)'
  BY <1>3 DEF VerifyInv, RestInv, SoundFor, TrustedFor
<1>5. OthersStand(v)
  BY DEF TypeOK, OthersStand
<1>6. QED
  BY <1>2, <1>4, <1>5, OthersVerify

LEMMA StartVerificationKeeps ==
    ASSUME IndInv, NEW v \in Verifier, StartVerification(v) PROVE IndInv'
<1> USE DEF IndInv, StartVerification, directory, building
<1>1. TypeOK'
  BY DEF TypeOK
<1>2. decision'[v] # "ACCEPT"
  BY DEF TypeOK
<1>3. VerifyInv(v)'
  BY DEF TypeOK, VerifyInv
<1>4. RestInv(v)'
  <2>1. vpc'[v] \in {"idle", "check"} /\ read'[v] = 0
    BY DEF TypeOK, VerifyInv
  <2>2. QED
    BY <2>1 DEF RestInv
<1>5. SoundFor(v)' /\ TrustedFor(v)'
  BY <1>2 DEF SoundFor, TrustedFor
<1>6. OthersStand(v)
  BY DEF TypeOK, OthersStand
<1>7. QED
  BY <1>1, <1>3, <1>4, <1>5, <1>6, OthersVerify

LEMMA CheckFileKeeps == ASSUME IndInv, NEW v \in Verifier, CheckFile(v) PROVE IndInv'
<1> USE DEF CheckFile
<1> DEFINE key == CheckOrder[read[v] + 1]
           last == read[v] = 5
<1>1. read[v] \in 0..5 /\ key \in Key /\ decision[v] = None
  BY Orders DEF IndInv, VerifyInv, TypeOK
<1>2. CASE ~Intact(v, key)
  <2>1. Decide(v, "REJECT") /\ UNCHANGED <<directory, building, answered>>
    BY <1>2
  <2>2. QED
    BY <2>1, RejectKeeps DEF IndInv, TypeOK
<1>3. CASE Intact(v, key)
  <2> USE DEF IndInv, directory, building
  <2>1. /\ read' = [read EXCEPT ![v] = IF last THEN 0 ELSE @ + 1]
        /\ vpc' = [vpc EXCEPT ![v] = IF last THEN "load" ELSE @]
        /\ UNCHANGED <<directory, building, answered, profile, pinned, loaded, signed, decision, quiet>>
    BY <1>3
  <2>2. read'[v] = (IF last THEN 0 ELSE read[v] + 1) /\ vpc'[v] = (IF last THEN "load" ELSE "check")
    BY <2>1 DEF TypeOK
  <2>3. TypeOK'
    BY <1>1, <2>1 DEF TypeOK
  <2>4. VerifyInv(v)'
    BY <1>1, <2>1, <2>2 DEF VerifyInv
  <2>5. RestInv(v)'
    <3>1. ASSUME quiet[v] PROVE \A i \in 1..(read[v] + 1) :
              files[CheckOrder[i]] = pinned[v].files[CheckOrder[i]]
      BY <1>1, <1>3, <3>1 DEF RestInv, Intact
    <3>2. ASSUME quiet[v], last PROVE files = pinned[v].files
      <4>1. \A k \in Key : files[k] = pinned[v].files[k]
        BY <3>1, <3>2, Orders
      <4>2. pinned[v] \in Manifest
        BY DEF VerifyInv, TypeOK
      <4>3. files \in Pins /\ pinned[v].files \in [Key -> Content \union {Torn}]
        BY <4>2 DEF Manifest, TypeOK
      <4>4. QED
        BY <4>1, <4>3 DEF Pins
    <3>3. QED
      BY <1>1, <2>1, <2>2, <3>1, <3>2 DEF RestInv
  <2>6. SoundFor(v)' /\ TrustedFor(v)'
    BY <1>1, <2>1 DEF SoundFor, TrustedFor
  <2>7. OthersStand(v)
    BY <2>1 DEF OthersStand, TypeOK
  <2>8. QED
    BY <2>1, <2>3, <2>4, <2>5, <2>6, <2>7, OthersVerify
<1>4. QED
  BY <1>2, <1>3

LEMMA LoadFileKeeps == ASSUME IndInv, NEW v \in Verifier, LoadFile(v) PROVE IndInv'
<1> USE DEF LoadFile
<1> DEFINE key == LoadOrder[read[v] + 1]
           last == read[v] = 3
<1>1. read[v] \in 0..3 /\ key \in Key /\ decision[v] = None
  BY Orders DEF IndInv, VerifyInv, TypeOK
<1>2. CASE ~Loads(key, files[key])
  <2>1. Decide(v, "REJECT") /\ UNCHANGED <<directory, building, answered>>
    BY <1>2
  <2>2. QED
    BY <2>1, RejectKeeps DEF IndInv, TypeOK
<1>3. CASE Loads(key, files[key])
  <2> USE DEF IndInv, directory, building
  <2>1. /\ loaded' = [loaded EXCEPT ![v] = [loaded[v] EXCEPT ![key] = files[key]]]
        /\ read' = [read EXCEPT ![v] = IF last THEN 0 ELSE @ + 1]
        /\ vpc' = [vpc EXCEPT ![v] = IF last THEN "statement" ELSE @]
        /\ UNCHANGED <<directory, building, answered, profile, pinned, signed, decision, quiet>>
    BY <1>3 DEF TypeOK
  <2>2. read'[v] = (IF last THEN 0 ELSE read[v] + 1)
        /\ vpc'[v] = (IF last THEN "statement" ELSE "load")
    BY <2>1 DEF TypeOK
  <2>3. loaded'[v] \in Pins /\ loaded'[v][key] = files[key]
        /\ \A k \in Key \ {key} : loaded'[v][k] = loaded[v][k]
    BY <1>1, <2>1 DEF TypeOK, Pins
  <2>4. TypeOK'
    BY <1>1, <2>1, <2>3 DEF TypeOK
  <2>5. VerifyInv(v)'
    BY <1>1, <2>1, <2>2 DEF VerifyInv
  <2>6. RestInv(v)'
    <3>1. ASSUME quiet[v], NEW i \in 1..(read[v] + 1)
          PROVE  loaded'[v][LoadOrder[i]] = files[LoadOrder[i]]
                 /\ Loads(LoadOrder[i], files[LoadOrder[i]])
      <4>1. CASE i = read[v] + 1
        BY <1>3, <2>3, <4>1
      <4>2. CASE i \in 1..read[v]
        <5>1. LoadOrder[i] \in Key \ {key}
          BY <1>1, <4>2, Orders
        <5>2. QED
          BY <2>3, <3>1, <4>2, <5>1 DEF RestInv
      <4>3. QED
        BY <1>1, <4>1, <4>2
    <3>2. quiet[v] => files = pinned[v].files
      BY DEF RestInv
    <3>3. QED
      BY <1>1, <2>1, <2>2, <3>1, <3>2 DEF RestInv
  <2>7. SoundFor(v)' /\ TrustedFor(v)'
    BY <1>1, <2>1 DEF SoundFor, TrustedFor
  <2>8. OthersStand(v)
    BY <2>1 DEF OthersStand, TypeOK
  <2>9. QED
    BY <2>1, <2>4, <2>5, <2>6, <2>7, <2>8, OthersVerify
<1>4. QED
  BY <1>2, <1>3

LEMMA VerifyStatementKeeps ==
    ASSUME IndInv, NEW v \in Verifier, VerifyStatement(v) PROVE IndInv'
<1> USE DEF IndInv, VerifyStatement, directory, building
<1>1. PICK verified \in BOOLEAN :
          /\ Cosign(v, "statement", "statement_bundle", verified)
          /\ signed' = [signed EXCEPT ![v] = verified]
  OBVIOUS
<1>2. signed'[v] = verified /\ vpc'[v] = "svr" /\ decision[v] = None
  BY <1>1 DEF TypeOK, VerifyInv
<1>3. answered' \in [Verifier -> BOOLEAN]
  BY <1>1 DEF Cosign, TypeOK
<1>4. TypeOK'
  BY <1>1, <1>3 DEF TypeOK
<1>5. VerifyInv(v)'
  BY <1>2 DEF VerifyInv
<1>6. RestInv(v)'
  BY <1>1, <1>2 DEF RestInv, Cosign
<1>7. SoundFor(v)' /\ TrustedFor(v)'
  BY <1>2 DEF SoundFor, TrustedFor
<1>8. OthersStand(v)
  BY <1>1 DEF OthersStand, TypeOK
<1>9. QED
  BY <1>4, <1>5, <1>6, <1>7, <1>8, OthersVerify

LEMMA VerifySvrKeeps == ASSUME IndInv, NEW v \in Verifier, VerifySvr(v) PROVE IndInv'
<1>1. PICK verified \in BOOLEAN :
          /\ Cosign(v, "svr", "svr_bundle", verified)
          /\ Decide(v, IF Reasons(pinned[v], profile[v], loaded[v], signed[v], verified) = {}
                       THEN "ACCEPT" ELSE "REJECT")
  BY DEF VerifySvr
<1>2. answered' \in [Verifier -> BOOLEAN] /\ UNCHANGED <<directory, building>>
  BY <1>1 DEF VerifySvr, Cosign, IndInv, TypeOK
<1>3. CASE Reasons(pinned[v], profile[v], loaded[v], signed[v], verified) # {}
  <2>1. Decide(v, "REJECT")
    BY <1>1, <1>3
  <2>2. QED
    BY <1>2, <2>1, RejectKeeps
<1>4. CASE Reasons(pinned[v], profile[v], loaded[v], signed[v], verified) = {}
  <2>1. Decide(v, "ACCEPT") /\ signed[v] \in BOOLEAN
    BY <1>1, <1>4 DEF IndInv, TypeOK
  <2>2. signed[v] /\ verified /\ Meets(pinned[v], profile[v], loaded[v])
    BY <1>4, <2>1, AcceptedMeets
  <2>3. TypeOK' /\ OthersStand(v)
    <3>1. NoPins \in Pins
      BY DEF NoPins, Pins
    <3>2. UNCHANGED <<files, manifest, builds, bpc, source, copied, pins, profile, pinned, quiet>>
      BY <1>2, <2>1 DEF Decide, directory, building
    <3>3. /\ decision' \in [Verifier -> {"ACCEPT", "REJECT", None}]
          /\ vpc' \in [Verifier -> {"idle", "check", "load", "statement", "svr"}]
          /\ read' \in [Verifier -> 0..6]
          /\ loaded' \in [Verifier -> Pins] /\ signed' \in [Verifier -> BOOLEAN]
      BY <2>1, <3>1 DEF Decide, IndInv, TypeOK
    <3>4. OthersStand(v)
      BY <2>1 DEF Decide, OthersStand, IndInv, TypeOK
    <3>5. QED
      BY <1>2, <3>2, <3>3, <3>4 DEF IndInv, TypeOK
  <2>4. vpc'[v] = "idle" /\ read'[v] = 0 /\ pinned' = pinned /\ profile' = profile
        /\ quiet' = quiet /\ files' = files
    BY <1>2, <2>1 DEF Decide, directory, IndInv, TypeOK
  <2>5. VerifyInv(v)' /\ RestInv(v)'
    BY <2>4 DEF VerifyInv, RestInv
  <2>6. TrustedFor(v)'
    BY <2>2, <2>4, MeetsTrusts DEF TrustedFor
  <2>7. SoundFor(v)'
    <3>1. SUFFICES ASSUME quiet[v]
                   PROVE  files = pinned[v].files /\ Certified(pinned[v], profile[v])
      BY <2>4 DEF SoundFor
    <3>2. RestInv(v) /\ vpc[v] = "svr"
      BY DEF IndInv, VerifySvr
    <3>3. /\ files = pinned[v].files
          /\ \A i \in 1..4 : /\ loaded[v][LoadOrder[i]] = files[LoadOrder[i]]
                             /\ Loads(LoadOrder[i], files[LoadOrder[i]])
          /\ Signs(files["statement_bundle"], files["statement"],
                   Claims(pinned[v].signer, profile[v]))
      BY <2>2, <3>1, <3>2 DEF RestInv
    <3>4. Signs(files["svr_bundle"], files["svr"], Claims(pinned[v].signer, profile[v]))
      BY <1>1, <2>2 DEF Cosign
    <3>5. QED
      BY <2>2, <3>3, <3>4, MeetsCertified
  <2>8. QED
    BY <1>2, <2>3, <2>5, <2>6, <2>7, OthersVerify
<1>5. QED
  BY <1>3, <1>4

-------------------------------------------------------------------------------
(* Theorems *)

LEMMA StepKeeps == IndInv /\ [Next]_vars => IndInv'
<1> SUFFICES ASSUME IndInv, [Next]_vars PROVE IndInv'
  OBVIOUS
<1>1. ASSUME NEW b \in Builder,
             \/ StartBuild(b) \/ Open(b) \/ Write(b)
             \/ ReadDigest(b) \/ WriteManifest(b) \/ CrashBuild(b)
      PROVE  IndInv'
  BY <1>1, StartBuildKeeps, OpenKeeps, WriteKeeps, ReadDigestKeeps, WriteManifestKeeps,
     CrashBuildKeeps
<1>2. ASSUME NEW v \in Verifier,
             \/ StartVerification(v) \/ CheckFile(v) \/ LoadFile(v)
             \/ VerifyStatement(v) \/ VerifySvr(v)
      PROVE  IndInv'
  BY <1>2, StartVerificationKeeps, CheckFileKeeps, LoadFileKeeps, VerifyStatementKeeps,
     VerifySvrKeeps
<1>3. CASE UNCHANGED vars
  <2>1. UNCHANGED <<files, manifest, builds, bpc, source, copied, pins>>
        /\ UNCHANGED <<vpc, read, profile, pinned, loaded, signed, decision, quiet, answered>>
    BY <1>3 DEF vars, directory, building, verifying
  <2>2. TypeOK' /\ \A b \in Builder : BuildInv(b)'
    BY <2>1 DEF IndInv, TypeOK, BuildInv
  <2>3. QED
    BY <2>1, <2>2, VerificationsStand DEF IndInv
<1>4. QED
  BY <1>1, <1>2, <1>3 DEF Next

LEMMA Always == Spec => []IndInv
  BY Initial, StepKeeps, PTL DEF Spec

\* Every state has its type (certification_package.py: build and verify).
THEOREM TypeCorrect == Spec => []TypeOK
<1>1. IndInv => TypeOK
  BY DEF IndInv
<1>2. QED
  BY Always, <1>1, PTL

\* What verify_certification_package accepts from a directory at rest is certified,
\* and is what is in the directory.
THEOREM Sound == Spec => []SoundVerification
<1>1. IndInv => SoundVerification
  BY DEF IndInv
<1>2. QED
  BY Always, <1>1, PTL

\* Even of a directory that is rebuilt meanwhile, verify_certification_package accepts
\* only a record that is valid and trusted under the policy of the manifest.
THEOREM Trusted == Spec => []AcceptedIsTrusted
<1>1. IndInv => AcceptedIsTrusted
  BY DEF IndInv
<1>2. QED
  BY Always, <1>1, PTL

-------------------------------------------------------------------------------
(* Certified packages are accepted *)

\* The converse of MeetsCertified.
LEMMA CertifiedMeets ==
    ASSUME NEW pin, NEW prof, NEW content, Certified(pin, prof),
           \A i \in 1..4 : content[LoadOrder[i]] = pin.files[LoadOrder[i]]
    PROVE  Meets(pin, prof, content)
<1>1. LoadOrder[1] = "artifact" /\ LoadOrder[2] = "statement" /\ LoadOrder[3] = "policy"
      /\ LoadOrder[4] = "svr" /\ {1, 2, 3, 4} \subseteq 1..4
  BY DEF LoadOrder
<1>2. /\ content["artifact"] = pin.files["artifact"] /\ content["statement"] = pin.files["statement"]
      /\ content["policy"] = pin.files["policy"] /\ content["svr"] = pin.files["svr"]
  BY <1>1
<1>3. content["artifact"].artifact_digest = pin.artifact_digest
  BY <1>2 DEF Certified, ValidStatement, ValidRecord
<1>4. QED
  BY <1>2, <1>3 DEF Certified, Meets, SvrReplays

\* The converse of AcceptedMeets.
LEMMA MeetsAccepted ==
    ASSUME NEW pin, NEW prof, NEW content, Meets(pin, prof, content)
    PROVE  Reasons(pin, prof, content, TRUE, TRUE) = {}
<1> DEFINE against == Against(pin, prof, content, TRUE, TRUE)
<1>1. DOMAIN against = {"ARTIFACT_BINDING_INVALID", "POLICY_BINDING_INVALID",
                       "STATEMENT_SIGNATURE_INVALID", "CONSUMER_EXPECTATION_REJECTED",
                       "TRUST_REPLAY_REJECTED", "SVR_REPLAY_INVALID", "SVR_SIGNATURE_INVALID",
                       "SIGNER_CONTEXT_MISMATCH"}
  BY DEF Against
<1>2. /\ ~against["ARTIFACT_BINDING_INVALID"] /\ ~against["POLICY_BINDING_INVALID"]
      /\ ~against["STATEMENT_SIGNATURE_INVALID"] /\ ~against["CONSUMER_EXPECTATION_REJECTED"]
      /\ ~against["TRUST_REPLAY_REJECTED"] /\ ~against["SVR_REPLAY_INVALID"]
      /\ ~against["SVR_SIGNATURE_INVALID"] /\ ~against["SIGNER_CONTEXT_MISMATCH"]
  BY DEF Against, Meets
<1>3. QED
  BY <1>1, <1>2 DEF Reasons

\* A verification that neither moves nor is answered stays complete, whether its
\* directory is disturbed or not.
LEMMA CompleteStands ==
    ASSUME CompleteInv, NEW v \in Verifier,
           vpc'[v] = vpc[v], pinned'[v] = pinned[v], profile'[v] = profile[v],
           signed'[v] = signed[v], decision'[v] = decision[v], answered'[v] = answered[v],
           quiet'[v] => quiet[v] /\ files' = files
    PROVE  CompleteFor(v)' /\ AnswerInv(v)'
<1>1. CompleteFor(v) /\ AnswerInv(v)
  BY DEF CompleteInv, CompleteVerification
<1>2. QED
  BY <1>1 DEF CompleteFor, AnswerInv

\* A rejection leaves nothing to say of the first answer.
LEMMA RejectCompletes ==
    ASSUME IndInv, NEW v \in Verifier, Decide(v, "REJECT"), UNCHANGED files,
           quiet[v] /\ answered'[v] /\ files = pinned[v].files => ~Certified(pinned[v], profile[v])
    PROVE  CompleteFor(v)' /\ AnswerInv(v)'
<1>1. vpc'[v] = "idle" /\ UNCHANGED <<profile, pinned, quiet>>
  BY DEF Decide, IndInv, TypeOK
<1>2. QED
  BY <1>1 DEF CompleteFor, AnswerInv

\* An acceptance, or a step that decides nothing, rejects nothing.
LEMMA UndecidedCompletes ==
    ASSUME NEW v \in Verifier, decision'[v] # "REJECT", vpc'[v] # "svr"
    PROVE  CompleteFor(v)' /\ AnswerInv(v)'
  BY DEF CompleteFor, AnswerInv

LEMMA StartVerificationCompletes ==
    ASSUME IndInv, NEW v \in Verifier, StartVerification(v)
    PROVE  CompleteFor(v)' /\ AnswerInv(v)'
<1>1. vpc'[v] # "svr" /\ (decision'[v] = "REJECT" => pinned'[v] = None)
  BY DEF StartVerification, IndInv, TypeOK
<1>2. QED
  BY <1>1 DEF CompleteFor, AnswerInv

LEMMA CheckFileCompletes ==
    ASSUME IndInv, NEW v \in Verifier, CheckFile(v)
    PROVE  CompleteFor(v)' /\ AnswerInv(v)'
<1> DEFINE key == CheckOrder[read[v] + 1]
<1>1. read[v] \in 0..5 /\ key \in Key /\ decision[v] = None /\ pinned[v] \in Manifest
  BY Orders DEF CheckFile, IndInv, VerifyInv, TypeOK
<1>2. CASE Intact(v, key)
  <2>1. decision'[v] # "REJECT" /\ vpc'[v] # "svr"
    BY <1>1, <1>2 DEF CheckFile, IndInv, TypeOK
  <2>2. QED
    BY <2>1, UndecidedCompletes
<1>3. CASE ~Intact(v, key)
  <2>1. pinned[v].files[key] # None
    BY <1>1 DEF Manifest
  <2>2. files # pinned[v].files
    BY <1>3, <2>1 DEF Intact
  <2>3. Decide(v, "REJECT") /\ UNCHANGED files
    BY <1>3 DEF CheckFile, directory
  <2>4. QED
    BY <2>2, <2>3, RejectCompletes
<1>4. QED
  BY <1>2, <1>3

LEMMA LoadFileCompletes ==
    ASSUME IndInv, NEW v \in Verifier, LoadFile(v)
    PROVE  CompleteFor(v)' /\ AnswerInv(v)'
<1> DEFINE key == LoadOrder[read[v] + 1]
<1>1. read[v] \in 0..3 /\ decision[v] = None
  BY DEF LoadFile, IndInv, VerifyInv, TypeOK
<1>2. CASE Loads(key, files[key])
  <2>1. decision'[v] # "REJECT" /\ vpc'[v] # "svr"
    BY <1>1, <1>2 DEF LoadFile, IndInv, TypeOK
  <2>2. QED
    BY <2>1, UndecidedCompletes
<1>3. CASE ~Loads(key, files[key])
  <2>1. ASSUME Certified(pinned[v], profile[v])
        PROVE  Loads(key, pinned[v].files[key])
    <3>1. read[v] + 1 \in 1..4
      BY <1>1
    <3>2. QED
      BY <2>1, <3>1 DEF Certified, Loads
  <2>2. files = pinned[v].files => ~Certified(pinned[v], profile[v])
    BY <1>3, <2>1
  <2>3. Decide(v, "REJECT") /\ UNCHANGED files
    BY <1>3 DEF LoadFile, directory
  <2>4. QED
    BY <2>2, <2>3, RejectCompletes
<1>4. QED
  BY <1>2, <1>3

LEMMA VerifyStatementCompletes ==
    ASSUME IndInv, NEW v \in Verifier, VerifyStatement(v)
    PROVE  CompleteFor(v)' /\ AnswerInv(v)'
<1>1. PICK verified \in BOOLEAN :
          /\ Cosign(v, "statement", "statement_bundle", verified)
          /\ signed' = [signed EXCEPT ![v] = verified]
  BY DEF VerifyStatement
<1>2. signed'[v] = verified /\ decision'[v] # "REJECT"
      /\ UNCHANGED <<files, pinned, profile>>
  BY <1>1 DEF VerifyStatement, directory, IndInv, TypeOK, VerifyInv
<1>3. answered'[v] => verified = Signs(files["statement_bundle"], files["statement"],
                                       Claims(pinned[v].signer, profile[v]))
  BY <1>1 DEF Cosign, IndInv, TypeOK
<1>4. QED
  BY <1>2, <1>3 DEF CompleteFor, AnswerInv

\* With both answers, the reasons against a certified package are none.
LEMMA VerifySvrCompletes ==
    ASSUME IndInv, CompleteInv, NEW v \in Verifier, VerifySvr(v)
    PROVE  CompleteFor(v)' /\ AnswerInv(v)'
<1>1. PICK verified \in BOOLEAN :
          /\ Cosign(v, "svr", "svr_bundle", verified)
          /\ Decide(v, IF Reasons(pinned[v], profile[v], loaded[v], signed[v], verified) = {}
                       THEN "ACCEPT" ELSE "REJECT")
  BY DEF VerifySvr
<1>2. UNCHANGED files /\ vpc[v] = "svr"
  BY DEF VerifySvr, directory
<1>3. CASE Reasons(pinned[v], profile[v], loaded[v], signed[v], verified) = {}
  <2>1. decision'[v] # "REJECT" /\ vpc'[v] # "svr"
    BY <1>1, <1>3 DEF Decide, IndInv, TypeOK
  <2>2. QED
    BY <2>1, UndecidedCompletes
<1>4. CASE Reasons(pinned[v], profile[v], loaded[v], signed[v], verified) # {}
  <2>1. Decide(v, "REJECT")
    BY <1>1, <1>4
  <2>2. ASSUME quiet[v], answered'[v], files = pinned[v].files,
               Certified(pinned[v], profile[v])
        PROVE  FALSE
    <3>1. /\ answered[v]
          /\ verified = Signs(files["svr_bundle"], files["svr"],
                              Claims(pinned[v].signer, profile[v]))
      BY <1>1, <2>2 DEF Cosign, IndInv, TypeOK
    <3>2. signed[v] = Signs(files["statement_bundle"], files["statement"],
                            Claims(pinned[v].signer, profile[v]))
      BY <1>2, <2>2, <3>1 DEF CompleteInv, AnswerInv
    <3>3. verified = TRUE /\ signed[v] = TRUE
      BY <2>2, <3>1, <3>2 DEF Certified
    <3>4. \A i \in 1..4 : loaded[v][LoadOrder[i]] = files[LoadOrder[i]]
      BY <1>2, <2>2 DEF IndInv, RestInv
    <3>5. Meets(pinned[v], profile[v], loaded[v])
      BY <2>2, <3>4, CertifiedMeets
    <3>6. QED
      BY <1>4, <3>3, <3>5, MeetsAccepted
  <2>3. QED
    BY <1>2, <2>1, <2>2, RejectCompletes
<1>5. QED
  BY <1>3, <1>4

LEMMA CompleteStep == IndInv /\ CompleteInv /\ [Next]_vars => CompleteInv'
<1> SUFFICES ASSUME IndInv, CompleteInv, [Next]_vars PROVE CompleteInv'
  OBVIOUS
<1>1. SUFFICES ASSUME NEW v \in Verifier PROVE CompleteFor(v)' /\ AnswerInv(v)'
  BY DEF CompleteInv, CompleteVerification
<1>2. ASSUME NEW b \in Builder,
             \/ StartBuild(b) \/ Open(b) \/ Write(b)
             \/ ReadDigest(b) \/ WriteManifest(b) \/ CrashBuild(b)
      PROVE  CompleteFor(v)' /\ AnswerInv(v)'
  <2>1. /\ UNCHANGED <<vpc, profile, pinned, signed, decision, answered>>
        /\ Disturb \/ UNCHANGED <<files, quiet>>
    BY <1>2 DEF StartBuild, Open, Write, ReadDigest, WriteManifest, CrashBuild, directory, verifying
  <2>2. quiet'[v] => quiet[v] /\ files' = files
    BY <2>1 DEF Disturb
  <2>3. QED
    BY <2>1, <2>2, CompleteStands
<1>3. ASSUME NEW w \in Verifier,
             \/ StartVerification(w) \/ CheckFile(w) \/ LoadFile(w)
             \/ VerifyStatement(w) \/ VerifySvr(w)
      PROVE  CompleteFor(v)' /\ AnswerInv(v)'
  <2>1. CASE w = v
    BY <1>3, <2>1, StartVerificationCompletes, CheckFileCompletes, LoadFileCompletes,
       VerifyStatementCompletes, VerifySvrCompletes
  <2>2. CASE w # v
    <3>1. UNCHANGED files
      BY <1>3 DEF StartVerification, CheckFile, LoadFile, VerifyStatement, VerifySvr, directory
    <3>2. /\ vpc'[v] = vpc[v] /\ pinned'[v] = pinned[v] /\ profile'[v] = profile[v]
          /\ signed'[v] = signed[v] /\ decision'[v] = decision[v] /\ quiet'[v] = quiet[v]
      <4>1. CASE StartVerification(w)
        BY <2>2, <4>1 DEF StartVerification, IndInv, TypeOK
      <4>2. CASE CheckFile(w)
        BY <2>2, <4>2 DEF CheckFile, Decide, IndInv, TypeOK
      <4>3. CASE LoadFile(w)
        BY <2>2, <4>3 DEF LoadFile, Decide, IndInv, TypeOK
      <4>4. CASE VerifyStatement(w)
        BY <2>2, <4>4 DEF VerifyStatement, IndInv, TypeOK
      <4>5. CASE VerifySvr(w)
        BY <2>2, <4>5 DEF VerifySvr, Decide, IndInv, TypeOK
      <4>6. QED
        BY <1>3, <4>1, <4>2, <4>3, <4>4, <4>5
    <3>3. answered'[v] = answered[v]
      BY <1>3, <2>2 DEF StartVerification, CheckFile, LoadFile, VerifyStatement, VerifySvr, Cosign,
                        IndInv, TypeOK
    <3>4. QED
      BY <3>1, <3>2, <3>3, CompleteStands
  <2>3. QED
    BY <2>1, <2>2
<1>4. CASE UNCHANGED vars
  <2>1. UNCHANGED <<files, vpc, profile, pinned, signed, decision, quiet, answered>>
    BY <1>4 DEF vars, directory, verifying
  <2>2. QED
    BY <2>1, CompleteStands
<1>5. QED
  BY <1>2, <1>3, <1>4 DEF Next

\* verify_certification_package accepts every certified package in a directory at
\* rest, if cosign answers.
THEOREM Complete == Spec => []CompleteVerification
<1>1. Init => CompleteInv
  BY DEF Init, CompleteInv, CompleteVerification, CompleteFor, AnswerInv
<1>2. CompleteInv => CompleteVerification
  BY DEF CompleteInv
<1>3. Spec => []CompleteInv
  BY Always, <1>1, CompleteStep, PTL DEF Spec
<1>4. QED
  BY <1>2, <1>3, PTL
===============================================================================
