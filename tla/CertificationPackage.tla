------------------------- MODULE CertificationPackage -------------------------
(***************************************************************************)
(* A certification package is a directory: six files and a manifest that   *)
(* pins them (certification_package.py).  Builders write the files in      *)
(* place, one after the other, and the manifest last; verifiers read each  *)
(* file more than once.  One action per access to the directory: opening   *)
(* a file to write empties it.  Nothing locks the directory, and a builder *)
(* may crash anywhere.                                                     *)
(*                                                                         *)
(* Sources do not change while they are copied.  External: cosign reads a  *)
(* file and its bundle, and either finds the bundle to sign that file with *)
(* the claims expected, or not, or gives no answer in time.                *)
(***************************************************************************)
EXTENDS TrustPolicy

CONSTANTS
    Builder,
    Verifier,
    Source,     \* the packages that builders are asked for: files and a signer
    Profile,    \* the profiles of consumers
    Torn,       \* what a file that is open for writing holds
    MaxBuilds   \* bound: builds started

VARIABLES
    files,     \* the six files, None for one that is not there
    manifest,  \* manifest.json, or None
    builds,    \* builds started
    bpc,       \* where a builder is
    source,    \* the source of its build, or None
    copied,    \* the files it has copied
    pins,      \* their digests as it has read them
    vpc,       \* where a verifier is
    read,      \* the files it has read there
    profile,   \* the profile it verifies against
    pinned,    \* the manifest it has read, or None
    loaded,    \* the contents it has loaded
    signed,    \* cosign verified the statement
    decision,  \* the last decision of a verifier, or None
    quiet,     \* history: no write to the directory since it read the manifest
    answered   \* history: cosign has answered every time

directory == <<files, manifest>>
building == <<builds, bpc, source, copied, pins>>
verifying == <<vpc, read, profile, pinned, loaded, signed, decision, quiet, answered>>
vars == <<directory, building, verifying>>

\* The orders of sources, of the manifest (its keys are sorted), and of loading.
CopyOrder == <<"artifact", "statement", "statement_bundle", "policy", "svr", "svr_bundle">>
CheckOrder == <<"artifact", "policy", "statement", "statement_bundle", "svr", "svr_bundle">>
LoadOrder == <<"artifact", "statement", "policy", "svr">>
Key == {CopyOrder[i] : i \in 1..6}

Content == UNION {{s.files[key] : key \in Key} : s \in Source}
Pins == [Key -> Content \union {None, Torn}]
Manifest == [files : [Key -> Content \union {Torn}],
             artifact_digest : {s.files["artifact"].artifact_digest : s \in Source},
             policy_digest : {s.files["policy"].body : s \in Source},
             signer : {s.signer : s \in Source}]

ASSUME PackageAssumption ==
    /\ MaxBuilds \in Nat
    /\ None # Torn /\ None \notin {"ACCEPT", "REJECT"}
    /\ Content \intersect {None, Torn} = {} /\ Manifest \intersect {None, Torn} = {}
    /\ None \notin Source \union Profile

NoPins == [key \in Key |-> None]

TypeOK ==
    /\ files \in Pins
    /\ manifest \in Manifest \union {None, Torn}
    /\ builds \in 0..MaxBuilds
    /\ bpc \in [Builder -> {"idle", "open", "write", "digest"}]
    /\ source \in [Builder -> Source \union {None}]
    /\ copied \in [Builder -> 0..6]
    /\ pins \in [Builder -> Pins]
    /\ vpc \in [Verifier -> {"idle", "check", "load", "statement", "svr"}]
    /\ read \in [Verifier -> 0..6]
    /\ profile \in [Verifier -> Profile \union {None}]
    /\ pinned \in [Verifier -> Manifest \union {None}]
    /\ loaded \in [Verifier -> Pins]
    /\ signed \in [Verifier -> BOOLEAN]
    /\ decision \in [Verifier -> {"ACCEPT", "REJECT", None}]
    /\ quiet \in [Verifier -> BOOLEAN]
    /\ answered \in [Verifier -> BOOLEAN]

Init ==
    /\ files = NoPins
    /\ manifest = None
    /\ builds = 0
    /\ bpc = [b \in Builder |-> "idle"]
    /\ source = [b \in Builder |-> None]
    /\ copied = [b \in Builder |-> 0]
    /\ pins = [b \in Builder |-> NoPins]
    /\ vpc = [v \in Verifier |-> "idle"]
    /\ read = [v \in Verifier |-> 0]
    /\ profile = [v \in Verifier |-> None]
    /\ pinned = [v \in Verifier |-> None]
    /\ loaded = [v \in Verifier |-> NoPins]
    /\ signed = [v \in Verifier |-> FALSE]
    /\ decision = [v \in Verifier |-> None]
    /\ quiet = [v \in Verifier |-> FALSE]
    /\ answered = [v \in Verifier |-> FALSE]

-------------------------------------------------------------------------------
(* build_certification_package *)

\* The artifact, statement and policy are checked; the SVR and bundles are not.
StartBuild(b) ==
    /\ bpc[b] = "idle"
    /\ builds < MaxBuilds
    /\ \E s \in Source :
           /\ ValidStatement(s.files["artifact"], s.files["statement"])
           /\ PolicyLoads(s.files["policy"])
           /\ source' = [source EXCEPT ![b] = s]
    /\ builds' = builds + 1
    /\ bpc' = [bpc EXCEPT ![b] = "open"]
    /\ UNCHANGED <<directory, copied, pins, verifying>>

\* Verifications in progress are no longer of a directory at rest.
Disturb == quiet' = [v \in Verifier |-> FALSE]

Open(b) ==
    /\ bpc[b] = "open"
    /\ IF copied[b] = 6
       THEN manifest' = Torn /\ UNCHANGED files
       ELSE files' = [files EXCEPT ![CopyOrder[copied[b] + 1]] = Torn] /\ UNCHANGED manifest
    /\ bpc' = [bpc EXCEPT ![b] = "write"]
    /\ Disturb
    /\ UNCHANGED <<builds, source, copied, pins, vpc, read, profile, pinned, loaded, signed,
                   decision, answered>>

Write(b) ==
    /\ bpc[b] = "write"
    /\ copied[b] < 6
    /\ LET key == CopyOrder[copied[b] + 1]
       IN files' = [files EXCEPT ![key] = source[b].files[key]]
    /\ bpc' = [bpc EXCEPT ![b] = "digest"]
    /\ Disturb
    /\ UNCHANGED <<manifest, builds, source, copied, pins, vpc, read, profile, pinned, loaded,
                   signed, decision, answered>>

\* The digest is that of the file as it is read back.
ReadDigest(b) ==
    /\ bpc[b] = "digest"
    /\ LET key == CopyOrder[copied[b] + 1]
       IN pins' = [pins EXCEPT ![b][key] = files[key]]
    /\ copied' = [copied EXCEPT ![b] = @ + 1]
    /\ bpc' = [bpc EXCEPT ![b] = "open"]
    /\ UNCHANGED <<directory, builds, source, verifying>>

\* Defect: a build starts with the count of the last one.
EndBuild_Counted(b) ==
    /\ bpc' = [bpc EXCEPT ![b] = "idle"]
    /\ source' = [source EXCEPT ![b] = None]
    /\ pins' = [pins EXCEPT ![b] = NoPins]
    /\ UNCHANGED <<builds, copied>>

EndBuild(b) ==
    /\ bpc' = [bpc EXCEPT ![b] = "idle"]
    /\ source' = [source EXCEPT ![b] = None]
    /\ copied' = [copied EXCEPT ![b] = 0]
    /\ pins' = [pins EXCEPT ![b] = NoPins]
    /\ UNCHANGED builds

WriteManifest(b) ==
    /\ bpc[b] = "write"
    /\ copied[b] = 6
    /\ manifest' = [files           |-> pins[b],
                    artifact_digest |-> source[b].files["artifact"].artifact_digest,
                    policy_digest   |-> source[b].files["policy"].body,
                    signer          |-> source[b].signer]
    /\ EndBuild(b)
    /\ Disturb
    /\ UNCHANGED <<files, vpc, read, profile, pinned, loaded, signed, decision, answered>>

CrashBuild(b) ==
    /\ bpc[b] # "idle"
    /\ EndBuild(b)
    /\ UNCHANGED <<directory, verifying>>

-------------------------------------------------------------------------------
(* verify_certification_package *)

\* SigstoreGithubClaims: those of the manifest, and the workflow name of the profile.
Claims(signer, prof) ==
    [identity         |-> signer.identity,
     issuer           |-> signer.issuer,
     repository       |-> signer.repository,
     workflow_sha     |-> signer.execution_sha,
     workflow_ref     |-> signer.execution_ref,
     workflow_trigger |-> signer.trigger,
     workflow_name    |-> prof.expected_workflow_name]

\* External: cosign verify-blob.
Signs(bundle, blob, claims) ==
    bundle \notin {None, Torn} /\ blob = bundle.blob /\ claims = bundle.claims

\* What is against a package whose files have been read.
Against(pin, prof, content, statementVerified, svrVerified) ==
    LET artifact == content["artifact"]
        statement == content["statement"]
        policy == content["policy"]
        svr == content["svr"]
        statementSigner == Context(pin.signer, statementVerified)
        svrSigner == Context(pin.signer, svrVerified)
    IN [ARTIFACT_BINDING_INVALID      |->
            \/ artifact.artifact_digest # pin.artifact_digest
            \/ ~ValidStatement(artifact, statement),
        POLICY_BINDING_INVALID        |-> policy.body # pin.policy_digest,
        STATEMENT_SIGNATURE_INVALID   |-> ~statementVerified,
        CONSUMER_EXPECTATION_REJECTED |->
            \E context \in {statementSigner, svrSigner} :
                ConsumerReasons(prof, policy, svr, context) # {},
        TRUST_REPLAY_REJECTED         |->
            TrustReasons(policy, artifact, statement, statementSigner) # {},
        SVR_REPLAY_INVALID            |->
            ~SvrReplays(policy, artifact, statement, statementSigner, svr),
        SVR_SIGNATURE_INVALID         |-> ~svrVerified,
        SIGNER_CONTEXT_MISMATCH       |-> statementSigner # svrSigner]

\* Defect: the first answer of cosign is lost.
Reasons_LostAnswer(pin, prof, content, statementVerified, svrVerified) ==
    LET against == Against(pin, prof, content, FALSE, svrVerified)
    IN {reason \in DOMAIN against : against[reason]}

\* Defect: the record is not compared with the manifest's.
Reasons_UnboundRecord(pin, prof, content, statementVerified, svrVerified) ==
    LET against == Against(pin, prof, content, statementVerified, svrVerified)
    IN {reason \in DOMAIN against \ {"ARTIFACT_BINDING_INVALID"} : against[reason]}

Reasons(pin, prof, content, statementVerified, svrVerified) ==
    LET against == Against(pin, prof, content, statementVerified, svrVerified)
    IN {reason \in DOMAIN against : against[reason]}

Decide(v, answer) ==
    /\ decision' = [decision EXCEPT ![v] = answer]
    /\ vpc' = [vpc EXCEPT ![v] = "idle"]
    /\ read' = [read EXCEPT ![v] = 0]
    /\ loaded' = [loaded EXCEPT ![v] = NoPins]
    /\ signed' = [signed EXCEPT ![v] = FALSE]
    /\ UNCHANGED <<profile, pinned, quiet>>

\* The profile is compared with the digest expected, if there is one, and the
\* manifest is read.
StartVerification(v) ==
    /\ vpc[v] = "idle"
    /\ \E prof \in Profile, expected \in Profile \union {None} :
           /\ profile' = [profile EXCEPT ![v] = prof]
           /\ IF expected \in {None, prof} /\ manifest \notin {None, Torn}
              THEN /\ vpc' = [vpc EXCEPT ![v] = "check"]
                   /\ pinned' = [pinned EXCEPT ![v] = manifest]
                   /\ decision' = [decision EXCEPT ![v] = None]
              ELSE /\ pinned' = [pinned EXCEPT ![v] = None]
                   /\ decision' = [decision EXCEPT ![v] = "REJECT"]
                   /\ UNCHANGED vpc
    /\ quiet' = [quiet EXCEPT ![v] = TRUE]
    /\ answered' = [answered EXCEPT ![v] = TRUE]
    /\ UNCHANGED <<directory, building, read, loaded, signed>>

\* Defect: a file that is there is taken for the one pinned.
Intact_Unchecked(v, key) == files[key] # None

Intact(v, key) == files[key] # None /\ files[key] = pinned[v].files[key]

\* _resolve_and_verify_files
CheckFile(v) ==
    /\ vpc[v] = "check"
    /\ LET last == read[v] = 5
       IN IF Intact(v, CheckOrder[read[v] + 1])
          THEN /\ read' = [read EXCEPT ![v] = IF last THEN 0 ELSE @ + 1]
               /\ vpc' = [vpc EXCEPT ![v] = IF last THEN "load" ELSE @]
               /\ UNCHANGED <<profile, pinned, loaded, signed, decision, quiet>>
          ELSE Decide(v, "REJECT")
    /\ UNCHANGED <<directory, building, answered>>

Loads(key, content) ==
    content \notin {None, Torn} /\ (key = "policy" => PolicyLoads(content))

LoadFile(v) ==
    /\ vpc[v] = "load"
    /\ LET last == read[v] = 3
           key == LoadOrder[read[v] + 1]
       IN IF Loads(key, files[key])
          THEN /\ loaded' = [loaded EXCEPT ![v][key] = files[key]]
               /\ read' = [read EXCEPT ![v] = IF last THEN 0 ELSE @ + 1]
               /\ vpc' = [vpc EXCEPT ![v] = IF last THEN "statement" ELSE @]
               /\ UNCHANGED <<profile, pinned, signed, decision, quiet>>
          ELSE Decide(v, "REJECT")
    /\ UNCHANGED <<directory, building, answered>>

\* cosign reads the directory again; no answer in time counts as not verified.
Cosign(v, blob, bundle, verified) ==
    LET signs == Signs(files[bundle], files[blob], Claims(pinned[v].signer, profile[v]))
    IN /\ verified => signs
       /\ answered' = [answered EXCEPT ![v] = @ /\ verified = signs]

VerifyStatement(v) ==
    /\ vpc[v] = "statement"
    /\ \E verified \in BOOLEAN :
           /\ Cosign(v, "statement", "statement_bundle", verified)
           /\ signed' = [signed EXCEPT ![v] = verified]
    /\ vpc' = [vpc EXCEPT ![v] = "svr"]
    /\ UNCHANGED <<directory, building, read, profile, pinned, loaded, decision, quiet>>

VerifySvr(v) ==
    /\ vpc[v] = "svr"
    /\ \E verified \in BOOLEAN :
           /\ Cosign(v, "svr", "svr_bundle", verified)
           /\ Decide(v, IF Reasons(pinned[v], profile[v], loaded[v], signed[v], verified) = {}
                        THEN "ACCEPT" ELSE "REJECT")
    /\ UNCHANGED <<directory, building>>

Next ==
    \/ \E b \in Builder :
           \/ StartBuild(b)
           \/ Open(b)
           \/ Write(b)
           \/ ReadDigest(b)
           \/ WriteManifest(b)
           \/ CrashBuild(b)
    \/ \E v \in Verifier :
           \/ StartVerification(v)
           \/ CheckFile(v)
           \/ LoadFile(v)
           \/ VerifyStatement(v)
           \/ VerifySvr(v)

Spec == Init /\ [][Next]_vars

-------------------------------------------------------------------------------
(* Properties *)

\* The package that a manifest pins, by the documented conditions of acceptance
\* (consumer-certification-v1.md, "The verifier fails closed unless ...").
Certified(pin, prof) ==
    LET artifact == pin.files["artifact"]
        statement == pin.files["statement"]
        policy == pin.files["policy"]
        svr == pin.files["svr"]
        claims == Claims(pin.signer, prof)
        signer == Context(pin.signer, TRUE)
    IN /\ \A i \in 1..4 : pin.files[LoadOrder[i]] \notin {None, Torn}
       /\ PolicyLoads(policy) /\ policy.body = pin.policy_digest
       /\ ValidStatement(artifact, statement) /\ artifact.body = pin.artifact_digest
       /\ Signs(pin.files["statement_bundle"], statement, claims)
       /\ Signs(pin.files["svr_bundle"], svr, claims)
       /\ TrustReasons(policy, artifact, statement, signer) = {}
       /\ ConsumerReasons(prof, policy, svr, signer) = {}
       /\ svr = SvrOf(policy, artifact, {}, signer, svr.timeCreated)

SoundFor(v) ==
    decision[v] = "ACCEPT" /\ quiet[v] =>
        files = pinned[v].files /\ Certified(pinned[v], profile[v])

\* A package accepted while nobody wrote to its directory is certified, and is the
\* package in the directory: half a build, a mixture of two builds, or a manifest
\* left over new files by a crash is never accepted.
SoundVerification == \A v \in Verifier : SoundFor(v)

CompleteFor(v) ==
    (/\ decision[v] = "REJECT" /\ pinned[v] # None /\ quiet[v] /\ answered[v]
     /\ files = pinned[v].files)
    => ~Certified(pinned[v], profile[v])

\* A certified package that nobody disturbs is accepted, if cosign answers.
CompleteVerification == \A v \in Verifier : CompleteFor(v)

\* The record that a manifest names, under its policy and its signer.
Trusts(pin) ==
    LET artifact == [artifact_digest |-> pin.artifact_digest, body |-> pin.artifact_digest]
        policy == [policy_digest |-> pin.policy_digest, body |-> pin.policy_digest]
    IN TrustReasons(policy, artifact, StatementOf(artifact), Context(pin.signer, TRUE)) = {}

TrustedFor(v) == decision[v] = "ACCEPT" => Trusts(pinned[v])

\* Even of a package that is rebuilt while it is verified, the record and policy that
\* the manifest names are those decided on: the record is valid, and the policy
\* accepts it under the manifest's signer.
AcceptedIsTrusted == \A v \in Verifier : TrustedFor(v)

-------------------------------------------------------------------------------
(* What holds between the steps; see Trust_proofs *)

\* A build has the source it was started for, and the pins of the files copied.
BuildInv(b) ==
    /\ bpc[b] = "idle" <=> source[b] = None
    /\ bpc[b] = "idle" => copied[b] = 0
    /\ bpc[b] = "digest" => copied[b] < 6
    /\ bpc[b] \in {"write", "digest"} /\ copied[b] < 6 => files[CopyOrder[copied[b] + 1]] # None
    /\ \A i \in 1..copied[b] : pins[b][CopyOrder[i]] # None

\* A verification has a manifest and a profile, and no decision yet.
VerifyInv(v) ==
    /\ vpc[v] # "idle" => pinned[v] # None /\ profile[v] # None /\ decision[v] = None
    /\ vpc[v] = "check" => read[v] < 6
    /\ vpc[v] = "load" => read[v] < 4
    /\ vpc[v] \notin {"check", "load"} => read[v] = 0

\* While the directory is at rest, the files read are still there, and are the
\* ones pinned.
RestInv(v) ==
    quiet[v] =>
        /\ vpc[v] = "check" => \A i \in 1..read[v] :
                files[CheckOrder[i]] = pinned[v].files[CheckOrder[i]]
        /\ vpc[v] \in {"load", "statement", "svr"} => files = pinned[v].files
        /\ vpc[v] = "load" => \A i \in 1..read[v] :
                /\ loaded[v][LoadOrder[i]] = files[LoadOrder[i]]
                /\ Loads(LoadOrder[i], files[LoadOrder[i]])
        /\ vpc[v] \in {"statement", "svr"} => \A i \in 1..4 :
                /\ loaded[v][LoadOrder[i]] = files[LoadOrder[i]]
                /\ Loads(LoadOrder[i], files[LoadOrder[i]])
        /\ vpc[v] = "svr" /\ signed[v] =>
                Signs(files["statement_bundle"], files["statement"],
                      Claims(pinned[v].signer, profile[v]))

\* While the directory is at rest and cosign answers, its first answer is the one
\* that it would give again.
AnswerInv(v) ==
    vpc[v] = "svr" /\ quiet[v] /\ answered[v] =>
        signed[v] = Signs(files["statement_bundle"], files["statement"],
                          Claims(pinned[v].signer, profile[v]))

IndInv ==
    /\ TypeOK /\ SoundVerification /\ AcceptedIsTrusted
    /\ \A b \in Builder : BuildInv(b)
    /\ \A v \in Verifier : VerifyInv(v) /\ RestInv(v)

\* CompleteVerification needs more, on top of IndInv.
CompleteInv == CompleteVerification /\ \A v \in Verifier : AnswerInv(v)
===============================================================================
