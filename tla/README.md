# HOWEDO continuity: TLA+ models, model checking and proofs

HOWEDO decides whether an agent that was paused may continue. The agent's view of
the world is a snapshot of immutable resource revisions. When it comes back, the
snapshot is compared with the current heads, fences and validity metadata, and the
answer is one of CONTINUE, RECOVER, REVALIDATE, PAUSE and ABORT. This directory
models the parts of the code that make that answer right, checks them with TLC on
small instances and proves the central ones with TLAPS for every instance.

Paths below are relative to the repository; `src/howedo/` is the package.

## 1. The system

### Components

| Component | State | Operations | Hard behaviour | What makes it correct |
|---|---|---|---|---|
| Domain values (`domain.py`) | none | snapshots with one revision per resource | – | a revision identifier has one content |
| Head registry (`kernel.py`) | revisions, heads | register, activate_if_head, reads | reference for compare-and-set; register bypasses it | an activation happens only on the expected head |
| Decision engine, SEMLOCK (`kernel.py`, `semlock.py`) | none | check, classify | many inputs merged into one action | changed or unknown state never lets an agent through |
| RECALL (`recall.py`) | loop state | evaluate | cyclic graphs, several roots | exactly the dependents, the worst cause, an end |
| CONCUR (`concur.py`) | fence tokens in memory | issue, current, check | restart, old holders | a holder that lost its fence aborts |
| Recovery (`recovery.py`) | none | build checkpoint, validate | inputs read one at a time while they move | RECOVER was justified at one instant |
| Protocol contract (`protocol.py`, `storage/base.py`) | – | the storage interface | – | the abstract store, log and witness store |
| PostgreSQL storage (`storage/postgres.py`) | four tables | register, initialize, activate, witnesses, events, migrate | transactions interleave by statement, lost transactions, lost acknowledgements, lock waits | implements the reference registry, the log and the witness store of the contract |
| LangGraph and Temporal adapters (`adapters/`) | bindings held by the caller | resolve, capture, validate, continue | two reads at capture, a gap between validation and continuation | continues only the bound execution after RECOVER |
| Adapter contract, conformance, certification (`adapter_*.py`) | none | probe a runtime, record, verify the record | several asynchronous probes of a moving runtime | a conformant record means every check passed |
| Attestation, trust policy, consumer trust, Sigstore | none | evaluate, replay | cosign is an external process with a timeout | the decision is replayed from the evidence |
| Certification package (`certification_package.py`) | a directory | build, verify | seven files written one by one, read twice | ACCEPT is about one package |
| Trust publication and distribution (`trust_*.py`) | root history, TUF cache | publish, verify, fetch | rotation, expiry, a shared cache | continuity of the root chain |
| Release bundle (`release_bundle.py`) | a directory | build, verify | – | files match the manifest |
| HTTP API, cockpit, command lines | none | translate requests | – | they call the components above |

### How they interact

`RecoveryEngine.validate` calls `DecisionEngine.check`, which calls a semantic
comparator, and `ConcurEngine.check` for every fence of the checkpoint. Its inputs
come from its caller: heads from a `StorageAdapter`, fences from a `FenceRegistry`,
validity from RECALL. Nothing makes these reads one step. The adapters wrap `validate`
around a runtime and continue it on RECOVER. The PostgreSQL adapter is shared by
threads and processes; each method is a transaction of its own, so concurrency is
decided by the statements it runs. The certification and trust modules are a
separate chain of files: a conformance record, its attestation, a policy decision,
a package, and the published roots that its consumer relies on.

`PROJECT.json` lists what in this is hard to test, line by line, under `hazards`.

## 2. The modules

| Module | Models | Kind |
|---|---|---|
| `Domain` | `domain.py` revisions, their keys and conflicts | operators |
| `StateRegistry` | the reference registry of `kernel.py` | state machine |
| `ContinuityStore` | the storage contract for revisions and heads, with concurrent clients | abstract specification, extends `StateRegistry` |
| `ContinuityLog` | the storage contract for events: atomic appends, pages in order | abstract specification |
| `ContinuityWitnesses` | the storage contract for witnesses: atomic puts and gets | abstract specification |
| `PostgresStorage` | revisions, heads and migrations of `storage/postgres.py` | state machine; implements `ContinuityStore` |
| `EventLog` | `append_event` and `events_after` | state machine; implements `ContinuityLog` |
| `Kernel` | `semlock.py`, `DecisionEngine`, `ConcurEngine`, `RecoveryEngine` | operators |
| `Continuity` | an agent's capture, validation and write-back against moving heads and fences | composes `StateRegistry`, `Kernel` and the fence registry |
| `Recall` | `RecallEngine.evaluate` | state machine |
| `AdapterBinding` | what the adapters bind and how they decide, over `Kernel` | operators |
| `RuntimeAdapter` | the contract of `adapter_contract.py` | abstract specification |
| `LangGraphAdapter` | `adapters/langgraph.py` and `langgraph_v1.py` | state machine; implements `RuntimeAdapter` for the checkpoints that the graph has |
| `TemporalAdapter` | `adapters/temporal.py` and `temporal_v1.py` | state machine; implements `RuntimeAdapter` |
| `TrustPolicy` | what records, statements, policies and profiles decide: `attestation.py`, `trust_policy.py`, `consumer_trust.py`, the record of `adapter_certification.py` | operators |
| `CertificationPackage` | `certification_package.py`, with the claims of `sigstore_trust.py` | state machine, over `TrustPolicy` |
| `WitnessStore` | `put_witness` and `get_witness`, with `WitnessRecord` | state machine; implements `ContinuityWitnesses` |
| `TrustPublication` | `trust_publication.py` and its command line, and the ceremony they serve | operators and state machine |
| `TrustDistribution` | `trust_distribution.py`, over what is published | composes `TrustPublication` and its consumers |
| `AppendOnly_proofs`, `Trust_proofs` | – | theorems about `EventLog` and `WitnessStore`; `CertificationPackage`, `TrustPublication` and `TrustDistribution` |
| other `*_proofs` | – | theorems about the module of that name |
| `MC*` | – | instances for TLC |

### PostgresStorage

`revisions` and `heads` are the committed rows of the two tables, `schema` stands for
`howedo_schema_migrations`. Each client has a call with its arguments and a program
counter that names its next SQL statement: `AssertInitialized`, `InsertRevision` and
`ConfirmRevision` (`_register_revision`), `InsertHead` and `CompareHead`
(`initialize_head`), `UpdateHead` (`activate_if_head`), `Commit`. `inserted` and
`wrote` are the uncommitted rows, which are also the locks. An exception in the
`with` block is `Rollback`. `Abort` loses a transaction anywhere; `Commit` may take
effect without an answer (`"lost"`).

What PostgreSQL does is external and comes from how the adapter relies on it at READ
COMMITTED: a statement sees committed rows and its own; `ON CONFLICT` waits for an
uncommitted row of the same key; an UPDATE waits for a locked row it matches, and
then re-reads it.

`Contract == INSTANCE ContinuityStore WITH matched <- ...` is the refinement: the
tables, calls and outcomes are the store's own, and `matched` is a call of
`initialize_head` that has found its own revision in place. The store's conflict
outcomes must name a conflicting content or head at the very step that raises them.

### EventLog

The identity column gives its number before the row is checked (`TakeNumber`), the
insert waits for an uncommitted row of the same `event_id`, the row is seen when it
is committed. `JsonOf` is what `json.dumps` and `jsonb` make of a content; the row
holds `JsonOf[content]` and the comparison of a retry is with the content in memory.
A consumer pages with the last sequence it has seen. `before` is a history variable.

`AppendContract` is the refinement of `ContinuityLog`, in which an append is one step: it
takes effect when it is answered, at a number above everything on record when it was
called, once per identifier, or it changes nothing; a conflict has another content on
record, and a page is everything up to its last row. The variables of the log are those that
its callers see, and the numbers and rows of unfinished transactions are hidden. That
an answer stays true afterwards (`TruthfulAnswers`) and `RealTimeOrder` for rows still
uncommitted are parts or consequences of the inductive invariant.

### WitnessStore

A writer inserts (`InsertWitness`, which waits for an uncommitted row of the same
digest), reads the row of the digest back in the same transaction, its own included
(`SeenBy`, `ConfirmWitness`), and commits. A reader selects a row and builds a
`WitnessRecord` of it, whose constructor computes the digest anew (`SelectWitness`). A
payload has three views: the text it is hashed by (`DigestOf`), what `jsonb` gives back
(`ReadBack`), and what Python's `==` sees (`ValueOf`). All that is assumed of them is that payloads of
one text are read back as one. `recorded` and `known` are history: what was put with success,
and what of it a reader's call follows. Calls share nothing but the table, so a thread that both puts and
gets is a writer and a reader.

`WitnessContract` is the refinement of `ContinuityWitnesses`: a put or a get takes effect in the
step that answers it. The comparison that refuses a put may see a row that is not committed, its own;
the contract asks that a refusal's cause be on record, or be in the payload itself. `PutIsReadable` says what
callers may conclude, in the terms of their own calls.

### Kernel and Continuity

The engines walk resources in a canonical order and keep the stronger action, which
is the strongest of the set of actions asked for: `Strongest`. `Continuity` has one
agent. It takes fences and captures heads one at a time, builds its checkpoint, and
then validates it, reading every head and fence in a step of its own and possibly
failing to. Meanwhile any use of the registry moves heads (with or without
compare-and-set), others take fences, and the process of the in-memory fence
registry restarts. A recovered agent writes back by `activate_if_head`.
`RefusalHasCause` is the converse of the properties of RECOVER: behind every other answer
there is a resource that is invalid, unreadable, drifted without a rule for it, or whose head
or fence was lost. `exact`,
`fenced`, `moved`, `past`, `reinstated` and `restarted` are history variables that
the properties read and no guard does.

### Recall

One action takes a root, takes a resource off the queue, or finishes a root. Roots and
queue are sets, taken in any order, which covers the sorted order of the code under
every naming. `states` and `causes` are the code's dictionaries.

### The runtime adapters

`RuntimeAdapter` is what the contract promises its caller: a capture binds an execution
that the runtime can continue now, to a snapshot with the installed runtime in it;
`ValidateResume` answers only while the runtime has that execution; a continuation is of
the bound execution and follows RECOVER. Each is one step. The binding of the contract is
the identity that the caller was given, which is what its caller can name.

In the code they are several steps. LangGraph's V1 `capture` reads the graph twice, once
for the recovery binding (`Capture`) and once for the identity (`ResolveIdentity`), and the
graph may run in between: the two then disagree. Such a torn binding is published, and
the refinement takes it for a capture of the execution it names; `ValidateResume` must
refuse it, or the continuation would be of another execution (`Exact`, which is
`_recovery_binding`). `CaptureNative` is the adapter below V1 used on its own. The Temporal
adapter awaits the server up to twice in a capture (`Capture` or `DescribeLatest`, then
`Bind`), once in a validation, and once in the signal; runs close and continue as new
between any two. Its handle addresses the bound run in the namespace of its client
(`ExactHandle`).

Both put the installed runtime among the resources of a snapshot and replace the head
that the caller passes for it (`WithRuntimeRevision`, `Judge`). `Upgrade` installs another
runtime: it loses the calls in progress, and bindings survive with their callers.

External: LangGraph gives a checkpoint that it has when asked for it. Asked for one that is gone,
`get_state` may answer with the config it was asked for, with the latest checkpoint or with none, and
`invoke`, which is given a config and resolves it again, may continue the latest checkpoint, start a
blank one, or raise. Temporal runs at most one run of a workflow and delivers no signal to a closed run.
A manifest never changes. `first_execution_run_id` is left out. Nothing in the contract keeps two
continuations of one binding apart, so no property says so.

The contract has two strengths. `ContractSpec` asks that every answer and every continuation
be of an execution that the runtime has at that step; the Temporal adapter implements it, because its
server refuses a signal to a run that is closed. The LangGraph adapter cannot: nothing in it ties the
validation to the `invoke`, and it has only the graph's word for what the graph has. It implements
`TrustingSpec`: of every execution that the runtime has, the same, so that exactly the bound checkpoint is
continued; of one that is gone, only that a continuation follows a RECOVER for the caller's own
binding. `continued` records both the binding and what `invoke` has resolved. Section 4 says what that
leaves open.

### The certification package

A package is a directory of six files and `manifest.json`, which pins the digests of the
six, the record, the policy and the signer. `build_certification_package` checks its
sources (`StartBuild`), then for every file in the order of `sources` opens the target, which empties it (`Open`),
writes it (`Write`) and digests what it reads back (`ReadDigest`); the manifest comes last
(`Open`, `WriteManifest`). `CrashBuild` may happen at any of these steps, and the next
build overwrites what is there. `verify_certification_package` reads the manifest
(`StartVerification`), digests every file (`CheckFile`), loads four of them
(`LoadFile`), and has cosign read two of them with their bundles (`VerifyStatement`, `VerifySvr`):
up to three reads of a file, with nothing to keep a builder away. What it decides from
what it has loaded is `Against` and `Reasons`, over the operators of `TrustPolicy`; the
decision is taken with the second answer of cosign, since nothing before it ends a
verification or writes anything.

A digest is modelled as the content it is of. A file open for writing is `Torn`: no JSON
and no bundle. Identities and refs are sequences of segments; a policy's `*` is a segment
that is not empty, a profile's `*` may be empty. Manifest, environment and details of a
record are left out, and so is the shape of JSON. Sources do not change while they are
copied. External: cosign verifies a bundle that signs the file with exactly the claims
asked for, and no other; it may give no answer in time, which counts as not verified.

`SoundVerification` compares the code's order of reads and checks with `Certified`, the
conditions of acceptance in `docs/consumer-certification-v1.md`, for the one package that the
manifest pins. It is stated for a directory at rest since its manifest was read, which may
have been left by a crash, by a rebuild or by both. If the directory is rebuilt under the verification, the files
digested, loaded and given to cosign may be of different builds; `AcceptedIsTrusted` is what
remains then. `CompleteVerification` says that a certified package is not rejected.

### Trust roots

`TrustPublication` has the ceremony's side. `BuildManifest` is `build_main` on the released
roots and the one just signed: `VerifiedHistory` (every root by its predecessor and by
itself), `MeetsPolicy`, the endpoints, and `ValidThrough`, the validity window counted from the
time that the manifest states, in whole seconds (`Normalize`) and possibly given on the
command line. `Release` publishes that root with its manifest, after the verification
that the ceremony asks for, and nothing is ever withdrawn (ADR-0015). `VerifiedPublication` is
`verify_trust_root_publication`: the manifest must be what building it again at its own
stated time gives.

`TrustDistribution` adds consumers. `PinBootstrap` is `verify_main` on a history and a manifest
from the channel that the publisher selected; the first root of the history is the bootstrap.
`fetch_consumer_trust_profile` is then one action per access: `MakeUpdater`, `NextRoot` for every
root of the walk, `EndWalk`, `ReadMetadata`, `Download`, `ReadProfile` and `WriteReceipt`, with
`Fail` for any other error. Meanwhile
roots are rotated, profiles replaced (`PublishTarget`), time passes, and other consumers may fetch into
the same directory: `rootFile` and `profileFile` are shared, and are read again after they
were written. `alone` is a history variable: no other fetch has written to the directory
since this one began. python-tuf does not support sharing a directory at once, so only
lone receipts are claimed to be true. Directories used one after the other are covered.

Bootstrap root and manifest come from an independent channel (ADR-0014, ADR-0015,
`docs/operations/TUF_ROOT_CEREMONY.md`) and not from a mirror. This is an assumption, and the code needs
it: `manifest_digest` is an unkeyed digest (`trust_publication.py:343`), so whoever makes up a history
can make a manifest that `verify_trust_root_publication` accepts, as
`docs/trust-root-publication-v1.md` warns. Nothing here says what a verified manifest proves of
its origin.

External: a new `Updater` links `root.json` to the bootstrap root; `refresh()` asks for the next
root until there is none, each verified by its predecessor and by itself, links `root.json` to the last it
trusts, refuses that one if it has expired, and reads the metadata of the other roles. That is taken to
be fresh and signed by the keys of the newest root, so a rotation between the walk and this read may end
the fetch (`UnsignedMetadata`). With consistent snapshots a repository serves the content of
the hash asked for, although it has been replaced. The limit that python-tuf puts on the rotations of one
walk is left out. The roots that ceremonies may propose are any (`Root`): the checks alone
decide what is released.

## 3. The runs

| Run | Instance | Shows |
|---|---|---|
| `pg_storage` | 2 clients, 1 resource, revisions v1, v2 and a second content for v2 | refinement of the store, atomic activation, immutable revisions, no deadlock, every call ends |
| `witnesses` | 2 writers, 1 reader, a tuple and its list, a float and its integer, and a plain payload of two kinds | refinement of the witness store (puts and gets are atomic, refusals have a cause), and what was put is read |
| `event_log` | 2 appenders, 1 consumer, 2 identifiers, 3 contents of which JSON changes one, 3 numbers | refinement of the log (atomic appends, true answers, real-time order), one row per event, pages pass over no committed row, every append ends |
| `event_skip` | the same | a finding: a consumer misses an event |
| `event_retry` | the same | a finding: a retry is refused |
| `continuity` | 1 agent, 2 resources of 2 revisions, one of them written, 2 fences | what RECOVER means under concurrent movement, and that everything else has a cause |
| `future_fence` | the same | a finding: a future fence does not pause |
| `recall` | every graph and every assignment of signals on 3 resources | exact impacts, monotonicity, termination |
| `langgraph` | 1 caller, a thread with 2 checkpoints, 2 runtime versions, 1 policy of 2 revisions, 1 fence | over a graph that loses checkpoints and does not say so, the LangGraph adapter meets the contract for every checkpoint that the graph has (`TrustingSpec`), and runtime drift is never silent |
| `temporal` | 1 caller, a workflow with 2 runs and a copied namespace, 2 SDK versions, 1 policy, 1 fence | the Temporal adapter implements the contract without exception, and SDK drift is never silent |
| `certification` | 1 directory, 1 builder with 2 builds, 4 sources, 1 verifier, 2 profiles | only certified packages are accepted from a directory at rest, and they are; accepted records are trusted |
| `trust_roots` | 2 consumers that share a directory, 9 root files of versions 1 to 3, 2 policies, 2 endpoints, 2 profiles, 3 instants of half a second | releases verify for good, no consumer is stranded by a rotation, not even one under its fetch, online keys never rotate the root, lone receipts are true |

Why the bounds are enough. A transaction touches the rows of one resource, so one
resource has every conflict; the races are between two statements of two transactions,
and three revisions give a conflict of contents and a return to an earlier head.
Two appenders are what it takes to commit out of order and to retry while the first
attempt is open; `MaxSequence` is three numbers, so a number may be lost and two
committed. In `continuity` one resource is read and one is written, the fence may be
taken once by the agent and once by another, before or after, and `MaxFence` counts
again after a restart; rules make one drift compatible, one breaking and leave one to
the default. Three resources give chains, shared dependents and cycles of length two
and three. Callers of an adapter share only the runtime, which moves by itself, so one
caller meets every interleaving; two checkpoints are a bound one and a newer one, which a torn
capture reads and to which a graph that has lost the bound one may fall back; two runs are a closed run and its successor.
Two builds are a package and a rebuild or a crash over it, before or under a verification;
the sources differ in a reissued result, in the record and its signature, or in a failed check.
Two concurrent builders are in the module and in its theorems, but not in reach of a
run; verifiers share only the directory.
Of the root files of `trust_roots` each version has one that keeps the policy and others that
break one rule each, so every check has a root that only it refuses; two rotations
are what it takes to leave a version out. An expiry of two ticks falls within the
clock and one of three beyond it; two ticks to a second make `Normalize` drop one. Two
witness writers race for one digest and retry; the payloads are one of each way in which
JSON changes or keeps one.
What the theorems state holds without these bounds.

Deadlock is checked everywhere but in `recall`, where the evaluation ends.

Fairness. `pg_storage` and `event_log` assume strong fairness of a client's next
statement: a thread in a method keeps running it, and PostgreSQL queues lock waiters,
so one whose lock is free again and again gets it. Nothing is assumed of aborts, of new calls or
of migrations. `recall` assumes weak fairness of its loop, which is plain sequential
code. The safety runs assume none.

## 4. Findings

* `event_skip`: numbers are taken at insertion and rows appear at commit, so a
  consumer that pages with `events_after` can pass a number that is committed later.
  ADR-0006 promises a "monotonic sequence for ordered consumption". What does hold:
  a page passes over no row committed at that time, and an event is numbered above
  everything committed when its append was called.
* `event_retry`: `append_event` compares in-memory content with content read back from
  JSON, so an event whose payload JSON changes is refused on a retry.
* `future_fence`: in `ConcurEngine.check` a changed head overwrites the PAUSE of a
  future fence with the weaker REVALIDATE, against the outcomes listed in ADR-0004.
  A future fence is possible after a restart of the in-memory registry. What
  does hold: such an agent is not let through.

Noticed and not run: an operation on a database that was never migrated raises
PostgreSQL's UndefinedTable and not `StorageNotInitialized`, whose docstring names
the case. A witness whose payload has a number that `jsonb` writes with another text (the
float 1e16, -0.0) is stored without complaint, because Python takes the two for equal, and every
`get_witness` of its digest then raises ValueError; a payload with a tuple is refused by
`put_witness` on its first insert. `PutIsReadable` and `WitnessContract` state what holds
with exactly these exceptions. A LangGraph checkpoint that is pruned between its validation and the `invoke`
may be continued on another checkpoint or on a blank one, although `docs/runtime-adapter-v1.md` forbids to
retarget a binding (lines 48 and 70): the adapter passes the config on and does not look at what was
continued. So may one that is gone at its validation, if the graph answers with the config it was asked for.
What happens then is the graph's decision, which is not in this repository; the contract is therefore
stated with this exception (`Misled`) instead of being refuted on an assumption about the graph.

## 5. What is proved

Eight modules hold theorems; TLAPS checks all of their proofs. They assume the named
ASSUMEs on the constants, which TLC evaluates in the runs, and what the modules take
PostgreSQL to do (section 2). `PROJECT.json` lists the theorems.

* `PostgresStorage_proofs`: types, the safety invariants, freedom from deadlock, and
  `ImplementsStore`, the refinement of `ContinuityStore`. The safety invariants are not
  inductive: that the row an activation compared is still in place when it commits
  depends on which rows are uncommitted at each statement. `ControlInv` says this for every
  program counter; `IndInv` adds the invariants. The refinement then has one lemma per
  statement: it is a step of the store or leaves it where it is. Two steps further up the
  committed rows are the reference registry of the kernel (`ImplementsRegistry`: a step of the
  store changes them as one of the registry's operations does), and a head once set moves only
  through an activation that expected it (`HeadsMoveByActivationHolds`).
* `AppendOnly_proofs`: types, one row per event, truthful answers, real-time order,
  and that a page passes over no committed row. `ControlInv` bounds the numbers of rows,
  transactions and `before` by those taken, and says that rows hold contents JSON keeps.
  The page is a prefix of the rows in order, which the proof gets from the
  cardinalities of finite sets of rows. `ImplementsLog` is the refinement of `ContinuityLog`:
  a commit records a free number above `before`, or finds the compared row still there,
  because rows stay and identifiers are unique.
  Of the witnesses: types, `PutIsReadable`, `RefusedForCause` and `ImplementsWitnesses`, the
  refinement of `ContinuityWitnesses`, for any writers, readers and conversion of payloads.
  `StoreInv` says that a digest has one row, committed or not, that a transaction about to commit
  has seen its record in place, and that everything recorded stays in place. The cause of a
  refusal was seen in an uncommitted row only if that row is the writer's own, and then the
  payload is the cause.
* `Kernel_proofs`: for any rules, resources and fences, lemmas bound `Validate` from
  below by what each head and each fence asks for, and say what RECOVER implies of each.
  `RecoverExactly` makes this an equivalence: a validation recovers if and only if every
  resource and every fence, taken alone, would let it. `ValidateIsMonotone`: a checkpoint
  that names more resources never gets a weaker answer.
* `Continuity_proofs` rests on them.
  `CourseInv` relates the start of a validation, what it has read since, and the present:
  a head that left the checkpoint comes back only by a return to a superseded revision, and
  a fence taken over stays so until a restart. With it, a RECOVER assembled from separate
  reads is true of the validation's start, and a recovered agent overwrites no newer head.
  `RefusalHasCauseHolds` needs it in the other direction, from what was read
  back to what happened: a fence that no longer compares equal was taken over or
  lost in a restart, a head that no longer does has moved or was never captured exactly.
* `Recall_proofs`: types, exactness of the impacts and monotonicity for any graph. The
  invariant is that all dependents of a resource that is done have its cause and a
  state at least as bad, and everything reached has a path from its cause.
  `WorkDecreasesHolds` gives a natural number that every step decreases: a resource
  enters the queue of a root once, so what is left to do is bounded by the resources that a root
  has not reached, whatever cycles the graph has.
* `LangGraphAdapter_proofs`, `TemporalAdapter_proofs`: types, no silent drift of the runtime,
  and `ImplementsContract`, the refinement of `RuntimeAdapter`: of `ContractSpec` for Temporal, of
  `TrustingSpec` for LangGraph, where the invoked config is shown to resolve to the bound checkpoint
  whenever the graph has it. `CallInv` says what a call
  in progress knows: that a recovery binding is of the runtime still installed, that a
  decision is about an exact binding (its own identity, or its client's namespace), and
  that RECOVER was not reached over a drifted runtime. Each action is then one step of the
  contract or invisible to it.
* `Trust_proofs`: types, `SoundVerification`, `CompleteVerification` and `AcceptedIsTrusted` for any
  builders, verifiers, sources, profiles and number of builds. `BuildInv` says that the pins of a
  build are those of the files it has copied; `RestInv` says that, as long as nobody writes, what
  a verification has digested, loaded and had verified is what the directory holds and the
  manifest pins. The lemmas `AcceptedMeets` and `MeetsCertified` then take an empty list of
  reasons to the documented conditions. For `CompleteVerification` their converses show that
  nothing is held against a certified package, and `AnswerInv` that cosign's first answer is still the
  right one when the second is given.
  Of the trust roots: types, `OnlineKeysNeverRotate`, `ReleasesStand`, `NoConsumerStranded`
  and `LoneReceiptIsTrue`, for any roots, policies, consumers and directories. The inductive
  invariant `TrustInv` joins to them `ChainInv`, that every released root was the last of a history that the
  publisher verified, and `FetchInv`, what a fetch knows of its updater and of files that others
  write. A walk that trusts a released root can then verify the next one, whenever that is released
  (`NextTrusted`), so it never stops between the bootstrap root and the last. A manifest is built
  again at the time that it states, and normalizing a time twice changes nothing
  (`NormalizeTwice`), so every release verifies for good (`ReleasesVerify`).

Only model-checked: `CallsEnd`, `AppendsEnd` and `Terminates`, because they need fairness, which
this prover cannot reason about, and the three violation runs. What can be said of
them without fairness is proved: every statement of a call brings it nearer to its end and
nothing sets it back (`CallsAdvanceHolds`, `AppendsAdvanceHolds`), no set of calls waits
only for its members (`DeadlockFree`), an append waits only for transactions about to
commit, and the work of RECALL decreases (`WorkDecreasesHolds`). What is missing is
only that a client which can run does.

Some theorems state definitions that no run lists, because they follow from what the runs check or
refine it: `TruthfulAnswers`, `RealTimeOrder`, `RefusedForCause`, `HeadsRegistered`,
`HeadsMoveByActivation`, `CallsAdvance`, `AppendsAdvance` and `WorkDecreases`. TLC found no violation of them on the instances of the runs.

## 6. What is not modelled

Digests are values, and equal only for equal contents. Reason codes, witnesses of
decisions, and the wording of errors are left out. `head` and `schema_version` are reads.

* The conformance suite (`adapter_conformance.py`) calls an adapter's contract in a fixed order and records
  which answers were as expected. The calls are the actions of the adapter modules, and the
  record, with its verification, is in `TrustPolicy`; the suite itself keeps no state between
  calls, and its fixture decides what moves meanwhile.
* The release bundle hashes the files of a directory one after the other; the HTTP API and
  the cockpit page translate requests to operators of `Kernel` and keep no state; the command
  lines other than those of trust publication parse arguments and print.
* In the certification chain, writing a single statement or SVR to a file of its own.
* Of python-tuf what the metadata other than the root says, its cache between runs, and the limit on the
  rotations of one walk.

The other components marked `not_modelled` or `partly` in `PROJECT.json` have a reason there.

## 7. Plan

Done: the store, the log and the witness store with their contracts, the decision layers and the
agent that uses them, RECALL, the adapter contract and both adapters, the certification chain
up to the package, and the trust roots from ceremony to receipt, with a theorem for every
safety property that a passing run checks, and for every refinement. Left, in this order:

1. The conformance suite as a caller of the two adapters, composed with the runtime that moves
   between its probes.
2. Theorems about the contracts themselves: what a caller of `RuntimeAdapter` may conclude
   from several calls in a row.
3. The release bundle, if it is ever written to while it is verified.
4. Liveness of witnesses and of fetches, under the fairness of the event log.
