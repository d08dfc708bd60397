# Specifications of nri-supply-chain

nri-supply-chain is an NRI plugin: a container runtime asks it about every container it
creates, the plugin verifies the supply-chain attestations of the image, and admits, warns
about or rejects the container. It goes on re-verifying what runs and lowers the resource
limits of containers that stop passing. This directory models the parts of it where
goroutines, timeouts, restarts and reloads meet, checks the models with TLC on small
instances, and proves the central properties with TLAPS for every instance.

## The system and its parts

| Part | Code | Model |
|---|---|---|
| circuit breaker and the registry of breakers | `internal/circuit` | `Breaker` (a value with operators), used by the next two; `BreakerRegistry`, `RegistryAccessProofs` |
| registry access: breaker, fetch slots, outcomes | `internal/verifier/check.go`, `image.go` | `RegistryAccess`, `RegistryAccessProofs` |
| GUAC queries | `internal/verifier/check_guac.go` | `GuacAccess` |
| result cache | `internal/cache` | `ResultCache`, `AdmissionProofs` |
| Verify, shared flights, invalidation, reload, Stop | `internal/verifier/verifier.go`, `verifier_reload.go`, `snapshot.go` | `Verification`, `FreshVerification` (its abstract specification), `VerificationProofs` |
| one attestation check over its documents | `internal/checker`, `internal/types` | `PredicateCheck`, `DecisionProofs` |
| the verdict on an image | `internal/verifier/check.go`, `check_vsa.go`, `check_runners.go`, `check_results.go` | `ImageChecks`, `DecisionProofs` |
| OCI policies: fetcher, poller, rollback guard | `internal/policy/poller.go`, `oci.go`, `internal/verifier/verifier_poller.go` | `PolicyPoller`, `ReloadProofs` |
| resource arithmetic of a throttle | `internal/plugin/continuous_verifier_throttle.go` | `Throttle`, `DecisionProofs` |
| remediation of running containers | `internal/plugin/continuous_verifier.go`, `container_registry.go`, `prewarm.go`, `plugin.go` | `Remediation` (composes `Throttle`), `RemediationProofs` |
| start and stop of the continuous verifier | `internal/plugin/continuous_verifier.go`, `internal/daemon/signals.go` | `ContinuousRun`, `ReloadProofs` |
| configuration passed by the runtime | `internal/plugin/runtime_config.go`, `state.go` | `RuntimeConfig`, `ReloadProofs` |
| NRI connection | `internal/daemon/nri.go` | `NRIConnection`, `DaemonProofs` |
| reloads, file watches and triggers | `internal/daemon/signals.go`, `internal/plugin/plugin.go` | `ConfigReload` |
| one CreateContainer request | `internal/plugin/plugin.go`, `plugin_digest.go` | `Admission`, `AdmissionProofs` |
| fetch of attestations | `internal/attestation/fetcher.go` and its parts | `AttestationFetch`, `FetchProofs` |
| verdict on a bundle | `internal/attestation/verify.go`, `keys.go` | `BundleTrust`, `DecisionProofs` |
| cache of the trusted root | `internal/attestation/fetcher_trustroot.go` | `TrustedRoot`, `AdmissionProofs` |
| offline bundles | `internal/bundle`, `internal/verifier/fetcher_factory.go` | `BundleStore`, `DaemonProofs` |
| SLSA provenance | `internal/slsa` | `Provenance`, `DecisionProofs` |
| VEX | `internal/vex` | `Vex` |
| SBOM and drift | `internal/sbom`, `internal/types` | `Sbom`, `Severity` |
| Scorecard, runtime trace, SCAI, source, release, build environment and vulnerability scan checks, merged metadata | `internal/checker/merge.go` and the packages of the checks | `PredicateRules`, `Severity` |
| vulnerability feed | `internal/feed` | `Feed` |

How they interact: the daemon connects to the runtime (`NRIConnection`), which passes a
configuration (`RuntimeConfig`); a configuration, a signal or a changed file (`ConfigReload`)
reloads the verifier (`Verification`), which loads policies and restarts the poller
(`PolicyPoller`) and starts or stops the continuous verifier (`ContinuousRun`). An admission
(`Admission`) and a re-verification both call Verify (`Verification`), which looks at the cache
(`ResultCache`) and fetches through the breaker (`RegistryAccess`, `BreakerRegistry`,
`GuacAccess`) from a registry (`AttestationFetch`) or the offline store (`BundleStore`). Each
bundle is verified (`BundleTrust`) against keys and trusted roots (`TrustedRoot`). What was
fetched becomes a verdict in `ImageChecks`, one attestation type in `PredicateCheck`, and what
one document says in `Provenance`, `Vex`, `Sbom` and `PredicateRules`. What a re-verification
means for a container is `Remediation`, which computes limits with `Throttle`; which
containers a feed entry concerns is `Feed`.

Where one model needs another part it uses what that part promises: `Verification` uses the
cache as a map with epochs, `Remediation` and `Admission` a verification that passes or fails,
`RuntimeConfig` a reload that succeeds or fails, `AttestationFetch` a verdict per bundle,
`PredicateCheck` and `ImageChecks` an outcome per document.

Every part of the system, modelled or not, is listed in `PROJECT.json` under `components`.

## Models, state and actions

Modules are named for their part; actions carry the name of the function they model, or of
the step of it. A function that gives up a lock, waits or sends is several actions, with a
program counter per goroutine.

- `Breaker`. The record (state, failures, probe, age) and one operator per method. Time since
  the last failure is `age`, saturated at the cooldown.
- `RegistryAccess`. `pc[r]` of each request, its permit, the breaker of each host, the free
  slots. Acquire has two critical sections and is two steps. Every way out of a fetch is an
  action: success, transport failure, other errors, panic, cancellation while waiting.
- `GuacAccess`. The same for queries, which use the breaker without permits.
- `ResultCache`. Entries, expiry heap, heap index, digest index, epochs, gauge. Get is two
  critical sections when the entry has expired; a writer reads the epoch, verifies, stores.
- `Verification`. Calls, flights, one cache per generation, epochs, in-flight counting and the
  phases of Reload and Stop. A result is abstracted to its provenance: the generation it was
  computed with, the invalidations that had begun when it was fetched, whether Stop cut it.
- `FreshVerification`. What a caller may rely on, without caches or flights.
- `PolicyPoller`. The tag of every reference, the artifact in force, the poller with its last
  digest and guard, the fetch under way, and the phases of a reload. HEAD and GET are two steps.
- `Throttle`. Limits as integers with wrap-around at `IntMax`, a stand-in for 2^63 - 1.
- `PredicateCheck`. One attestation check over its documents: subject, parsing, rules and
  freshness of one document, superseding and aggregation of several. Documents are sorted out
  at one reading of the clock and evaluated at a later one.
- `ImageChecks`. The verdict on an image: index and platform digest, builder-key scope, VSAs,
  the direct checks, missing and fetch-failure policies, GUAC, CEL and the mode. A request
  carries the policy and everything the environment answers, panics and timeouts included.
- `Remediation`. The registry entry of each container, the limits the runtime holds, updates
  decided, sent, applied and committed as separate steps, resizes, reconnects and restarts.
- `ContinuousRun`. The flag `started`, the registered stop function, the phase of every run.
- `RuntimeConfig`. `pending`, `lastApplied`, `failure` as separate atomics; a Configure call is
  a step per atomic it reads, an apply likewise.
- `NRIConnection`. The published generation and stub, the phase of every attempt, its
  Configure and its close callback as goroutines of their own.

- `BreakerRegistry`. The map of entries, the last use of each, the lock, and each call of Get
  with its fast path, the use it stores after the read lock is gone, and both evictions.
- `ConfigReload`. Files with versions, the watches, the debounce timers, the goroutines that
  wait for the reload lock, a reload step by step, and the two triggers the continuous
  verifier takes. `wanted` and `unseen` are history: what was asked for, and what changed
  where nobody watched.
- `Admission`. One request against a configuration that a reload may replace between any two
  steps: ShouldVerify, the resolution of the digests, Verify, the paths without a digest, and
  what is tracked.
- `AttestationFetch`. A fetch as listing, selection within the limits, concurrent downloads
  that share a budget, the cosign tag layer by layer, retries, the mirror and the deadline.
  An artifact is its kind, how it reads and the verdict on it.
- `TrustedRoot`. The cached root, the shared refresh, the fetch it gave up on that is still
  running, negative caching, and each verification that asks.
- `BundleStore`. Directories, the names they are found under, every step of an import with
  crashes, failed renames and overlapping imports, the pinned store, fetches that read it
  file by file, and reloads that switch.
- `BundleTrust`, `Provenance`, `Vex`, `Sbom`, `Severity`, `Feed`, `PredicateRules`. Pure
  operators, named for the functions they model. `TrustCases` and `DocumentCases` hold the
  inputs they are checked over.
- `Decisions`. The decisions of `Throttle`, `PredicateCheck`, `ImageChecks`, `BundleTrust` and
  `Provenance` over every input the code accepts: a state is the input of one decision, and a
  throttle or a rollback changes the limits that are seen. `MCDecisions` picks small inputs,
  and TLC evaluates that they are inputs of `Decisions` (`InputsAssumption`).

External, modelled from how the code uses it and marked so in the map: the runtime, the NRI
stub, registries, the file system, Sigstore's cryptography.

## Runs

`expect: pass` runs establish properties; the `expect: violation` run shows that a comment and
a doc say more than the code does (see Findings). Every property has a mutant: a definition
named `Op_Variant`, with a plausible defect, under which TLC refutes the property.

| Run | Shows | Instance |
|---|---|---|
| `registry_access` | one probe decides a half-open breaker, late outcomes are ignored, no slot leaks, requests end, half-open is resolved | 5 requests, 2 hosts, 2 slots per host and 1 in all, threshold 2; 99,000 states |
| `guac_probe` | violation, see Findings | 4 queries |
| `admission_path` | six parts, one at a time: cache (indexes agree, no result survives an invalidation, no race costs a fresh entry); admission (judged by a configuration in force, the tracked digest is what runs); breaker registry (an open breaker is not lost to a race); fetch (nothing unread passes for absent); offline store (what is served was validated, a fetch is one whole bundle); trusted root (a served root is current, fetches do not pile up) | 3 keys, 2 digests in one shard, capacity 2, 2 writers; 6 configurations, 8 containers, 3 reloads; 3 hosts, 2 getters, room for 2; every set of up to 3 of 16 referrers, 15 cosign tags, 6 ways to fail; 2 imports of 5 bundles; 2 verifications; 1.2 million states up to symmetry |
| `verification` | answers and cache are fresh, Stop drains, nothing is published after it, refinement of `FreshVerification` | 2 calls, 2 invalidations, 1 reload, Stop; 2.8 million states up to symmetry |
| `verification_live` | calls and Stop return | 2 calls, 1 reload, Stop |
| `policy_poller` | policies never go back in time, a rejected artifact leaves no trace, convergence | 2 references, 3 reloads |
| `decisions` | throttle, rollback and recognition of limits; a passing check rests on current evidence; an image is verified only on complete, bound, passing evidence; junk counts as absent; and of the contents: the verdict on a bundle does not depend on what loaded, nor that of VEX on the order of documents; sources, licenses, components and findings do not escape a policy by where or how they are written; a feed finds every affected version; merged documents never look better than apart | unset, 0, tiny, ordinary, overflowing limits; up to 2 documents of 13 ages; 15 holdings per digest, every pair of fetch errors, 72 policies; with the inputs of the content checks described below 834,000 inputs |
| `remediation` | graduated, spaced escalation; no unknown throttle | two scenarios: 2 containers with lost connections and restarts; 1 container with resizes, lost answers and restarts; 2.5 million states up to symmetry |
| `remediation_live` | recovery and escalation happen | 1 container, single verifications and updates fail |
| `continuous_run` | two parts, one at a time: one loop, stoppable, release after it, reloads return; changes of files arrive and are followed by a re-verification | 3 runs; 2 policy directories, 2 PURLs, 3 changes, 3 waiting reloads; 232,000 states |
| `runtime_config` | ready means current, no admission under an older configuration, pending ends | 3 Configure calls, 3 kinds of configuration |
| `nri_connection` | a serving connection stays published, leaks bounded, shutdown ends | 4 attempts |

A behaviour of `Remediation` has a scenario, chosen initially and never changed: the
containers, limits and triggers there are, and which disturbances occur. Properties that
need a disturbance not to occur say so.

Most state machines also have a type invariant `TypeOK`. Where there are proofs it is proved
(of `NRIConnection`, `RuntimeConfig`, `PolicyPoller` and `Remediation` only the part the
argument needs); elsewhere it documents the state and holds on the instances of the runs.

A behaviour of `admission_path` and of `continuous_run` is one of a single part (`part`, chosen
initially): the parts share no state in the code beyond what each model abstracts, so their
product would only multiply states. The properties speak of all parts at once.

A state of `decisions` is the input of one decision; the operators of `Throttle`,
`PredicateCheck`, `ImageChecks` and the content modules are applied to every input. Every pair
of index and platform answers is combined with every policy; timeouts, GUAC failures and modes
with every platform answer. Two documents are enough, as an aggregation compares one with the
rest; merges, where a third document could undo the second, get three. The inputs of the
content checks combine the places a value can be written in: key entries that share a name or
a path, load or not and have windows, with bundles and roots (`TrustIsStable`); pairs of VEX
documents with up to three statements, of equal, later and no time, naming the image by digest,
by tag or as another build (`VexIsOrderFree`); provenances that name a source in up to three
places (`SourcesAreTrusted`); SBOMs in three formats, mixed, split, nested and with license
graphs that have cycles (`SbomHidesNothing`); event lists in every order and all triples of
versions (`FeedFindsAffected`).

Why the bounds are enough: each is one more than the number of actors a violation of the
property needs. A stale outcome needs a request from before the trip, the requests that trip,
the probe and a bystander; a stale answer needs a leader, a joiner and an invalidation
between them; a lost guard needs two reloads; a late callback needs the attempt it belongs to
and the next one, and a third and fourth that reach the limit on abandoned ones; a lost
breaker needs a full registry and a third host; a mixed store needs the seed and two imports; a
stale root needs a fetch that is given up and one after it, within a clock that passes both
lifetimes. The mutants
show that the instances do reach these cases. Counters the code leaves unbounded (reloads,
calls, attempts, time, epochs) are bounded by a named constant in a guard.

The throttle percentages are one pair (`Configs`) and `runtime_config` has no call that
reverts to the applied configuration (`CanRevert`): with either, the code diverges as listed
below.

Deadlock checking is off where the modelled activity ends: all calls returned, all attempts
made, the clock at its bound, a decision taken.

### Fairness

Weak fairness on a goroutine that can take its next step: the Go scheduler runs runnable
goroutines. It covers running requests (every wait in the code has a deadline or a
cancellation), flights, reloads, Stop, the poll loop, the ticker of the continuous verifier,
the watcher and fired timers. Strong fairness in four places: `StopLocked`, which competes with
reloads for a Go mutex (they do not starve a waiter); a fetch, verification or apply that is
tried again and again and succeeds whenever it is retried often enough (the properties are
about an environment that recovers); updates the runtime does not refuse for ever; and the two
triggers of the continuous verifier, between which a Go `select` chooses at random. The runtime
calling, tags moving, files changing, resizes and restarts are never assumed.

## What is proved

TLAPS proves for every value of the constants, from the named assumptions next to them:

- `RegistryAccess`, in `RegistryAccessProofs`, from `RequestsAssumption` (a finite number of
  requests), `HostOfAssumption`, `SlotsAssumption`, `ThresholdAssumption`, `CooldownAssumption`.
  The inductive invariant adds to types that permits are numbers already issued
  (`PermitsIssued`): a probe permit just issued is then new, so nobody else holds it, so
  `ProbeUnique` and `ProbeHeld` survive. Five lemmas say what the breaker's operators do;
  the steps use only those. Action property `OnlyProbeDecides` follows from the lemmas.
  `SlotsConserved` is inductive with the types; each step adds one request to the set of
  holders and takes one slot, or the reverse, or neither.
- `BreakerRegistry`, in `RegistryAccessProofs`, from `RegistryAssumption`. `TrippedIsKept` needs to
  know what an eviction under way has seen: the entry it holds for the oldest was stored with
  that use, every other one it looked at has been used later, and the use is nobody else's,
  pending stores included, as a use is counted once (`EvictionIsSound`, `UsesAreUnique`). A Get
  that stores its use in between only makes an entry newer.
- `Verification`, in `VerificationProofs`, from `KeysAssumption`, `ShardAssumption`,
  `BoundsAssumption`. The strengthening says what each running flight knows: the generation
  and epoch it started with, that an epoch equal to the current one means no invalidation of
  its shard in between, and that only the leader of a key's flight is registered for it. From
  it: freshness of answers and caches, that Stop drains, that nothing is published after
  Stop, and that `Verification` implements `FreshVerification`.
- `ResultCache`, in `AdmissionProofs`, from `CacheAssumption`. The strengthening says of every
  writer whose epoch is current that its key has not been invalidated since it read it. Action
  property `FreshIsKept` follows from the indexes: the top of the heap is the entry that
  expires first, and what a Get or an eviction takes is looked at under the lock it is
  removed under.
- `BundleStore`, in `DaemonProofs`, from `DirsAssumption`, `BundlesAssumption` and a seed whose
  verdicts are known. `StoreIsValidated`: an import past validation stays valid, and as long as
  imports do not overlap the one that is swapping knows what is under both names (`Alone`).
  `FetchIsWholeBundle`: a pinned directory is the store, the backup, or gone after two
  different imports swapped since (`PinIsSafe`), its bundle never changes, and a fetch has
  either read a blob or has it left. The proof corrected the property: counting swaps, as an
  earlier version did, a third import that overlaps the other two can remove the pinned
  directory at a count the property excluded; the model now records which imports swapped.
- `ContinuousRun`, in `ReloadProofs`, from `RunsAssumption`. The strengthening ties `started` to the
  one active run and the registered stop function to its loop.
- `RuntimeConfig`, in `ReloadProofs`, from `ConfigAssumption` and `~CanRevert`. The strengthening
  follows the latest call that made its configuration pending: the calls that returned since
  passed the same configuration, it is pending or in force, and whoever holds the lock applies
  something that was pending when it took it. Without reverts equal configurations come from
  neighbouring calls, which is what makes the comparison with a `lastApplied` read earlier
  sound. An admission that passed the check meets only configurations of its own time and later.
- `PolicyPoller`, in `ReloadProofs`, from `PollerAssumption`. `PoliciesOnlyAdvance`: what the poller
  remembers is what is in force, also while it is paused, but between publishing and
  recording; a reload loads and publishes only while no poll is under way; and what either is
  about to publish has passed the guard that is still in place (`PollerRemembers`,
  `ReloadIsAlone`, `FetchedFits`, `LoadedFits`).
- `Admission` and `TrustedRoot`, in `AdmissionProofs`, from `DigestAssumption` (no digest is
  `NoDigest`) and `RootAssumption` (the cache TTL of a root is within its staleness limit, in the code an
  hour and a day). For `Admission` the strengthening says where the digest at hand comes from:
  the request, or a lookup made because the request had none. A configuration that would not
  have looked it up does not need it, and one that admits without it admits with any. For
  `TrustedRoot` it says that a result a refresh has waited for has just landed; only
  `BeginRefresh` meets older ones, and it checks their age.
- `NRIConnection`, in `DaemonProofs`, from `AttemptsAssumption`. The strengthening says that only
  the attempt under way has the current generation, so a close callback that passed its check
  belongs to it; and that every attempt left behind in Start was counted, but the one a
  shutdown interrupted, which still fits as the count is below the limit until runNRI gives up.
- `Remediation`, in `RemediationProofs`, from `ScenarioAssumption`. `EscalationIsGradual`: a pending
  throttle belongs to a container that was degraded and out of its cooldown when it was
  decided, and nothing between decision and commit changes either (`Orderly`).
- `Remediation`, in `RemediationProofs` too, from the same and `OnePercentage`:
  `ThrottleIsKnown`. The limits of a running container are those it asked for or those lowered
  once, lowered ones are in the annotation, a recorded original is what was asked for, and an
  update that is pending is the throttle of it or its restoration (`LimitsKnown`,
  `EntryKnown`, `UpdateKnown`). The arithmetic enters through two lemmas: applying a throttle
  to limits that are already lowered gives the same limits, and `looksThrottled` recognises
  them. `OnePercentage`, that reloads do not change the percentages of a throttle, is a
  hypothesis of the theorem and not an assumption of the model: without it TLC
  refutes the property: a throttle, a restart, and a configuration with other percentages
  before Synchronize (the row on `prewarm.go:110` below).

- `AttestationFetch`, in `FetchProofs`, from `ArtifactAssumption` (what verification finds in a
  bundle is a matter of its blob) and `LimitsAssumption`, for any artifacts, contents of the two
  registries, limits and number of workers: `FetchIsHonest`. The invariant of a pass
  (`FetchInv`) says that a wanted referrer that is done was collected, or one with the same blob
  was, or its collector knows that the set is incomplete: the deadline, a limit, a read that
  failed (`Excused`). None of these is taken back, and without an error there are none. The
  same holds of the layers of the tag. Conversely a collector only records what is lenient
  for something a registry or a key file did (`Hurt`), or for the deadline.
- `Decisions`, in `DecisionProofs`, one theorem per property, for every input of `Inputs`:
  - `ThrottleIsSafe`, from `LimitsAssumption`: the limits seen are always the original ones
    or the throttled ones, which is inductive, and each operator is described by a lemma: the
    scaled limit lies between floor and original, also when the product overflows.
  - `EvidenceIsCurrent`, from `FreshnessAssumption`: a fresh document in the sense of
    `dropSuperseded` is the reason why the others count as superseded, and stays the newer one.
  - `VerifiedIsEarned` and `JunkIsAbsent`, from `ChecksAssumption`: lemmas about what each stage
    of `runChecks` adds to the result, from the fetch over the VSAs, the direct checks, GUAC and
    CEL to the mode; what fails in one stage is never allowed again in a later one.
  - `TrustIsStable`: a key or a root that loads later only adds ways to accept a bundle, and a
    bundle that none of them accepts is not reported as invalid while one that could is
    missing. It takes `LoadsAsOne`, that a key configured in several files loads from all of
    them or from none: `unloadedKeyError` (`verify.go:590`) goes by the key a bundle names, and
    with one file of the key loaded and another, with the window that would accept, missing,
    it reports the bundle as invalid.
  - `SourcesAreTrusted`: the dependencies are read one after the other and each may correct the
    sources, by a recursive function whose values are described by induction over the number of
    dependencies.

`NatSetInduction` in `DecisionProofs` is the induction principle these proofs use, stated with a
set in place of a predicate: the prover can instantiate a set. The existence of the recursive
function is proved with it as well (`RunExists`).

While proving, the models were corrected in two places: a dependency digest that is present and
empty was taken for an absent one, while `verifyDependencyDigest` compares it (`slsa.go:660`); and
`FetchIsHonest` expected a listing that could not be parsed to show its bundles.

`ReloadsControlRuns`, `StaleIsNeverUsed`, `StopsAreClean` and `CacheSoundness` join several of the
theorems before them into the property a run checks. A proof module groups components that
share no names, and none of a component's proofs uses another component.

Model-checked only:

- Liveness under fairness (`AccessResolves`, `EverythingReturns`, `LimitsFollowVerdicts`,
  `ReloadsReturn`, `ChangesArrive`, `PendingEnds`, `Converges`, `ShutdownEnds`), which is out of
  the prover's reach.
- Four of the ten invariants of `decisions`: `VexIsOrderFree`, `SbomHidesNothing`,
  `FeedFindsAffected` and `MergingHidesNothing`. They compare the results of several folds over
  the same documents (in another order, split, nested, merged). Each fold takes an induction
  like the one for `SourcesAreTrusted`, and most of them an order on versions or statements that
  is itself computed by a fold; this has not been carried out.
- `VerifiedIsEarned` says nothing of requests whose timeout expired after the fetch; those are
  the row on `check_vsa.go:192` below.

## Findings

`guac_probe` (`check_guac.go:97`): a GUAC probe that ends without reporting an outcome leaves
the breaker half-open, although `circuit.go` and `docs/config.md` promise a probe after every
cooldown. `PROJECT.json` quotes the text.

### Known divergences

The following were met while modelling. The property is in the module, quoting the text it
states; TLC refutes it on the instance given. They are not part of the runs.

| Property | Where | What | Instance |
|---|---|---|---|
| `Remediation!RollbackKeepsResize` | `continuous_verifier.go:590` | a rollback can undo a resize made during the cycle | fault `resize` |
| `Remediation!NoStackedThrottle` | `continuous_verifier_throttle.go:98` | a throttle applied after a resize is taken for a foreign update and throttled again | fault `resize` |
| `Remediation!DisabledIsReleased` | `continuous_verifier.go:223` | disabling remediation tries to restore limits only once | no faults, mode `disabled` |
| `Remediation!VerifiedIsRestored` | `continuous_verifier.go:596` | an update applied whose answer is lost is never rolled back | fault `lostAnswer` |
| `Remediation!VerifiedIsRestored` | `prewarm.go:110` | a throttle is not recognised after a restart with other percentages | fault `restart`, two `Configs` |
| `Remediation!TrustedAfterPass` | `continuous_verifier.go:640` | a passing verification does not make recovered originals trusted | fault `restart` |
| `ContinuousRun!DisabledIsStopped` | `continuous_verifier.go:86` | a stop between claiming and registering misses the startup run | that of `continuous_run` |
| `RuntimeConfig!ReadyIsCurrent` | `runtime_config.go:157` | a reverted configuration can be taken for the applied one | `CanRevert = TRUE` |
| `RuntimeConfig!FailureIsPendings` | `runtime_config.go:268` | the failure of a superseded configuration is reported for its successor | that of `runtime_config` |
| `PolicyPoller!NewestSinceStartup` | `verifier_poller.go:119` | disabling verification loses the rollback guard | that of `policy_poller` |
| `PolicyPoller!StaleIsNotReady` | `verifier_poller.go:170` | stale policies are reported ready while a reload runs | that of `policy_poller` |
| `MCDecisions!VerifiedRanToCompletion` | `check_vsa.go:192` | when the timeout expires after the fetch, a VSA that was not evaluated counts as absent, and an image with only a FAILED one can be verified | that of `decisions` |
| `NRIConnection!RetryIsDisconnected` | `nri.go:149` | a Configure past its check marks a given-up attempt connected | that of `nri_connection` |

Behaviour that a reader may not expect, with no text that promises otherwise unless quoted:

- `AttestationFetch`: a deadline that expires between reading and verifying the only bundle
  makes it count as one that failed verification, while `check.go:166` describes that outcome
  as "err only says that the complete attestation set failed verification".
- `ConfigReload`: a reload that refuses the policies of a new `policy_dir` leaves that directory
  unwatched, and a change between loading and watching a new directory is not seen. Both wait
  for the next signal or change; `unseen` records them and `EditsArrive` excepts them.
- `BundleStore`: an import killed between its two renames leaves only the backup, which the next
  import removes first; a rename that fails while an overlapping import removed the backup
  leaves no store; two imports without a reload remove the pinned directory, and fetches are
  denied until the reload. `StoreIsValidated` says what holds in each case.
- `BreakerRegistry`: two overlapping uses of one entry may be stored in either order, so which
  breaker is the least recently used is approximate; `TrippedIsKept` says by how much.
- `Sbom`: an SPDX document that carries a CycloneDX part nested too deeply is read as SPDX only;
  of two packages with one key the last document's counts for drift.

## Not modelled

- Policy loading, merging and validation, and the configuration file: sequential code that
  turns files into the values the modules take as parameters. `ImageChecks`, `Admission` and
  `RuntimeConfig` range over those values.
- Include, exclude and rule patterns over the forms of an image reference: string matching,
  which an abstraction of names would replace by its result.
- Cancelling a pre-warm run by its successor: it starts over with the same images, and what a
  result does to a container is in `Remediation`.
- Building the pieces of a snapshot (fetcher, audit log, GUAC client) is one step of
  `Verification`; a change of the offline settings by a reload is not part of `BundleStore`.
- Notation, CEL, cryptography, HTTP, the GUAC client's queries, the decoding of documents:
  libraries, or parsing without state.
- Metrics, logs, the audit log, health endpoints, bundle creation and the one-shot commands:
  output.

Abstractions worth knowing: durations are compared, not measured; digests and payloads are
identities; one digest or key stands for all that behave alike; scores are counted in tenths.
`NRIConnection` assumes that the backoff before the next attempt (at least the 250ms socket
poll) outlasts what a close callback does after its generation check.
