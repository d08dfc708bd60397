---------------------------- MODULE BundleStore ----------------------------
(***************************************************************************)
(* Offline attestation bundles: `bundle import` replacing the store on     *)
(* disk (internal/bundle/import.go), the store a running plugin has pinned *)
(* (store.go), the fetcher reading it (fetcher.go) and the reload that     *)
(* switches to the imported one (verifier_reload.go, fetcher_factory.go).  *)
(*                                                                         *)
(* A directory is identified by the import that extracted it, Seed being   *)
(* the store the node started with, and `place` says under which name it   *)
(* is found: a rename changes the name and never the directory, which is   *)
(* what pinning it with os.Root relies on.                                 *)
(***************************************************************************)
EXTENDS FiniteSets, Naturals

CONSTANTS
    Imports,            \* runs of `bundle import`
    Seed,               \* the store the node started with
    Fetches,            \* fetches of the plugin
    Bundles,            \* the bundles that can be imported
    OfflineConfigs,     \* the `offline` settings of the node
    Nobody,             \* no directory
    maxTampered         \* bound: blobs changed on disk after import

ASSUME DirsAssumption == Seed \notin Imports /\ Nobody \notin Imports \cup {Seed}

KnownVerdicts(b) ==
    \A blob \in b.listed : b.verdict[blob] \in {"good", "bad", "key", "material", "other"}

ASSUME BundlesAssumption == \A b \in Bundles : KnownVerdicts(b)

VARIABLES
    offline,            \* the settings of the node
    bundle,             \* the bundle extracted into each directory
    place,              \* the name of each directory
    import,             \* where each import stands
    faults,             \* what befell the imports: "crash", "rename", "overlap"
    tampered,           \* <<directory, blob>> changed on disk after import
    switch,             \* the reload under way
    checked,            \* directories whose fetcher settled the manifest signature
    pinnedDir,          \* the directory pinned by the published fetcher
    retired,            \* directories of replaced fetchers
    closed,             \* directories whose fetcher was closed
    fetch,              \* the fetches
    swaps               \* imports that swapped stores since each directory was opened

diskVars == <<offline, bundle, place, import, faults, tampered>>
pluginVars == <<checked, switch, pinnedDir, retired, closed, fetch>>
varsBundle == <<diskVars, pluginVars, swaps>>

Dirs == Imports \cup {Seed}

\* The directory found under a name.
At(name) ==
    IF \E d \in Dirs : place[d] = name
    THEN CHOOSE d \in Dirs : place[d] = name ELSE Nobody

------------------------------------------------------------------------------
\* What a bundle is. `created` stands for the manifest's creation time and `age`
\* for what that time is now: "fresh", "old" (older than the maximum age) or
\* "future". `listed` are the blobs the manifest lists for the image, `hasImage`
\* whether it lists the image at all, `held` the blobs the archive really holds.
\* `signature` is "none", "bad" or "good" under the node's key. `verdict` is what
\* verifying a blob says: "good", "bad", "key" (a trusted key file is unreadable),
\* "material" (other trust material is missing) or "other" (a signature type that
\* bundles do not carry).

\* The result of CheckStaleness that refuses a bundle.
CheckStaleness(b) ==
    offline.maxAge /\ b.age \in {"future", "old"} /\ offline.expiry = "deny"

\* Reading one blob: it must be there, regular, of its size and its digest.
readBlob(d, blob) ==
    CASE place[d] = "gone" -> "replaced"
      [] place[d] # "gone" /\ blob \notin bundle[d].held -> "missing"
      [] place[d] # "gone" /\ blob \in bundle[d].held ->
           IF <<d, blob>> \in tampered THEN "mismatch" ELSE "ok"

\* isBlobIntegrityError: what the content of the store explains.
isBlobIntegrityError(read) == read \in {"replaced", "missing", "mismatch"}

\* Mutant: the integrity of an imported bundle is left to its readers.
VerifyBlobIntegrity_Later(d) == TRUE

VerifyBlobIntegrity(d) == \A blob \in bundle[d].listed : readBlob(d, blob) = "ok"

\* VerifyManifestSignature, asked for by a key.
SignatureHolds(b) == b.signature = "good"

\* OpenStore: the layout and the manifest parse.
OpenStore(d) == d # Nobody /\ bundle[d].parses

------------------------------------------------------------------------------
(***************************************************************************)
(* `bundle import`.                                                        *)
(***************************************************************************)

\* Extract the archive into a temporary directory; an archive that is too
\* large, has too many entries or names a path outside the directory fails.
extractTarGz(i) ==
    /\ import[i] = "idle"
    /\ \E b \in Bundles :
         /\ bundle' = [bundle EXCEPT ![i] = b]
         /\ IF b.extracts
            THEN /\ place' = [place EXCEPT ![i] = "tmp"]
                 /\ import' = [import EXCEPT ![i] = "extracted"]
            ELSE /\ import' = [import EXCEPT ![i] = "failed"]
                 /\ UNCHANGED place
    /\ UNCHANGED <<offline, faults, tampered, pluginVars, swaps>>

Validated(i) ==
    /\ OpenStore(i)
    /\ offline.verifyKey => SignatureHolds(bundle[i])
    /\ VerifyBlobIntegrity(i)

\* Validate what was extracted, before the store path is touched.
Validate(i) ==
    /\ import[i] = "extracted"
    /\ IF Validated(i)
       THEN /\ import' = [import EXCEPT ![i] = "valid"]
            /\ UNCHANGED place
       ELSE /\ import' = [import EXCEPT ![i] = "failed"]
            /\ place' = [place EXCEPT ![i] = "gone"]
    /\ UNCHANGED <<offline, bundle, faults, tampered, pluginVars, swaps>>

\* Another import is in the middle of its swap.
Overlap(i) ==
    IF \E j \in Imports \ {i} : import[j] \in {"cleared", "aside"}
    THEN {"overlap"} ELSE {}

Swapping(i) == [d \in Dirs |-> swaps[d] \cup {i}]

\* atomicSwapStore, first step: remove the backup of the import before.
RemoveBackup(i) ==
    /\ import[i] = "valid"
    /\ import' = [import EXCEPT ![i] = "cleared"]
    /\ place' = [d \in Dirs |-> IF place[d] = "backup" THEN "gone" ELSE place[d]]
    /\ swaps' = Swapping(i)
    /\ faults' = faults \cup Overlap(i)
    /\ UNCHANGED <<offline, bundle, tampered, pluginVars>>

\* Give up an import: the deferred cleanup removes what it extracted.
Abandon(i, store) ==
    /\ import' = [import EXCEPT ![i] = "failed"]
    /\ place' = [store EXCEPT ![i] = "gone"]

\* Second step: the existing store becomes the backup. A rename onto a
\* directory another import put there fails.
MoveAside(i) ==
    /\ import[i] = "cleared"
    /\ \/ /\ At("store") = Nobody
          /\ import' = [import EXCEPT ![i] = "aside"]
          /\ UNCHANGED <<place, swaps>>
       \/ /\ At("store") # Nobody /\ At("backup") = Nobody
          /\ import' = [import EXCEPT ![i] = "aside"]
          /\ place' = [place EXCEPT ![At("store")] = "backup"]
          /\ swaps' = Swapping(i)
       \/ /\ At("store") # Nobody /\ At("backup") # Nobody
          /\ Abandon(i, place)
          /\ UNCHANGED swaps
    /\ UNCHANGED <<offline, bundle, faults, tampered, pluginVars>>

\* The store after a failed last step: the backup is moved back when it can be.
Restored ==
    IF At("backup") # Nobody /\ At("store") = Nobody
    THEN [place EXCEPT ![At("backup")] = "store"] ELSE place

\* Last step: the extracted bundle becomes the store, or the rename fails.
MoveIn(i) ==
    /\ import[i] = "aside"
    /\ \/ /\ At("store") = Nobody
          /\ import' = [import EXCEPT ![i] = "done"]
          /\ place' = [place EXCEPT ![i] = "store"]
          /\ UNCHANGED faults
       \/ /\ At("store") # Nobody
          /\ Abandon(i, Restored)
          /\ UNCHANGED faults
       \/ /\ Abandon(i, Restored)
          /\ faults' = faults \cup {"rename"}
    /\ UNCHANGED <<offline, bundle, tampered, pluginVars, swaps>>

\* The process of an import is killed: nothing of it is cleaned up.
CrashImport(i) ==
    /\ import[i] \in {"extracted", "valid", "cleared", "aside"}
    /\ import' = [import EXCEPT ![i] = "crashed"]
    /\ faults' = faults \cup {"crash"}
    /\ UNCHANGED <<offline, bundle, place, tampered, pluginVars, swaps>>

\* A blob of an imported store is modified or truncated on disk.
Tamper(d, blob) ==
    /\ place[d] \in {"store", "backup"} /\ blob \in bundle[d].held
    /\ Cardinality(tampered) < maxTampered
    /\ tampered' = tampered \cup {<<d, blob>>}
    /\ UNCHANGED <<offline, bundle, place, import, faults, pluginVars, swaps>>

------------------------------------------------------------------------------
(***************************************************************************)
(* The plugin.                                                             *)
(***************************************************************************)

\* prepareFetcher: a store that cannot be opened, or that has the creation
\* time of the pinned one, keeps the fetcher.
bundleStoreChangedOnDisk ==
    /\ switch = [pc |-> "idle"]
    /\ LET d == At("store") IN
       switch' = IF OpenStore(d) /\ bundle[d].created # bundle[pinnedDir].created
                 THEN [pc |-> "changed"] ELSE [pc |-> "idle"]
    /\ UNCHANGED <<diskVars, checked, pinnedDir, retired, closed, fetch, swaps>>

\* createBundleFetcher opens the store again and pins its directory, or fails
\* and refuses the reload.
createBundleFetcher ==
    /\ switch = [pc |-> "changed"]
    /\ LET d == At("store") IN
       IF OpenStore(d)
       THEN /\ switch' = [pc |-> "pinned", dir |-> d]
            /\ swaps' = [swaps EXCEPT ![d] = {}]
       ELSE switch' = [pc |-> "idle"] /\ UNCHANGED swaps
    /\ UNCHANGED <<diskVars, checked, pinnedDir, retired, closed, fetch>>

\* The new snapshot is published; the fetcher it replaces is closed later.
PublishFetcher ==
    /\ switch.pc = "pinned"
    /\ pinnedDir' = switch.dir
    /\ retired' = retired \cup {pinnedDir}
    /\ switch' = [pc |-> "idle"]
    /\ UNCHANGED <<diskVars, closed, fetch, swaps, checked>>

\* retireFetcher's timer: Close waits for the fetches that hold the lock.
CloseFetcher(d) ==
    /\ d \in retired \ closed
    /\ \A f \in Fetches : fetch[f].dir = d => fetch[f].pc # "reading"
    /\ closed' = closed \cup {d}
    /\ UNCHANGED <<diskVars, checked, switch, pinnedDir, retired, fetch, swaps>>

\* A verification takes the published snapshot.
LoadFetcher(f) ==
    /\ fetch[f].pc = "idle"
    /\ fetch' = [fetch EXCEPT ![f] = [@ EXCEPT !.pc = "loaded", !.dir = pinnedDir]]
    /\ UNCHANGED <<diskVars, checked, switch, pinnedDir, retired, closed, swaps>>

\* verifySignature, with a key that can be loaded.
verifySignature(b) ==
    IF \/ ~offline.required /\ ~offline.key
       \/ offline.key /\ SignatureHolds(b)
    THEN "ok" ELSE "denied"

\* The outcomes of checkSignature: a key file that cannot be loaded is unavailable
\* trust material and is tried again, anything else settles the signature.
checkSignature(d) ==
    LET b == bundle[d] IN
    {verifySignature(b)} \cup
        IF d \notin checked /\ offline.key /\ b.signature # "none"
        THEN {"unavailable"} ELSE {}

Result(f, r) ==
    fetch' = [fetch EXCEPT ![f] = [@ EXCEPT !.pc = "done", !.result = r]]

\* Fetch, up to the first blob: the fetcher, the bundle's age, its signature and
\* whether it has the image at all.
Fetch(f) ==
    /\ fetch[f].pc = "loaded"
    /\ LET d == fetch[f].dir
           b == bundle[d] IN
       \/ /\ d \in closed
          /\ Result(f, "closed")
          /\ UNCHANGED checked
       \/ /\ d \notin closed /\ CheckStaleness(b)
          /\ Result(f, "denied")
          /\ UNCHANGED checked
       \/ /\ d \notin closed /\ ~CheckStaleness(b)
          /\ \E signature \in checkSignature(d) :
               /\ checked' = IF signature = "unavailable" THEN checked
                                                         ELSE checked \cup {d}
               /\ CASE signature # "ok" -> Result(f, signature)
                    [] signature = "ok" /\ ~b.hasImage -> Result(f, "absent")
                    [] signature = "ok" /\ b.hasImage ->
                         fetch' = [fetch EXCEPT ![f].pc = "reading", ![f].left = b.listed]
    /\ UNCHANGED <<diskVars, switch, pinnedDir, retired, closed, swaps>>

\* Mutant: a blob that cannot be read is skipped.
ReadNext_Skip(f, blob) ==
    /\ fetch[f].pc = "reading" /\ blob \in fetch[f].left
    /\ LET read == readBlob(fetch[f].dir, blob) IN
       fetch' = [fetch EXCEPT ![f].left = @ \ {blob},
                              ![f].got = IF read = "ok" THEN @ \cup {blob} ELSE @]
    /\ UNCHANGED <<diskVars, checked, switch, pinnedDir, retired, closed, swaps>>

\* AttestationsFor: every blob the manifest lists, an integrity error denying the
\* whole set and a local one (permissions, descriptors) only failing the fetch.
ReadNext(f, blob) ==
    /\ fetch[f].pc = "reading" /\ blob \in fetch[f].left
    /\ LET read == readBlob(fetch[f].dir, blob) IN
       \/ /\ read = "ok"
          /\ fetch' = [fetch EXCEPT ![f].left = @ \ {blob}, ![f].got = @ \cup {blob}]
       \/ isBlobIntegrityError(read) /\ Result(f, "denied")
       \/ Result(f, "unavailable")
    /\ UNCHANGED <<diskVars, checked, switch, pinnedDir, retired, closed, swaps>>

\* storedVerificationResult: an unreadable key file counts when nothing verified.
storedVerificationResult(verdicts) ==
    CASE "good" \in verdicts -> "verified"
      [] "good" \notin verdicts /\ "key" \in verdicts -> "unavailable"
      [] verdicts \cap {"good", "key"} = {} /\ "bad" \in verdicts -> "unverified"
      [] OTHER -> "none"

\* verifyStoredAttestations: the attestations that verified are the result. One
\* without its trust material, or a context that ends, fails the fetch.
verifyStoredAttestations(f) ==
    /\ fetch[f].pc = "reading" /\ fetch[f].left = {}
    /\ LET b == bundle[fetch[f].dir]
           verdicts == {b.verdict[blob] : blob \in fetch[f].got} IN
       \/ /\ "material" \notin verdicts
          /\ fetch' = [fetch EXCEPT ![f].pc = "done",
                                    ![f].result = storedVerificationResult(verdicts),
                                    ![f].got = {blob \in @ : b.verdict[blob] = "good"}]
       \/ Result(f, "unavailable")
    /\ UNCHANGED <<diskVars, checked, switch, pinnedDir, retired, closed, swaps>>

\* FallbackFetcher.Fetch: in prefer-bundle mode the registry answers for an image
\* the bundle does not have, and for nothing else.
FallsBack(result) == result \in {"absent", "none"}

------------------------------------------------------------------------------
\* The node starts with one of the imported bundles `seeds` as its store.
InitBundle(seeds) ==
    /\ offline \in OfflineConfigs
    /\ \E b \in seeds : bundle = [d \in Dirs |-> b]
    /\ place = [d \in Dirs |-> IF d = Seed THEN "store" ELSE "none"]
    /\ import = [i \in Imports |-> "idle"]
    /\ faults = {}
    /\ tampered = {}
    /\ switch = [pc |-> "idle"]
    /\ pinnedDir = Seed
    /\ retired = {}
    /\ closed = {}
    /\ checked = {}
    /\ fetch = [f \in Fetches |->
                  [pc |-> "idle", dir |-> Nobody, left |-> {}, got |-> {}, result |-> "open"]]
    /\ swaps = [d \in Dirs |-> {}]

NextBundle ==
    \/ \E i \in Imports :
         \/ extractTarGz(i)
         \/ Validate(i)
         \/ RemoveBackup(i)
         \/ MoveAside(i)
         \/ MoveIn(i)
         \/ CrashImport(i)
    \/ \E d \in Dirs : \E blob \in bundle[d].held : Tamper(d, blob)
    \/ bundleStoreChangedOnDisk
    \/ createBundleFetcher
    \/ PublishFetcher
    \/ \E d \in Dirs : CloseFetcher(d)
    \/ \E f \in Fetches :
         \/ LoadFetcher(f)
         \/ Fetch(f)
         \/ \E blob \in fetch[f].left : ReadNext(f, blob)
         \/ verifyStoredAttestations(f)

SpecBundle(seeds) == InitBundle(seeds) /\ [][NextBundle]_varsBundle

------------------------------------------------------------------------------
\* Import (import.go): "If extraction or validation fails, the store path is not
\* modified". Whatever stands at the store path, or beside it as the backup, is a
\* bundle that was validated completely, through crashes of imports and through
\* imports that run at the same time; and as long as no import was killed, and
\* no rename failed while another import was swapping too, there is a store at
\* the store path whenever no import is between its two renames.
StoreIsValidated ==
    /\ \A i \in Imports : place[i] \in {"store", "backup"} =>
         /\ bundle[i].listed \subseteq bundle[i].held
         /\ bundle[i].parses
         /\ offline.verifyKey => bundle[i].signature = "good"
    /\ Cardinality(faults) <= 1 /\ "crash" \notin faults =>
         (\E i \in Imports : import[i] = "aside") \/ At("store") # Nobody

\* atomicSwapStore and Fetcher.Fetch: a fetch that returns attestations returns
\* every attestation of the bundle its fetcher pinned that verifies, whatever
\* imports, reloads and changes on disk happened while it read; and it is
\* refused for a replaced store only after two imports swapped stores since the
\* plugin opened it, for one import alone leaves the pinned directory in place.
FetchIsWholeBundle ==
    \A f \in Fetches : fetch[f].pc = "done" =>
        LET d == fetch[f].dir
            b == bundle[d] IN
        /\ fetch[f].result = "verified" =>
             fetch[f].got = {blob \in b.listed : b.verdict[blob] = "good"}
        /\ FallsBack(fetch[f].result) =>
             (~b.hasImage \/ \A blob \in b.listed : b.verdict[blob] = "other")
        /\ fetch[f].result = "denied" =>
             \/ CheckStaleness(b) \/ verifySignature(b) = "denied"
             \/ \E blob \in b.listed : blob \notin b.held \/ <<d, blob>> \in tampered
             \/ \E i, j \in swaps[d] : i # j
==============================================================================
