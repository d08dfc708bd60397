---------------------------- MODULE DaemonProofs ----------------------------
(***************************************************************************)
(* What the daemon keeps on the host and towards the runtime. What stands  *)
(* at the path of the bundle store, and what a fetch from a pinned store   *)
(* returns, for any number of imports, crashes and fetches. And while a    *)
(* connection to the NRI runtime serves, the plugin shows that connection  *)
(* and no other, and the goroutines left behind in Start never exceed      *)
(* maxAbandoned, for any number of attempts.                               *)
(***************************************************************************)
EXTENDS BundleStore, NRIConnection, FiniteSetTheorems, TLAPS

-----------------------------------------------------------------------------
(* The inductive invariant *)

Swapped == {"cleared", "aside"}

\* An import that was not started has no directory, and what it extracted stays
\* in its temporary directory until it is moved in.
ImportShape(i) ==
    /\ import[i] \in {"idle", "extracted", "valid", "done", "failed", "crashed"} \union Swapped
    /\ import[i] = "idle" => place[i] = "none"
    /\ import[i] \in {"extracted", "valid"} \union Swapped => place[i] = "tmp"

DiskTypes ==
    /\ bundle = [d \in Dirs |-> bundle[d]] /\ place = [d \in Dirs |-> place[d]]
    /\ import = [i \in Imports |-> import[i]]
    /\ faults \subseteq {"crash", "rename", "overlap"}
    /\ \A i \in Imports : ImportShape(i)
    /\ \A d \in Dirs : KnownVerdicts(bundle[d])

\* What passed Validate.
IsValid(i) ==
    /\ bundle[i].listed \subseteq bundle[i].held
    /\ bundle[i].parses
    /\ offline.verifyKey => bundle[i].signature = "good"

MustBeValid(i) == import[i] \in {"valid"} \union Swapped \/ place[i] \in {"store", "backup"}

ValidIsValid == \A i \in Imports : MustBeValid(i) => IsValid(i)

Holds(name) == \E d \in Dirs : place[d] = name

\* Without overlapping imports one import swaps at a time, and knows that its
\* backup is the last store.
Alone ==
    faults \subseteq {"rename"} =>
        /\ \A i, j \in Imports : import[i] \in Swapped /\ import[j] \in Swapped => i = j
        /\ \A i \in Imports : import[i] = "cleared" => ~Holds("backup") /\ Holds("store")
        /\ \A i \in Imports : import[i] = "aside" => Holds("backup") \/ Holds("store")

StoreStands ==
    faults \subseteq {"rename"} \/ faults \subseteq {"overlap"} =>
        (\E i \in Imports : import[i] = "aside") \/ Holds("store")

StoreInv == DiskTypes /\ ValidIsValid /\ Alone /\ StoreStands

\* A directory a fetcher pinned was the store, and only two imports together can
\* remove it: one moves it aside, another removes the backup.
Pinned(d) == \/ d = pinnedDir \/ (switch.pc = "pinned" /\ d = switch.dir)
             \/ \E f \in Fetches : fetch[f].pc # "idle" /\ d = fetch[f].dir

PinIsSafe(d) ==
    /\ d \in Dirs
    /\ place[d] \in {"store", "backup", "gone"}
    /\ place[d] = "backup" => \E i \in swaps[d] : i \in Imports /\ import[i] \notin {"idle", "extracted", "valid"}
    /\ place[d] = "gone" => \E i, j \in swaps[d] : i # j

FetchShape(f) ==
    LET c == fetch[f]
        b == bundle[c.dir]
    IN  /\ DOMAIN c = {"pc", "dir", "left", "got", "result"}
        /\ c.pc \in {"idle", "loaded", "reading", "done"}
        /\ c.pc \in {"idle", "loaded"} => c.got = {}
        /\ c.pc = "reading" => c.left \subseteq b.listed /\ c.got = b.listed \ c.left /\ b.hasImage

\* Why a fetch was refused, as long as a removed directory stays removed.
RefusedFor(f) ==
    LET d == fetch[f].dir
        b == bundle[d]
    IN  \/ CheckStaleness(b) \/ verifySignature(b) = "denied"
        \/ \E blob \in b.listed : blob \notin b.held \/ <<d, blob>> \in tampered
        \/ place[d] = "gone"

ResultIsSound(f) ==
    LET b == bundle[fetch[f].dir]
    IN  /\ fetch[f].result = "verified" => fetch[f].got = {blob \in b.listed : b.verdict[blob] = "good"}
        /\ FallsBack(fetch[f].result) => (~b.hasImage \/ \A blob \in b.listed : b.verdict[blob] = "other")
        /\ fetch[f].result = "denied" => RefusedFor(f)

FetchInv ==
    /\ swaps = [d \in Dirs |-> swaps[d]] /\ fetch = [f \in Fetches |-> fetch[f]]
    /\ \A d : Pinned(d) => PinIsSafe(d)
    /\ \A f \in Fetches : FetchShape(f) /\ (fetch[f].pc = "done" => ResultIsSound(f))

-----------------------------------------------------------------------------
(* The store *)

\* The directory found under a name.
LEMMA AtName ==
    ASSUME NEW name
    PROVE  /\ Holds(name) <=> At(name) # Nobody
           /\ At(name) # Nobody => At(name) \in Dirs /\ place[At(name)] = name
BY DirsAssumption DEF At, Holds, Dirs

\* A step of one import changes its own directory, and others only between the
\* names of stores.
OneImports(i) ==
    /\ import' = [import EXCEPT ![i] = import'[i]]
    /\ place' = [d \in Dirs |-> place'[d]]
    /\ bundle' = [bundle EXCEPT ![i] = bundle'[i]]
    /\ offline' = offline
    /\ faults' \subseteq {"crash", "rename", "overlap"}
    /\ \A d \in Dirs \ {i} : \/ place'[d] = place[d]
                             \/ place[d] \in {"store", "backup"} /\ place'[d] \in {"store", "backup", "gone"}

\* One step of an import keeps what is known of it.
LEMMA ImportStep ==
    ASSUME StoreInv, NEW i \in Imports, OneImports(i), ImportShape(i)', KnownVerdicts(bundle'[i]),
           MustBeValid(i)' => IsValid(i)'
    PROVE  DiskTypes' /\ ValidIsValid'
<1>1. DiskTypes /\ ValidIsValid /\ i \in Dirs
  BY DEF StoreInv, Dirs
<1>2. \A j \in Imports \ {i} : import'[j] = import[j] /\ bundle'[j] = bundle[j] /\ j \in Dirs
  BY <1>1 DEF OneImports, DiskTypes, Dirs
<1>3. \A d \in Dirs \ {i} : bundle'[d] = bundle[d]
  BY <1>1 DEF OneImports, DiskTypes
<1>4. ASSUME NEW j \in Imports \ {i} PROVE ImportShape(j)' /\ (MustBeValid(j)' => MustBeValid(j))
  <2>1. \/ place'[j] = place[j]
        \/ place[j] \in {"store", "backup"} /\ place'[j] \in {"store", "backup", "gone"}
    BY <1>2 DEF OneImports
  <2>2. ImportShape(j)
    BY <1>1 DEF DiskTypes
  <2>3. ImportShape(j)'
    BY <1>2, <2>1, <2>2 DEF ImportShape, Swapped
  <2>4. MustBeValid(j)' => MustBeValid(j)
    BY <1>2, <2>1 DEF MustBeValid
  <2> QED BY <2>3, <2>4
<1>5. ASSUME NEW j \in Imports \ {i} PROVE IsValid(j) => IsValid(j)'
  BY <1>2 DEF IsValid, OneImports
<1>6. /\ bundle' = [d \in Dirs |-> bundle'[d]] /\ place' = [d \in Dirs |-> place'[d]]
      /\ import' = [j \in Imports |-> import'[j]]
      /\ \A d \in Dirs : KnownVerdicts(bundle'[d])
  BY <1>1, <1>3 DEF OneImports, DiskTypes
<1>7. DiskTypes'
  BY <1>4, <1>6 DEF DiskTypes, OneImports, KnownVerdicts
<1>8. ValidIsValid'
  BY <1>1, <1>4, <1>5 DEF ValidIsValid
<1> QED BY <1>7, <1>8

\* An import that is not swapping leaves the store and the backup alone.
LEMMA QuietStep ==
    ASSUME Alone, StoreStands, faults' = faults,
           Holds("store")' <=> Holds("store"), Holds("backup")' <=> Holds("backup"),
           NEW i \in Imports, import[i] \notin Swapped, import'[i] \notin Swapped,
           \A j \in Imports \ {i} : import'[j] = import[j]
    PROVE  Alone' /\ StoreStands'
<1>1. \A j \in Imports : /\ import'[j] \in Swapped <=> import[j] \in Swapped
                         /\ import'[j] = "cleared" <=> import[j] = "cleared"
                         /\ import'[j] = "aside" <=> import[j] = "aside"
  BY DEF Swapped
<1> QED BY <1>1 DEF Alone, StoreStands

\* Every step keeps the store.
LEMMA StoreStep == StoreInv /\ [NextBundle]_varsBundle => StoreInv'
<1> SUFFICES ASSUME StoreInv, [NextBundle]_varsBundle PROVE StoreInv'
  OBVIOUS
<1>0. /\ DiskTypes /\ ValidIsValid /\ Alone /\ StoreStands
      /\ \A i \in Imports : i \in Dirs /\ ImportShape(i)
  BY DEF StoreInv, DiskTypes, Dirs
<1>1. ASSUME NEW i \in Imports, extractTarGz(i) PROVE StoreInv'
  <2>1. PICK b \in Bundles :
          /\ bundle' = [bundle EXCEPT ![i] = b]
          /\ \/ place' = [place EXCEPT ![i] = "tmp"] /\ import' = [import EXCEPT ![i] = "extracted"]
             \/ place' = place /\ import' = [import EXCEPT ![i] = "failed"]
    BY Zenon, <1>1 DEF extractTarGz
  <2>2. import[i] = "idle" /\ place[i] = "none" /\ offline' = offline /\ faults' = faults
    BY <1>0, <1>1 DEF extractTarGz, ImportShape
  <2>3. /\ bundle'[i] = b
        /\ \/ place'[i] = "tmp" /\ import'[i] = "extracted"
           \/ place'[i] = "none" /\ import'[i] = "failed"
        /\ \A d \in Dirs \ {i} : place'[d] = place[d]
        /\ \A j \in Imports \ {i} : import'[j] = import[j]
    BY <1>0, <2>1, <2>2 DEF DiskTypes
  <2>4. OneImports(i)
    BY Zenon, <1>0, <2>1, <2>2, <2>3 DEF OneImports, DiskTypes
  <2>5. ImportShape(i)' /\ ~MustBeValid(i)' /\ KnownVerdicts(bundle'[i])
    BY <2>3, BundlesAssumption DEF ImportShape, MustBeValid, Swapped
  <2>6. DiskTypes' /\ ValidIsValid'
    BY <2>4, <2>5, ImportStep
  <2>7. (Holds("store")' <=> Holds("store")) /\ (Holds("backup")' <=> Holds("backup"))
    BY <2>2, <2>3 DEF Holds, Dirs
  <2>8. Alone' /\ StoreStands'
    BY <1>0, <2>2, <2>3, <2>7, QuietStep DEF Swapped
  <2> QED BY <2>6, <2>8 DEF StoreInv
<1>2. ASSUME NEW i \in Imports, Validate(i) PROVE StoreInv'
  <2>1. import[i] = "extracted" /\ place[i] = "tmp"
    BY <1>0, <1>2 DEF Validate, ImportShape
  <2>2. /\ bundle' = bundle /\ offline' = offline /\ faults' = faults
        /\ \/ Validated(i) /\ import' = [import EXCEPT ![i] = "valid"] /\ place' = place
           \/ import' = [import EXCEPT ![i] = "failed"] /\ place' = [place EXCEPT ![i] = "gone"]
    BY <1>2 DEF Validate
  <2>3. /\ \/ Validated(i) /\ place'[i] = "tmp" /\ import'[i] = "valid"
           \/ place'[i] = "gone" /\ import'[i] = "failed"
        /\ \A d \in Dirs \ {i} : place'[d] = place[d]
        /\ \A j \in Imports \ {i} : import'[j] = import[j]
    BY <1>0, <2>1, <2>2 DEF DiskTypes
  <2>4. OneImports(i)
    BY <1>0, <2>2, <2>3 DEF OneImports, DiskTypes
  <2>5. Validated(i) => IsValid(i)'
    BY Zenon, <2>2 DEF Validated, OpenStore, SignatureHolds, VerifyBlobIntegrity, readBlob, IsValid
  <2>6. ImportShape(i)' /\ (MustBeValid(i)' => IsValid(i)') /\ KnownVerdicts(bundle'[i])
    BY <1>0, <2>2, <2>3, <2>5 DEF ImportShape, MustBeValid, Swapped, DiskTypes
  <2>7. DiskTypes' /\ ValidIsValid'
    BY <2>4, <2>6, ImportStep
  <2>8. (Holds("store")' <=> Holds("store")) /\ (Holds("backup")' <=> Holds("backup"))
    BY <2>1, <2>3 DEF Holds, Dirs
  <2>9. Alone' /\ StoreStands'
    BY <1>0, <2>1, <2>2, <2>3, <2>8, QuietStep DEF Swapped
  <2> QED BY <2>7, <2>9 DEF StoreInv
<1>3. ASSUME NEW i \in Imports, RemoveBackup(i) PROVE StoreInv'
  <2>1. import[i] = "valid" /\ place[i] = "tmp" /\ IsValid(i)
    BY <1>0, <1>3 DEF RemoveBackup, ImportShape, ValidIsValid, MustBeValid
  <2>2. /\ bundle' = bundle /\ offline' = offline /\ faults' = faults \union Overlap(i)
        /\ import' = [import EXCEPT ![i] = "cleared"]
        /\ place' = [d \in Dirs |-> IF place[d] = "backup" THEN "gone" ELSE place[d]]
    BY <1>3 DEF RemoveBackup
  <2>3. /\ import'[i] = "cleared" /\ place'[i] = "tmp"
        /\ \A d \in Dirs : place'[d] = IF place[d] = "backup" THEN "gone" ELSE place[d]
        /\ \A j \in Imports \ {i} : import'[j] = import[j]
    BY <1>0, <2>1, <2>2 DEF DiskTypes
  <2>4. OneImports(i)
    BY <1>0, <2>2, <2>3 DEF OneImports, DiskTypes, Overlap
  <2>5. ImportShape(i)' /\ IsValid(i)' /\ KnownVerdicts(bundle'[i])
    BY <1>0, <2>1, <2>2, <2>3 DEF ImportShape, IsValid, Swapped, DiskTypes
  <2>6. DiskTypes' /\ ValidIsValid'
    BY <2>4, <2>5, ImportStep
  <2>7. (Holds("store")' <=> Holds("store")) /\ ~Holds("backup")'
    BY <2>3 DEF Holds, Dirs
  <2>8. StoreStands'
    <3>1. (\E j \in Imports : import[j] = "aside") => \E j \in Imports : import'[j] = "aside"
      BY <2>1, <2>3
    <3> QED BY <1>0, <2>2, <2>7, <3>1 DEF StoreStands
  <2>9. Alone'
    <3> SUFFICES ASSUME faults' \subseteq {"rename"} PROVE Alone'
      BY DEF Alone
    <3>1. faults \subseteq {"rename"} /\ \A j \in Imports \ {i} : import'[j] \notin Swapped
      BY <2>2, <2>3 DEF Overlap, Swapped
    <3>2. Holds("store")
      BY <1>0, <2>1, <2>3, <3>1 DEF StoreStands, Swapped
    <3> QED BY <2>3, <2>7, <3>1, <3>2 DEF Alone, Swapped
  <2> QED BY <2>6, <2>8, <2>9 DEF StoreInv
<1>4. ASSUME NEW i \in Imports, MoveAside(i) PROVE StoreInv'
  <2>1. import[i] = "cleared" /\ place[i] = "tmp" /\ IsValid(i)
    BY <1>0, <1>4 DEF MoveAside, ImportShape, ValidIsValid, MustBeValid, Swapped
  <2>2. bundle' = bundle /\ offline' = offline /\ faults' = faults
    BY <1>4 DEF MoveAside
  <2>3. CASE ~Holds("store") /\ import' = [import EXCEPT ![i] = "aside"] /\ place' = place
    <3>1. /\ import'[i] = "aside" /\ place'[i] = "tmp"
          /\ \A j \in Imports \ {i} : import'[j] = import[j]
      BY <1>0, <2>1, <2>3 DEF DiskTypes
    <3>2. OneImports(i) /\ ImportShape(i)' /\ IsValid(i)' /\ KnownVerdicts(bundle'[i])
      BY <1>0, <2>1, <2>2, <2>3, <3>1 DEF OneImports, DiskTypes, ImportShape, IsValid, Swapped
    <3>3. DiskTypes' /\ ValidIsValid'
      BY <3>2, ImportStep
    <3>4. Alone' /\ StoreStands'
      BY <1>0, <2>1, <2>2, <2>3, <3>1 DEF Alone, StoreStands
    <3> QED BY <3>3, <3>4 DEF StoreInv
  <2>4. ASSUME NEW s \in Dirs, place[s] = "store", import' = [import EXCEPT ![i] = "aside"],
               place' = [place EXCEPT ![s] = "backup"]
        PROVE  StoreInv'
    <3>1. /\ import'[i] = "aside" /\ place'[i] = "tmp" /\ place'[s] = "backup" /\ s # i
          /\ \A d \in Dirs \ {s} : place'[d] = place[d]
          /\ \A j \in Imports \ {i} : import'[j] = import[j]
      BY <1>0, <2>1, <2>4 DEF DiskTypes
    <3>2. OneImports(i) /\ ImportShape(i)' /\ IsValid(i)' /\ KnownVerdicts(bundle'[i])
      BY Zenon, <1>0, <2>1, <2>2, <2>4, <3>1 DEF OneImports, DiskTypes, ImportShape, IsValid, Swapped
    <3>3. DiskTypes' /\ ValidIsValid'
      BY <3>2, ImportStep
    <3>4. Holds("backup")'
      BY <3>1 DEF Holds, Dirs
    <3>5. \A j \in Imports : import'[j] \in Swapped <=> import[j] \in Swapped
      BY <2>1, <3>1 DEF Swapped
    <3>6. Alone' /\ StoreStands'
      BY <1>0, <2>1, <2>2, <3>1, <3>4, <3>5 DEF Alone, StoreStands, Swapped
    <3> QED BY <3>3, <3>6 DEF StoreInv
  <2>5. CASE Holds("store") /\ Holds("backup") /\ Abandon(i, place)
    <3>1. /\ import'[i] = "failed" /\ place'[i] = "gone"
          /\ \A d \in Dirs \ {i} : place'[d] = place[d]
          /\ \A j \in Imports \ {i} : import'[j] = import[j]
      BY <1>0, <2>5 DEF DiskTypes, Abandon
    <3>2. OneImports(i) /\ ImportShape(i)' /\ ~MustBeValid(i)' /\ KnownVerdicts(bundle'[i])
      BY Zenon, <1>0, <2>2, <2>5, <3>1 DEF OneImports, DiskTypes, ImportShape, MustBeValid, Swapped, Abandon
    <3>3. DiskTypes' /\ ValidIsValid'
      BY <3>2, ImportStep
    <3>4. Holds("store")'
      BY <2>1, <2>5, <3>1 DEF Holds, Dirs
    <3>5. Alone' /\ StoreStands'
      BY <1>0, <2>1, <2>2, <2>5, <3>4 DEF Alone, StoreStands
    <3> QED BY <3>3, <3>5 DEF StoreInv
  <2> QED BY <1>4, <2>3, <2>4, <2>5, AtName DEF MoveAside
<1>5. ASSUME NEW i \in Imports, MoveIn(i) PROVE StoreInv'
  <2>1. import[i] = "aside" /\ place[i] = "tmp" /\ IsValid(i)
    BY <1>0, <1>5 DEF MoveIn, ImportShape, ValidIsValid, MustBeValid, Swapped
  <2>2. bundle' = bundle /\ offline' = offline /\ faults' \in {faults, faults \union {"rename"}}
    BY <1>5 DEF MoveIn
  <2>3. ASSUME \A j \in Imports \ {i} : import'[j] = import[j], import'[i] \notin Swapped,
               faults' \subseteq {"rename"} \/ faults' \subseteq {"overlap"} => Holds("store")'
        PROVE  Alone' /\ StoreStands'
    <3>1. faults' \subseteq {"rename"} => \A j \in Imports : import'[j] \notin Swapped
      BY <1>0, <2>1, <2>2, <2>3 DEF Alone, Swapped
    <3> QED BY <2>3, <3>1 DEF Alone, StoreStands, Swapped
  <2>4. CASE ~Holds("store") /\ import' = [import EXCEPT ![i] = "done"] /\ place' = [place EXCEPT ![i] = "store"]
    <3>1. /\ import'[i] = "done" /\ place'[i] = "store"
          /\ \A d \in Dirs \ {i} : place'[d] = place[d]
          /\ \A j \in Imports \ {i} : import'[j] = import[j]
      BY <1>0, <2>4 DEF DiskTypes
    <3>2. OneImports(i) /\ ImportShape(i)' /\ IsValid(i)' /\ KnownVerdicts(bundle'[i])
      BY Zenon, <1>0, <2>1, <2>2, <2>4, <3>1 DEF OneImports, DiskTypes, ImportShape, IsValid, Swapped
    <3>3. DiskTypes' /\ ValidIsValid'
      BY <3>2, ImportStep
    <3>4. Holds("store")' /\ import'[i] \notin Swapped
      BY <1>0, <3>1 DEF Holds, Dirs, Swapped
    <3> QED BY <2>3, <3>1, <3>3, <3>4 DEF StoreInv
  <2>5. CASE Abandon(i, Restored) /\ (Holds("store") \/ "rename" \in faults')
    <3>1. PICK s : /\ Restored = place \/ (s \in Dirs /\ place[s] = "backup" /\ Restored = [place EXCEPT ![s] = "store"])
                   /\ Holds("store") => Restored = place
                   /\ ~Holds("store") /\ Holds("backup") =>
                        s \in Dirs /\ place[s] = "backup" /\ Restored = [place EXCEPT ![s] = "store"]
      BY AtName DEF Restored
    <3>2. /\ import'[i] = "failed" /\ place'[i] = "gone"
          /\ \A d \in Dirs \ {i} : \/ place'[d] = place[d]
                                   \/ place[d] \in {"store", "backup"} /\ place'[d] \in {"store", "backup", "gone"}
          /\ \A j \in Imports \ {i} : import'[j] = import[j]
          /\ place' = [d \in Dirs |-> place'[d]]
      BY Zenon, <1>0, <2>1, <2>5, <3>1 DEF DiskTypes, Abandon
    <3>3. OneImports(i)
      BY <1>0, <2>2, <2>5, <3>2 DEF OneImports, DiskTypes, Abandon
    <3>4. DiskTypes' /\ ValidIsValid'
      <4>1. ImportShape(i)' /\ ~MustBeValid(i)' /\ KnownVerdicts(bundle'[i])
        BY <1>0, <2>2, <3>2 DEF DiskTypes, ImportShape, MustBeValid, Swapped
      <4> QED BY <3>3, <4>1, ImportStep
    <3>5. Holds("store") \/ Holds("backup") => Holds("store")'
      <4>1. Holds("store") => Holds("store")'
        BY <1>0, <2>1, <2>5, <3>1 DEF Holds, Abandon, DiskTypes
      <4>2. ~Holds("store") /\ Holds("backup") => s \in Dirs /\ s # i /\ place'[s] = "store"
        BY <1>0, <2>1, <2>5, <3>1 DEF Abandon, DiskTypes
      <4> QED BY <4>1, <4>2 DEF Holds, Dirs
    <3>6. faults' \subseteq {"rename"} \/ faults' \subseteq {"overlap"} => Holds("store")'
      BY <1>0, <2>1, <2>2, <2>5, <3>5 DEF Alone
    <3>7. import'[i] \notin Swapped
      BY <3>2 DEF Swapped
    <3> QED BY <2>3, <3>2, <3>4, <3>6, <3>7 DEF StoreInv
  <2> QED BY <1>5, <2>4, <2>5, AtName DEF MoveIn
<1>6. ASSUME NEW i \in Imports, CrashImport(i) PROVE StoreInv'
  <2>1. /\ import[i] \in {"extracted", "valid"} \union Swapped /\ import' = [import EXCEPT ![i] = "crashed"]
        /\ faults' = faults \union {"crash"} /\ bundle' = bundle /\ offline' = offline /\ place' = place
    BY <1>6 DEF CrashImport, Swapped
  <2>2. place'[i] = "tmp" /\ import'[i] = "crashed"
    BY <1>0, <2>1 DEF ImportShape, DiskTypes
  <2>3. OneImports(i) /\ ImportShape(i)' /\ ~MustBeValid(i)' /\ KnownVerdicts(bundle'[i])
    BY <1>0, <2>1, <2>2 DEF OneImports, DiskTypes, ImportShape, MustBeValid, Swapped
  <2>4. DiskTypes' /\ ValidIsValid'
    BY <2>3, ImportStep
  <2>5. Alone' /\ StoreStands'
    BY <2>1 DEF Alone, StoreStands
  <2> QED BY <2>4, <2>5 DEF StoreInv
<1>7. CASE UNCHANGED <<offline, bundle, place, import, faults>>
  <2>1. DiskTypes'
    BY <1>0, <1>7 DEF DiskTypes, ImportShape, KnownVerdicts
  <2>2. ValidIsValid'
    BY <1>0, <1>7 DEF ValidIsValid, MustBeValid, IsValid
  <2>3. (Holds("store")' <=> Holds("store")) /\ (Holds("backup")' <=> Holds("backup"))
    BY <1>7 DEF Holds
  <2>4. Alone' /\ StoreStands'
    BY <1>0, <1>7, <2>3 DEF Alone, StoreStands
  <2> QED BY <2>1, <2>2, <2>4 DEF StoreInv
<1>8. CASE UNCHANGED varsBundle
  BY <1>7, <1>8 DEF varsBundle, diskVars
<1>9. ASSUME NEW d \in Dirs, NEW blob, Tamper(d, blob) PROVE StoreInv'
  BY <1>7, <1>9 DEF Tamper
<1>10. CASE bundleStoreChangedOnDisk \/ createBundleFetcher \/ PublishFetcher \/ \E d \in Dirs : CloseFetcher(d)
  <2>1. UNCHANGED diskVars
    BY <1>10 DEF bundleStoreChangedOnDisk, createBundleFetcher, PublishFetcher, CloseFetcher
  <2> QED BY <1>7, <2>1 DEF diskVars
<1>11. ASSUME NEW f \in Fetches,
              \/ LoadFetcher(f) \/ Fetch(f) \/ verifyStoredAttestations(f)
              \/ \E blob \in fetch[f].left : ReadNext(f, blob)
       PROVE  StoreInv'
  <2>1. UNCHANGED diskVars
    BY Zenon, <1>11 DEF LoadFetcher, Fetch, verifyStoredAttestations, ReadNext
  <2> QED BY <1>7, <2>1 DEF diskVars
<1> QED BY <1>1, <1>2, <1>3, <1>4, <1>5, <1>6, <1>8, <1>9, <1>10, <1>11 DEF NextBundle

\* The faults of which the store is promised to survive any one.
LEMMA OneFault ==
    ASSUME faults \subseteq {"crash", "rename", "overlap"}, Cardinality(faults) <= 1, "crash" \notin faults
    PROVE  faults \subseteq {"rename"} \/ faults \subseteq {"overlap"}
<1> SUFFICES ASSUME "rename" \in faults, "overlap" \in faults PROVE FALSE
  OBVIOUS
<1>1. faults = {"rename", "overlap"}
  BY Zenon
<1>2. IsFiniteSet({"rename"}) /\ Cardinality({"rename"}) = 1
  BY Zenon, FS_Singleton
<1>3. Cardinality({"rename"} \union {"overlap"}) = 2
  BY <1>2, FS_AddElement
<1>4. faults = {"rename"} \union {"overlap"}
  BY <1>1
<1> QED BY <1>3, <1>4

\* The node starts with a store.
LEMMA StoreInit ==
    ASSUME NEW seeds, \A b \in seeds : KnownVerdicts(b)
    PROVE  InitBundle(seeds) => StoreInv
<1> SUFFICES ASSUME InitBundle(seeds) PROVE StoreInv
  OBVIOUS
<1>1. /\ \A i \in Imports : import[i] = "idle" /\ place[i] = "none" /\ i \in Dirs
      /\ Seed \in Dirs /\ place[Seed] = "store" /\ faults = {}
  BY DirsAssumption DEF InitBundle, Dirs
<1>2. DiskTypes
  BY <1>1 DEF InitBundle, DiskTypes, ImportShape, Swapped
<1>3. ValidIsValid
  BY <1>1 DEF ValidIsValid, MustBeValid, Swapped
<1>4. Holds("store")
  BY <1>1 DEF Holds
<1> QED BY <1>1, <1>2, <1>3, <1>4 DEF StoreInv, Alone, StoreStands, Swapped

\* Import and atomicSwapStore keep validated bundles, and a store, at the store
\* path, for any number of imports that run at once, fail and are killed.
THEOREM ImportsKeepTheStore ==
    ASSUME NEW seeds, \A b \in seeds : KnownVerdicts(b)
    PROVE  SpecBundle(seeds) => []StoreIsValidated
<1>1. StoreInv => StoreIsValidated
  <2> SUFFICES ASSUME StoreInv PROVE StoreIsValidated
    OBVIOUS
  <2>1. \A i \in Imports : place[i] \in {"store", "backup"} => IsValid(i)
    BY DEF StoreInv, ValidIsValid, MustBeValid
  <2>2. Cardinality(faults) <= 1 /\ "crash" \notin faults =>
          (\E i \in Imports : import[i] = "aside") \/ Holds("store")
    BY OneFault DEF StoreInv, DiskTypes, StoreStands
  <2> QED BY <2>1, <2>2, AtName DEF StoreIsValidated, IsValid
<1> QED BY <1>1, StoreInit, StoreStep, PTL DEF SpecBundle

-----------------------------------------------------------------------------
(* Fetches *)

\* A step on disk leaves a pinned directory the bundle it has.
PinsSurvive ==
    /\ UNCHANGED <<pluginVars, offline>> /\ tampered \subseteq tampered'
    /\ swaps' = [d \in Dirs |-> swaps'[d]]
    /\ \A d \in Dirs : PinIsSafe(d) =>
         PinIsSafe(d)' /\ bundle'[d] = bundle[d] /\ (place[d] = "gone" => place'[d] = "gone")

\* A fetch that does not move, on a bundle that does not change.
LEMMA FetchStands ==
    ASSUME NEW f, fetch'[f] = fetch[f], bundle'[fetch[f].dir] = bundle[fetch[f].dir],
           RefusedFor(f) => RefusedFor(f)'
    PROVE  /\ FetchShape(f) => FetchShape(f)'
           /\ ResultIsSound(f) => ResultIsSound(f)'
<1>1. FetchShape(f) => FetchShape(f)'
  BY DEF FetchShape
<1>2. /\ fetch'[f].result = fetch[f].result /\ fetch'[f].got = fetch[f].got
      /\ bundle'[fetch'[f].dir] = bundle[fetch[f].dir]
  OBVIOUS
<1>3. ResultIsSound(f) => ResultIsSound(f)'
  BY ONLY <1>2, RefusedFor(f) => RefusedFor(f)' DEF ResultIsSound, FallsBack
<1> QED BY <1>1, <1>3

\* A directory that a fetcher pins survives.
LEMMA SurvivedPins ==
    ASSUME FetchInv, PinsSurvive
    PROVE  FetchInv'
<1>1. UNCHANGED <<switch, pinnedDir, fetch, offline>>
  BY DEF PinsSurvive, pluginVars
<1>2. \A d : Pinned(d)' => Pinned(d)
  BY <1>1 DEF Pinned
<1>3. \A d : Pinned(d) => /\ d \in Dirs /\ PinIsSafe(d)' /\ bundle'[d] = bundle[d]
                          /\ place[d] = "gone" => place'[d] = "gone"
  BY DEF FetchInv, PinsSurvive, PinIsSafe
<1>4. ASSUME NEW f \in Fetches PROVE FetchShape(f)' /\ (fetch'[f].pc = "done" => ResultIsSound(f)')
  <2>1. FetchShape(f) /\ (fetch[f].pc = "done" => ResultIsSound(f))
    BY DEF FetchInv
  <2>2. CASE fetch[f].pc = "idle"
    BY <1>1, <2>1, <2>2 DEF FetchShape
  <2>3. CASE fetch[f].pc # "idle"
    <3>1. Pinned(fetch[f].dir)
      BY <2>3 DEF Pinned
    <3>2. /\ fetch'[f] = fetch[f] /\ bundle'[fetch[f].dir] = bundle[fetch[f].dir]
          /\ place[fetch[f].dir] = "gone" => place'[fetch[f].dir] = "gone"
      BY <1>1, <1>3, <3>1
    <3>3. RefusedFor(f) => RefusedFor(f)'
      BY <1>1, <3>2 DEF RefusedFor, CheckStaleness, verifySignature, SignatureHolds, PinsSurvive
    <3> QED BY <2>1, <3>2, <3>3, FetchStands
  <2> QED BY <2>2, <2>3
<1>5. fetch' = [f \in Fetches |-> fetch'[f]] /\ swaps' = [d \in Dirs |-> swaps'[d]]
  BY <1>1 DEF FetchInv, PinsSurvive
<1> QED BY <1>2, <1>3, <1>4, <1>5 DEF FetchInv

Unswapped == {"idle", "extracted", "valid"}

\* A step of one import on the names of the stores: it moves one aside after it
\* removed the backup, and removes the backup before that.
KeepsPins(i) ==
    /\ OneImports(i)
    /\ place[i] \in {"none", "tmp"}
    /\ import[i] \notin Unswapped => import'[i] \notin Unswapped
    /\ \A d \in Dirs : swaps[d] \subseteq swaps'[d]
    /\ \A d \in Dirs \ {i} : place[d] = "store" /\ place'[d] = "backup" =>
                               i \in swaps'[d] /\ import'[i] \notin Unswapped
    /\ \A d \in Dirs \ {i} : place[d] # "gone" /\ place'[d] = "gone" =>
                               i \in swaps'[d] /\ place[d] = "backup" /\ import[i] = "valid"

\* Every step keeps what is pinned.
LEMMA PinStep ==
    ASSUME StoreInv, NEW i \in Imports, KeepsPins(i), UNCHANGED pluginVars, tampered' = tampered,
           swaps' = [d \in Dirs |-> swaps'[d]]
    PROVE  PinsSurvive
<1>1. /\ bundle = [d \in Dirs |-> bundle[d]] /\ import = [j \in Imports |-> import[j]] /\ i \in Dirs
  BY DEF StoreInv, DiskTypes, Dirs
<1>2. /\ \A j \in Imports \ {i} : import'[j] = import[j]
      /\ \A d \in Dirs \ {i} : bundle'[d] = bundle[d]
  BY <1>1 DEF KeepsPins, OneImports
<1>3. ASSUME NEW d \in Dirs, PinIsSafe(d)
      PROVE  PinIsSafe(d)' /\ bundle'[d] = bundle[d] /\ (place[d] = "gone" => place'[d] = "gone")
  <2>1. d # i
    BY <1>3 DEF PinIsSafe, KeepsPins
  <2>2. \/ place'[d] = place[d]
        \/ place[d] \in {"store", "backup"} /\ place'[d] \in {"store", "backup", "gone"}
    BY <2>1 DEF KeepsPins, OneImports
  <2>3. place'[d] \in {"store", "backup", "gone"} /\ (place[d] = "gone" => place'[d] = "gone")
    BY <1>3, <2>2 DEF PinIsSafe
  <2>4. ASSUME place'[d] = "backup"
        PROVE  \E k \in swaps'[d] : k \in Imports /\ import'[k] \notin Unswapped
    <3>1. CASE place[d] = "store"
      BY <2>1, <2>4, <3>1 DEF KeepsPins
    <3>2. CASE place[d] # "store"
      <4>1. PICK k \in swaps[d] : k \in Imports /\ import[k] \notin Unswapped
        BY <1>3, <2>2, <2>4, <3>2 DEF PinIsSafe, Unswapped
      <4>2. k \in swaps'[d] /\ import'[k] \notin Unswapped
        BY <1>2, <4>1 DEF KeepsPins
      <4> QED BY <4>1, <4>2
    <3> QED BY <3>1, <3>2
  <2>5. ASSUME place'[d] = "gone"
        PROVE  \E j, k \in swaps'[d] : j # k
    <3>1. CASE place[d] = "gone"
      BY <1>3, <3>1 DEF PinIsSafe, KeepsPins
    <3>2. CASE place[d] # "gone"
      <4>1. i \in swaps'[d] /\ place[d] = "backup" /\ import[i] = "valid"
        BY <2>1, <2>5, <3>2 DEF KeepsPins
      <4>2. PICK k \in swaps[d] : k \in Imports /\ import[k] \notin Unswapped
        BY <1>3, <4>1 DEF PinIsSafe, Unswapped
      <4>3. k \in swaps'[d] /\ k # i
        BY <4>1, <4>2 DEF KeepsPins, Unswapped
      <4> QED BY <4>1, <4>3
    <3> QED BY <3>1, <3>2
  <2>6. PinIsSafe(d)'
    BY <2>3, <2>4, <2>5 DEF PinIsSafe, Unswapped
  <2> QED BY <1>2, <2>1, <2>3, <2>6
<1> QED BY <1>3 DEF PinsSurvive, KeepsPins, OneImports

\* Every step of an import, and a change of a blob, keep what the fetches rely on.
LEMMA DiskKeepsFetches ==
    ASSUME StoreInv, FetchInv,
           \/ \E i \in Imports : \/ extractTarGz(i) \/ Validate(i) \/ RemoveBackup(i)
                                 \/ MoveAside(i) \/ MoveIn(i) \/ CrashImport(i)
           \/ \E d \in Dirs : \E blob \in bundle[d].held : Tamper(d, blob)
    PROVE  FetchInv'
<1>0. /\ bundle = [d \in Dirs |-> bundle[d]] /\ place = [d \in Dirs |-> place[d]]
      /\ swaps = [d \in Dirs |-> swaps[d]]
      /\ import = [i \in Imports |-> import[i]] /\ faults \subseteq {"crash", "rename", "overlap"}
      /\ \A i \in Imports : i \in Dirs /\ ImportShape(i)
  BY DEF StoreInv, DiskTypes, Dirs, FetchInv
<1>1. ASSUME NEW i \in Imports, extractTarGz(i) PROVE FetchInv'
  <2>1. place[i] = "none" /\ UNCHANGED <<offline, faults, tampered, pluginVars, swaps>>
    BY <1>0, <1>1 DEF extractTarGz, ImportShape
  <2>2. PICK b \in Bundles :
          /\ bundle' = [bundle EXCEPT ![i] = b]
          /\ \/ place' = [place EXCEPT ![i] = "tmp"] /\ import' = [import EXCEPT ![i] = "extracted"]
             \/ place' = place /\ import' = [import EXCEPT ![i] = "failed"]
    BY Zenon, <1>1 DEF extractTarGz
  <2>3. OneImports(i) /\ \A d \in Dirs \ {i} : place'[d] = place[d]
    BY Zenon, <1>0, <2>1, <2>2 DEF OneImports
  <2>4. import[i] = "idle"
    BY <1>1 DEF extractTarGz
  <2>5. KeepsPins(i)
    BY <2>1, <2>3, <2>4 DEF KeepsPins, Unswapped
  <2> QED BY <1>0, <2>1, <2>5, PinStep, SurvivedPins
<1>2. ASSUME NEW i \in Imports, Validate(i) PROVE FetchInv'
  <2>1. /\ place[i] = "tmp" /\ import[i] = "extracted"
        /\ UNCHANGED <<offline, bundle, faults, tampered, pluginVars, swaps>>
    BY <1>0, <1>2 DEF Validate, ImportShape
  <2>2. \/ import' = [import EXCEPT ![i] = "valid"] /\ place' = place
        \/ import' = [import EXCEPT ![i] = "failed"] /\ place' = [place EXCEPT ![i] = "gone"]
    BY <1>2 DEF Validate
  <2>3. OneImports(i) /\ \A d \in Dirs \ {i} : place'[d] = place[d]
    BY <1>0, <2>1, <2>2 DEF OneImports
  <2>4. KeepsPins(i)
    BY <2>1, <2>3 DEF KeepsPins, Unswapped
  <2> QED BY <1>0, <2>1, <2>4, PinStep, SurvivedPins
<1>3. ASSUME NEW i \in Imports, RemoveBackup(i) PROVE FetchInv'
  <2>1. /\ place[i] = "tmp" /\ import[i] = "valid"
        /\ UNCHANGED <<offline, bundle, tampered, pluginVars>>
        /\ faults' = faults \union Overlap(i)
        /\ import' = [import EXCEPT ![i] = "cleared"]
        /\ place' = [d \in Dirs |-> IF place[d] = "backup" THEN "gone" ELSE place[d]]
        /\ swaps' = [d \in Dirs |-> swaps[d] \union {i}]
    BY <1>0, <1>3 DEF RemoveBackup, ImportShape, Swapping
  <2>2. OneImports(i)
    BY <1>0, <2>1 DEF OneImports, Overlap
  <2>3. KeepsPins(i)
    BY <2>1, <2>2 DEF KeepsPins, Unswapped
  <2>4. swaps' = [d \in Dirs |-> swaps'[d]]
    BY <2>1
  <2> QED BY <2>1, <2>3, <2>4, PinStep, SurvivedPins
<1>4. ASSUME NEW i \in Imports, MoveAside(i) PROVE FetchInv'
  <2>1. /\ place[i] = "tmp" /\ import[i] = "cleared"
        /\ UNCHANGED <<offline, bundle, faults, tampered, pluginVars>>
    BY <1>0, <1>4 DEF MoveAside, ImportShape, Swapped
  <2>2. CASE import' = [import EXCEPT ![i] = "aside"] /\ place' = place /\ swaps' = swaps
    <3>1. OneImports(i) /\ import'[i] = "aside"
      BY <1>0, <2>1, <2>2 DEF OneImports
    <3>2. KeepsPins(i)
      BY <2>1, <2>2, <3>1 DEF KeepsPins, Unswapped
    <3> QED BY <1>0, <2>1, <2>2, <3>2, PinStep, SurvivedPins
  <2>3. ASSUME NEW s \in Dirs, place[s] = "store", import' = [import EXCEPT ![i] = "aside"],
               place' = [place EXCEPT ![s] = "backup"], swaps' = Swapping(i)
        PROVE  FetchInv'
    <3>1. /\ OneImports(i) /\ import'[i] = "aside"
          /\ \A d \in Dirs \ {s} : place'[d] = place[d]
          /\ place'[s] = "backup"
      BY Zenon, <1>0, <2>1, <2>3 DEF OneImports
    <3>2. swaps' = [d \in Dirs |-> swaps'[d]] /\ \A d \in Dirs : swaps'[d] = swaps[d] \union {i}
      BY <2>3 DEF Swapping
    <3>3. KeepsPins(i)
      BY <2>1, <2>3, <3>1, <3>2 DEF KeepsPins, Unswapped
    <3> QED BY <2>1, <3>2, <3>3, PinStep, SurvivedPins
  <2>4. CASE Abandon(i, place) /\ swaps' = swaps
    <3>1. OneImports(i) /\ import'[i] = "failed" /\ \A d \in Dirs \ {i} : place'[d] = place[d]
      BY Zenon, <1>0, <2>1, <2>4 DEF OneImports, Abandon
    <3>2. KeepsPins(i)
      BY <2>1, <2>4, <3>1 DEF KeepsPins, Unswapped
    <3> QED BY <1>0, <2>1, <2>4, <3>2, PinStep, SurvivedPins
  <2> QED BY <1>4, <2>2, <2>3, <2>4, AtName DEF MoveAside
<1>5. ASSUME NEW i \in Imports, MoveIn(i) PROVE FetchInv'
  <2>1. /\ place[i] = "tmp" /\ import[i] = "aside"
        /\ UNCHANGED <<offline, bundle, tampered, pluginVars, swaps>>
        /\ faults' \in {faults, faults \union {"rename"}}
    BY <1>0, <1>5 DEF MoveIn, ImportShape, Swapped
  <2>2. CASE import' = [import EXCEPT ![i] = "done"] /\ place' = [place EXCEPT ![i] = "store"]
    <3>1. OneImports(i) /\ import'[i] = "done" /\ \A d \in Dirs \ {i} : place'[d] = place[d]
      BY Zenon, <1>0, <2>1, <2>2 DEF OneImports
    <3>2. KeepsPins(i)
      BY <2>1, <2>2, <3>1 DEF KeepsPins, Unswapped
    <3> QED BY <1>0, <2>1, <3>2, PinStep, SurvivedPins
  <2>3. CASE Abandon(i, Restored)
    <3>1. \E s \in Dirs : \/ Restored = place
                          \/ place[s] = "backup" /\ Restored = [place EXCEPT ![s] = "store"]
      BY Zenon, <1>0, AtName DEF Restored
    <3>2. /\ import' = [import EXCEPT ![i] = "failed"]
          /\ \A d \in Dirs \ {i} : \/ place'[d] = place[d]
                                   \/ place[d] = "backup" /\ place'[d] = "store"
          /\ place' = [d \in Dirs |-> place'[d]]
      BY Zenon, <1>0, <2>3, <3>1 DEF Abandon
    <3>3. OneImports(i) /\ import'[i] = "failed"
      BY <1>0, <2>1, <3>2 DEF OneImports
    <3>4. KeepsPins(i)
      BY <2>1, <3>2, <3>3 DEF KeepsPins, Unswapped
    <3> QED BY <1>0, <2>1, <3>4, PinStep, SurvivedPins
  <2> QED BY <1>5, <2>2, <2>3 DEF MoveIn
<1>6. ASSUME NEW i \in Imports, CrashImport(i) PROVE FetchInv'
  <2>1. /\ place[i] = "tmp" /\ import' = [import EXCEPT ![i] = "crashed"] /\ import'[i] = "crashed"
        /\ UNCHANGED <<offline, bundle, place, tampered, pluginVars, swaps>>
        /\ faults' = faults \union {"crash"}
    BY <1>0, <1>6 DEF CrashImport, ImportShape, Swapped
  <2>2. OneImports(i)
    BY <1>0, <2>1 DEF OneImports
  <2>3. KeepsPins(i)
    BY <2>1, <2>2 DEF KeepsPins, Unswapped
  <2> QED BY <1>0, <2>1, <2>3, PinStep, SurvivedPins
<1>7. ASSUME NEW d \in Dirs, NEW blob \in bundle[d].held, Tamper(d, blob) PROVE FetchInv'
  <2>1. UNCHANGED <<offline, bundle, place, import, pluginVars, swaps>> /\ tampered \subseteq tampered'
    BY <1>7 DEF Tamper
  <2>2. PinsSurvive
    BY <1>0, <2>1 DEF PinsSurvive, PinIsSafe
  <2> QED BY <2>2, SurvivedPins
<1> QED BY <1>1, <1>2, <1>3, <1>4, <1>5, <1>6, <1>7

\* A reason to refuse a fetch stays one.
LEMMA RefusalStands ==
    ASSUME NEW f, fetch'[f].dir = fetch[f].dir, UNCHANGED diskVars, RefusedFor(f)
    PROVE  RefusedFor(f)'
BY DEF RefusedFor, CheckStaleness, verifySignature, SignatureHolds, diskVars

\* A step of one fetch, on the directory it has pinned.
LEMMA FetchMoves ==
    ASSUME FetchInv, NEW f \in Fetches, NEW c, fetch' = [fetch EXCEPT ![f] = c],
           UNCHANGED <<diskVars, switch, pinnedDir, swaps>>, Pinned(c.dir),
           FetchShape(f)', c.pc = "done" => ResultIsSound(f)'
    PROVE  FetchInv'
<1>1. fetch'[f] = c /\ \A g \in Fetches \ {f} : fetch'[g] = fetch[g]
  BY DEF FetchInv
<1>2. \A d : Pinned(d)' => Pinned(d)
  BY <1>1 DEF Pinned
<1>3. \A d : Pinned(d)' => PinIsSafe(d)'
  BY <1>2 DEF FetchInv, PinIsSafe, diskVars
<1>4. ASSUME NEW g \in Fetches \ {f} PROVE FetchShape(g)' /\ (fetch'[g].pc = "done" => ResultIsSound(g)')
  <2>1. FetchShape(g) /\ (fetch[g].pc = "done" => ResultIsSound(g)) /\ fetch'[g] = fetch[g]
    BY <1>1 DEF FetchInv
  <2>2. RefusedFor(g) => RefusedFor(g)'
    BY <2>1, RefusalStands
  <2>3. bundle' = bundle
    BY DEF diskVars
  <2> QED BY <2>1, <2>2, <2>3, FetchStands
<1>5. fetch' = [g \in Fetches |-> fetch'[g]] /\ swaps' = [d \in Dirs |-> swaps'[d]]
  BY DEF FetchInv, diskVars
<1> QED BY <1>1, <1>3, <1>4, <1>5 DEF FetchInv

\* A fetch that ends without attestations.
LEMMA FetchEnds ==
    ASSUME FetchInv, NEW f \in Fetches, fetch[f].pc # "idle", NEW r, Result(f, r),
           UNCHANGED <<diskVars, switch, pinnedDir, swaps>>,
           r # "verified", FallsBack(r) => ~bundle[fetch[f].dir].hasImage, r = "denied" => RefusedFor(f)
    PROVE  FetchInv'
<1> DEFINE c == [fetch[f] EXCEPT !.pc = "done", !.result = r]
<1>1. FetchShape(f) /\ fetch = [g \in Fetches |-> fetch[g]]
  BY DEF FetchInv
<1>2. /\ DOMAIN c = DOMAIN fetch[f] /\ c.pc = "done" /\ c.result = r
      /\ c.dir = fetch[f].dir /\ c.got = fetch[f].got
  BY <1>1 DEF FetchShape
<1>3. fetch' = [fetch EXCEPT ![f] = c] /\ fetch'[f] = c
  BY <1>1 DEF Result
<1> HIDE DEF c
<1>4. Pinned(c.dir)
  BY <1>2 DEF Pinned
<1>5. FetchShape(f)'
  BY <1>1, <1>2, <1>3 DEF FetchShape
<1>6. RefusedFor(f) => RefusedFor(f)'
  BY <1>2, <1>3, RefusalStands
<1>7. ResultIsSound(f)'
  BY <1>2, <1>3, <1>6 DEF ResultIsSound, diskVars
<1> QED BY Zenon, <1>3, <1>4, <1>5, <1>7, FetchMoves

\* What verifying every attestation of a bundle says of them.
LEMMA StoredResult ==
    ASSUME NEW b, KnownVerdicts(b), NEW verdicts, verdicts = {b.verdict[blob] : blob \in b.listed},
           "material" \notin verdicts
    PROVE  /\ storedVerificationResult(verdicts) # "denied"
           /\ FallsBack(storedVerificationResult(verdicts)) => \A blob \in b.listed : b.verdict[blob] = "other"
<1>1. CASE "good" \in verdicts
  BY <1>1 DEF storedVerificationResult, FallsBack
<1>2. CASE "good" \notin verdicts /\ "key" \in verdicts
  BY <1>2 DEF storedVerificationResult, FallsBack
<1>3. CASE "good" \notin verdicts /\ "key" \notin verdicts /\ "bad" \in verdicts
  <2>1. verdicts \cap {"good", "key"} = {}
    BY <1>3
  <2> QED BY <1>3, <2>1 DEF storedVerificationResult, FallsBack
<1>4. CASE "good" \notin verdicts /\ "key" \notin verdicts /\ "bad" \notin verdicts
  <2>1. \A blob \in b.listed : b.verdict[blob] = "other"
    BY <1>4 DEF KnownVerdicts
  <2>2. storedVerificationResult(verdicts) = "none"
    BY <1>4 DEF storedVerificationResult
  <2> QED BY <2>1, <2>2
<1> QED BY <1>1, <1>2, <1>3, <1>4

\* Every step keeps what is known of the fetches.
LEMMA FetchStep == StoreInv /\ FetchInv /\ [NextBundle]_varsBundle => FetchInv'
<1> SUFFICES ASSUME StoreInv, FetchInv, [NextBundle]_varsBundle PROVE FetchInv'
  OBVIOUS
<1>0. /\ fetch = [f \in Fetches |-> fetch[f]] /\ swaps = [d \in Dirs |-> swaps[d]]
      /\ \A f \in Fetches : FetchShape(f)
  BY DEF FetchInv
<1>1. CASE UNCHANGED <<diskVars, fetch, swaps>> /\ \A d : Pinned(d)' => Pinned(d)
  <2>1. \A d : Pinned(d)' => PinIsSafe(d)'
    BY <1>1 DEF FetchInv, PinIsSafe, diskVars
  <2>2. ASSUME NEW f \in Fetches PROVE FetchShape(f)' /\ (fetch'[f].pc = "done" => ResultIsSound(f)')
    <3>1. fetch' = fetch /\ bundle' = bundle
      BY <1>1 DEF diskVars
    <3>2. RefusedFor(f) => RefusedFor(f)'
      BY <1>1, RefusalStands
    <3> QED BY <3>1, <3>2, FetchStands DEF FetchInv
  <2> QED BY <1>0, <1>1, <2>1, <2>2 DEF FetchInv
<1>2. CASE bundleStoreChangedOnDisk \/ PublishFetcher \/ (\E d \in Dirs : CloseFetcher(d)) \/ UNCHANGED varsBundle
  <2>1. UNCHANGED <<diskVars, fetch, swaps>>
    BY <1>2 DEF bundleStoreChangedOnDisk, PublishFetcher, CloseFetcher, varsBundle, diskVars, pluginVars
  <2>2. \A d : Pinned(d)' => Pinned(d)
    <3>1. CASE bundleStoreChangedOnDisk
      BY <3>1 DEF bundleStoreChangedOnDisk, Pinned
    <3>2. CASE PublishFetcher
      BY <3>2 DEF PublishFetcher, Pinned
    <3>3. CASE (\E d \in Dirs : CloseFetcher(d)) \/ UNCHANGED varsBundle
      BY <3>3 DEF CloseFetcher, varsBundle, diskVars, pluginVars, Pinned
    <3> QED BY <1>2, <3>1, <3>2, <3>3
  <2> QED BY <1>1, <2>1, <2>2
<1>3. CASE createBundleFetcher
  <2>1. CASE switch' = [pc |-> "idle"] /\ swaps' = swaps
    BY <1>1, <1>3, <2>1 DEF createBundleFetcher, Pinned
  <2>2. ASSUME NEW s \in Dirs, place[s] = "store", switch' = [pc |-> "pinned", dir |-> s],
               swaps' = [swaps EXCEPT ![s] = {}]
        PROVE  FetchInv'
    <3>1. UNCHANGED <<diskVars, fetch, pinnedDir>>
      BY <1>3 DEF createBundleFetcher
    <3>2. \A d : Pinned(d)' => d = s \/ Pinned(d)
      BY <2>2, <3>1 DEF Pinned
    <3>3. PinIsSafe(s)'
      BY <2>2, <3>1 DEF PinIsSafe, diskVars
    <3>4. ASSUME NEW d, d # s, PinIsSafe(d) PROVE PinIsSafe(d)'
      BY <1>0, <2>2, <3>1, <3>4 DEF PinIsSafe, diskVars
    <3>5. ASSUME NEW f \in Fetches PROVE FetchShape(f)' /\ (fetch'[f].pc = "done" => ResultIsSound(f)')
      <4>1. fetch' = fetch /\ bundle' = bundle
        BY <3>1 DEF diskVars
      <4>2. RefusedFor(f) => RefusedFor(f)'
        BY <3>1, RefusalStands
      <4> QED BY <4>1, <4>2, FetchStands DEF FetchInv
    <3>6. fetch' = [f \in Fetches |-> fetch'[f]] /\ swaps' = [d \in Dirs |-> swaps'[d]]
      BY <1>0, <2>2, <3>1
    <3>7. \A d : Pinned(d)' => PinIsSafe(d)'
      BY <3>2, <3>3, <3>4 DEF FetchInv
    <3> QED BY <3>5, <3>6, <3>7 DEF FetchInv
  <2> QED BY <1>3, <2>1, <2>2, AtName DEF createBundleFetcher, OpenStore
<1>4. ASSUME NEW f \in Fetches, LoadFetcher(f) PROVE FetchInv'
  <2> DEFINE c == [fetch[f] EXCEPT !.pc = "loaded", !.dir = pinnedDir]
  <2>1. fetch[f].pc = "idle" /\ fetch' = [fetch EXCEPT ![f] = c] /\ fetch'[f] = c
    BY <1>0, <1>4 DEF LoadFetcher
  <2>2. FetchShape(f)
    BY <1>0
  <2>3. DOMAIN c = DOMAIN fetch[f] /\ c.pc = "loaded" /\ c.dir = pinnedDir /\ c.got = fetch[f].got
    BY <2>2 DEF FetchShape
  <2> HIDE DEF c
  <2>4. FetchShape(f)'
    BY <2>1, <2>2, <2>3 DEF FetchShape
  <2>5. Pinned(c.dir) /\ UNCHANGED <<diskVars, switch, pinnedDir, swaps>>
    BY <1>4, <2>3 DEF Pinned, LoadFetcher
  <2> QED BY Zenon, <2>1, <2>3, <2>4, <2>5, FetchMoves
<1>5. ASSUME NEW f \in Fetches, Fetch(f) PROVE FetchInv'
  <2> DEFINE d == fetch[f].dir
             b == bundle[d]
  <2>1. fetch[f].pc = "loaded" /\ UNCHANGED <<diskVars, switch, pinnedDir, swaps>> /\ fetch[f].pc # "idle"
    BY <1>5 DEF Fetch
  <2>2. CASE Result(f, "closed")
    BY <2>1, <2>2, FetchEnds DEF FallsBack
  <2>3. CASE Result(f, "denied") /\ (CheckStaleness(b) \/ verifySignature(b) = "denied")
    <3>1. RefusedFor(f)
      BY <2>3 DEF RefusedFor
    <3> QED BY <2>1, <2>3, <3>1, FetchEnds DEF FallsBack
  <2>4. CASE Result(f, "unavailable")
    BY <2>1, <2>4, FetchEnds DEF FallsBack
  <2>5. CASE Result(f, "absent") /\ ~b.hasImage
    BY <2>1, <2>5, FetchEnds
  <2>6. CASE fetch' = [fetch EXCEPT ![f].pc = "reading", ![f].left = b.listed] /\ b.hasImage
    <3> DEFINE c == [fetch[f] EXCEPT !.pc = "reading", !.left = b.listed]
    <3>1. FetchShape(f)
      BY <1>0
    <3>2. fetch' = [fetch EXCEPT ![f] = c] /\ fetch'[f] = c
      BY Zenon, <1>0, <2>6
    <3>3. DOMAIN c = DOMAIN fetch[f] /\ c.pc = "reading" /\ c.dir = d /\ c.got = {} /\ c.left = b.listed
      BY <2>1, <3>1 DEF FetchShape
    <3> HIDE DEF c
    <3>4. FetchShape(f)'
      BY Zenon, <2>1, <2>6, <3>1, <3>2, <3>3 DEF FetchShape, diskVars
    <3>5. Pinned(c.dir)
      BY <2>1, <3>3 DEF Pinned
    <3> QED BY Zenon, <2>1, <3>2, <3>3, <3>4, <3>5, FetchMoves
  <2>7. \A signature \in checkSignature(d) : \/ signature = "ok" \/ signature = "unavailable"
                                             \/ signature = "denied" /\ verifySignature(b) = "denied"
    BY DEF checkSignature, verifySignature
  <2> HIDE DEF b, d
  <2>8. \/ Result(f, "closed")
        \/ Result(f, "denied") /\ CheckStaleness(b)
        \/ \E signature \in checkSignature(d) :
             CASE signature # "ok" -> Result(f, signature)
               [] signature = "ok" /\ ~b.hasImage -> Result(f, "absent")
               [] signature = "ok" /\ b.hasImage ->
                    fetch' = [fetch EXCEPT ![f].pc = "reading", ![f].left = b.listed]
    BY Zenon, <1>5 DEF Fetch, b, d
  <2>9. \/ Result(f, "closed") \/ Result(f, "unavailable")
        \/ Result(f, "denied") /\ (CheckStaleness(b) \/ verifySignature(b) = "denied")
        \/ Result(f, "absent") /\ ~b.hasImage
        \/ fetch' = [fetch EXCEPT ![f].pc = "reading", ![f].left = b.listed] /\ b.hasImage
    BY Zenon, <2>7, <2>8
  <2> QED BY <2>2, <2>3, <2>4, <2>5, <2>6, <2>9
<1>6. ASSUME NEW f \in Fetches, NEW blob \in fetch[f].left, ReadNext(f, blob) PROVE FetchInv'
  <2> DEFINE d == fetch[f].dir
             b == bundle[d]
  <2>1. /\ fetch[f].pc = "reading" /\ UNCHANGED <<diskVars, switch, pinnedDir, swaps>> /\ fetch[f].pc # "idle"
        /\ FetchShape(f)
    BY <1>0, <1>6 DEF ReadNext
  <2>2. CASE Result(f, "unavailable")
    BY <2>1, <2>2, FetchEnds DEF FallsBack
  <2>3. CASE isBlobIntegrityError(readBlob(d, blob)) /\ Result(f, "denied")
    <3>1. blob \in b.listed
      BY <2>1 DEF FetchShape
    <3>2. place[d] = "gone" \/ blob \notin b.held \/ <<d, blob>> \in tampered
      BY <2>3 DEF isBlobIntegrityError, readBlob
    <3>3. RefusedFor(f)
      BY <3>1, <3>2 DEF RefusedFor
    <3> QED BY <2>1, <2>3, <3>3, FetchEnds DEF FallsBack
  <2>4. CASE fetch' = [fetch EXCEPT ![f].left = @ \ {blob}, ![f].got = @ \union {blob}]
    <3> DEFINE c == [fetch[f] EXCEPT !.left = fetch[f].left \ {blob}, !.got = fetch[f].got \union {blob}]
    <3>1. fetch' = [fetch EXCEPT ![f] = c] /\ fetch'[f] = c
      BY Zenon, <1>0, <2>4
    <3>2. /\ DOMAIN c = DOMAIN fetch[f] /\ c.pc = "reading" /\ c.dir = d
          /\ c.left = fetch[f].left \ {blob} /\ c.got = fetch[f].got \union {blob}
      BY <2>1 DEF FetchShape
    <3> HIDE DEF c
    <3>3. c.left \subseteq b.listed /\ c.got = b.listed \ c.left /\ b.hasImage
      BY <2>1, <3>2 DEF FetchShape
    <3>4. FetchShape(f)'
      <4>1. bundle'[c.dir] = b
        BY <2>1, <3>2 DEF diskVars
      <4>2. DOMAIN c = {"pc", "dir", "left", "got", "result"}
        BY <2>1, <3>2 DEF FetchShape
      <4> HIDE DEF b
      <4> QED BY ONLY <3>1, <3>2, <3>3, <4>1, <4>2 DEF FetchShape
    <3>5. Pinned(c.dir)
      BY <2>1, <3>2 DEF Pinned
    <3> QED BY Zenon, <2>1, <3>1, <3>2, <3>4, <3>5, FetchMoves
  <2> QED BY <1>6, <2>2, <2>3, <2>4 DEF ReadNext
<1>7. ASSUME NEW f \in Fetches, verifyStoredAttestations(f) PROVE FetchInv'
  <2> DEFINE d == fetch[f].dir
             b == bundle[d]
             verdicts == {b.verdict[blob] : blob \in fetch[f].got}
             good == {blob \in fetch[f].got : b.verdict[blob] = "good"}
             c == [fetch[f] EXCEPT !.pc = "done", !.result = storedVerificationResult(verdicts), !.got = good]
  <2>1. /\ fetch[f].pc = "reading" /\ UNCHANGED <<diskVars, switch, pinnedDir, swaps>> /\ fetch[f].pc # "idle"
        /\ FetchShape(f) /\ fetch[f].left = {}
    BY <1>0, <1>7 DEF verifyStoredAttestations
  <2>2. CASE Result(f, "unavailable")
    BY <2>1, <2>2, FetchEnds DEF FallsBack
  <2>3. CASE /\ "material" \notin verdicts
             /\ fetch' = [fetch EXCEPT ![f].pc = "done", ![f].result = storedVerificationResult(verdicts),
                                       ![f].got = good]
    <3>1. fetch' = [fetch EXCEPT ![f] = c] /\ fetch'[f] = c
      BY Zenon, <1>0, <2>3
    <3>2. /\ DOMAIN c = DOMAIN fetch[f] /\ c.pc = "done" /\ c.dir = d
          /\ c.result = storedVerificationResult(verdicts) /\ c.got = good
      BY <2>1 DEF FetchShape
    <3>3. fetch[f].got = b.listed
      BY <2>1 DEF FetchShape
    <3>4. KnownVerdicts(b) /\ Pinned(d)
      <4>1. Pinned(d)
        BY <2>1 DEF Pinned
      <4> QED BY Zenon, <4>1 DEF FetchInv, PinIsSafe, StoreInv, DiskTypes
    <3>5. c.got = {blob \in b.listed : b.verdict[blob] = "good"}
      BY <3>2, <3>3
    <3>6. verdicts = {b.verdict[blob] : blob \in b.listed} /\ "material" \notin verdicts
      BY Zenon, <2>3, <3>3
    <3> HIDE DEF c, verdicts, b, d
    <3>7. /\ c.result # "denied"
          /\ FallsBack(c.result) => \A blob \in b.listed : b.verdict[blob] = "other"
      BY <3>2, <3>4, <3>6, StoredResult
    <3>8. fetch' = [fetch EXCEPT ![f] = c] /\ bundle'[c.dir] = b
      BY <2>1, <3>1, <3>2 DEF b, d, diskVars
    <3>9. FetchShape(f)'
      BY Zenon, <2>1, <3>1, <3>2 DEF FetchShape
    <3>10. ResultIsSound(f)'
      BY <3>1, <3>5, <3>7, <3>8 DEF ResultIsSound
    <3>11. Pinned(c.dir)
      BY <3>2, <3>4
    <3> QED BY ONLY FetchInv, f \in Fetches, <2>1, <3>8, <3>9, <3>10, <3>11, FetchMoves
  <2> QED BY Zenon, <1>7, <2>2, <2>3 DEF verifyStoredAttestations
<1> QED BY <1>2, <1>3, <1>4, <1>5, <1>6, <1>7, DiskKeepsFetches DEF NextBundle

\* What Fetcher.Fetch returns is the whole of the bundle it pinned, for any
\* number of imports, reloads, fetches and changes on disk in between.
THEOREM FetchesAreWhole ==
    ASSUME NEW seeds, \A b \in seeds : KnownVerdicts(b)
    PROVE  SpecBundle(seeds) => []FetchIsWholeBundle
<1>1. InitBundle(seeds) => FetchInv
  <2> SUFFICES ASSUME InitBundle(seeds) PROVE FetchInv
    OBVIOUS
  <2>1. PinIsSafe(Seed)
    BY DEF InitBundle, PinIsSafe, Dirs
  <2>2. \A d : Pinned(d) => d = Seed
    BY DEF InitBundle, Pinned
  <2>3. \A f \in Fetches : FetchShape(f) /\ fetch[f].pc = "idle"
    BY DEF InitBundle, FetchShape
  <2>4. swaps = [d \in Dirs |-> swaps[d]] /\ fetch = [f \in Fetches |-> fetch[f]]
    BY DEF InitBundle
  <2> QED BY <2>1, <2>2, <2>3, <2>4 DEF FetchInv
<1>2. FetchInv => FetchIsWholeBundle
  <2> SUFFICES ASSUME FetchInv, NEW f \in Fetches, fetch[f].pc = "done"
               PROVE  LET d == fetch[f].dir
                          b == bundle[d]
                      IN  /\ fetch[f].result = "verified" =>
                               fetch[f].got = {blob \in b.listed : b.verdict[blob] = "good"}
                          /\ FallsBack(fetch[f].result) =>
                               (~b.hasImage \/ \A blob \in b.listed : b.verdict[blob] = "other")
                          /\ fetch[f].result = "denied" =>
                               \/ CheckStaleness(b) \/ verifySignature(b) = "denied"
                               \/ \E blob \in b.listed : blob \notin b.held \/ <<d, blob>> \in tampered
                               \/ \E i, j \in swaps[d] : i # j
    BY DEF FetchIsWholeBundle
  <2>1. ResultIsSound(f) /\ PinIsSafe(fetch[f].dir)
    BY DEF FetchInv, Pinned
  <2> QED BY <2>1 DEF ResultIsSound, RefusedFor, PinIsSafe
<1>3. SpecBundle(seeds) => []StoreInv
  BY StoreInit, StoreStep, PTL DEF SpecBundle
<1> QED BY <1>1, <1>2, <1>3, FetchStep, PTL DEF SpecBundle

-----------------------------------------------------------------------------
(* NRIConnection *)

Between == {"retry", "stopped", "gaveup"}

\* The types the argument needs.
ConnectionTypes ==
    /\ main \in {"starting", "serving", "clear", "retire"} \cup Between
    /\ cur \in 0 .. MaxAttempts /\ timedOut \in BOOLEAN /\ cancelled \in BOOLEAN
    /\ generation \in Nat /\ gen \in [Attempts -> Nat]
    /\ down \in BOOLEAN /\ connected \in BOOLEAN
    /\ abandoned \in Nat
    /\ link \in [Attempts -> {"none", "open", "closed", "refused"}]
    /\ cfg \in [Attempts -> {"none", "checked", "done", "failed"}]
    /\ closing \in [Attempts -> {"none", "passed", "done"}]

\* Only the attempt that is under way has the current generation, and only
\* until it is retired.
GenerationIsCurrents ==
    /\ main \notin Between => cur # 0 /\ generation = gen[cur]
    /\ \A n \in Attempts : n < cur \/ (n = cur /\ main \in Between) => gen[n] < generation

\* Attempts that have not begun have no connection.
LaterAreUnused ==
    \A n \in Attempts : n > cur => link[n] = "none" /\ cfg[n] = "none" /\ closing[n] = "none"

\* A close callback that passed its check is that of the last attempt, and its
\* connection is closed.
PassedIsLast ==
    \A n \in Attempts : closing[n] = "passed" => n = cur /\ link[n] = "closed"

\* What the last attempt has shown, as long as its connection is open.
ShownSoFar ==
    /\ main = "serving" => cfg[cur] = "done"
    /\ main \in {"starting", "serving"} /\ cfg[cur] = "done" /\ link[cur] = "open" => connected
    /\ main = "serving" /\ link[cur] = "open" => stub = cur /\ ~down
    /\ main = "retire" => stub = NoStub
    /\ main \in Between => down /\ stub = NoStub

\* A Start that is still blocked when its attempt has ended was given up for
\* the timeout or for the shutdown.
BlockedIsGivenUp ==
    main \in {"clear", "retire"} /\ StartBlocked(cur) => timedOut \/ cancelled

\* Every attempt left behind was counted, but the one a shutdown interrupted.
LeaksAreCounted ==
    /\ abandoned <= maxAbandoned
    /\ main # "gaveup" => abandoned < maxAbandoned
    /\ Cardinality(Leaked) <= IF main = "stopped" THEN abandoned + 1 ELSE abandoned

Shown == /\ ConnectionTypes /\ GenerationIsCurrents /\ LaterAreUnused /\ PassedIsLast
         /\ ShownSoFar /\ BlockedIsGivenUp

ConnectionInv == Shown /\ LeaksAreCounted

-----------------------------------------------------------------------------
\* The attempts left behind are finitely many.
LEMMA LeakedIsFinite == IsFiniteSet(Leaked) /\ Cardinality(Leaked) \in Nat
<1>1. IsFiniteSet(Attempts)
  BY AttemptsAssumption, FS_Interval DEF Attempts
<1>2. IsFiniteSet(Leaked)
  BY <1>1, FS_Subset DEF Leaked
<1> QED BY <1>2, FS_CardinalityType

\* A step that leaves no further attempt behind does not raise their number.
LEMMA NoMoreLeaked ==
    ASSUME Leaked' \subseteq Leaked
    PROVE  Cardinality(Leaked') \in Nat /\ Cardinality(Leaked') <= Cardinality(Leaked)
<1>1. IsFiniteSet(Leaked') /\ Cardinality(Leaked') <= Cardinality(Leaked)
  BY LeakedIsFinite, FS_Subset
<1> QED BY <1>1, FS_CardinalityType

\* A step that leaves one attempt behind raises their number by one at most.
LEMMA OneMoreLeaked ==
    ASSUME NEW n, Leaked' \subseteq Leaked \cup {n}
    PROVE  Cardinality(Leaked') \in Nat /\ Cardinality(Leaked') <= Cardinality(Leaked) + 1
<1>1. /\ IsFiniteSet(Leaked \cup {n})
      /\ Cardinality(Leaked \cup {n}) \in {Cardinality(Leaked), Cardinality(Leaked) + 1}
  BY LeakedIsFinite, FS_AddElement
<1>2. IsFiniteSet(Leaked') /\ Cardinality(Leaked') <= Cardinality(Leaked \cup {n})
  BY <1>1, FS_Subset
<1>3. Cardinality(Leaked') \in Nat
  BY <1>2, FS_CardinalityType
<1> QED BY <1>1, <1>2, <1>3, LeakedIsFinite

\* No attempt has begun, and none was left behind.
LEMMA ConnectionInvStarts == Init => ConnectionInv
<1> SUFFICES ASSUME Init PROVE ConnectionInv
  OBVIOUS
<1>1. ConnectionTypes
  <2>1. main \in {"starting", "serving", "clear", "retire"} \cup Between
    BY DEF Init, Between
  <2>2. cur \in 0 .. MaxAttempts /\ generation \in Nat /\ abandoned \in Nat
    BY AttemptsAssumption DEF Init
  <2>3. timedOut \in BOOLEAN /\ cancelled \in BOOLEAN /\ down \in BOOLEAN /\ connected \in BOOLEAN
    BY Zenon DEF Init
  <2>4. gen \in [Attempts -> Nat]
    BY DEF Init
  <2>5. /\ link \in [Attempts -> {"none", "open", "closed", "refused"}]
        /\ cfg \in [Attempts -> {"none", "checked", "done", "failed"}]
        /\ closing \in [Attempts -> {"none", "passed", "done"}]
    BY DEF Init
  <2> QED BY <2>1, <2>2, <2>3, <2>4, <2>5 DEF ConnectionTypes
<1>2. GenerationIsCurrents /\ LaterAreUnused /\ PassedIsLast
  BY AttemptsAssumption
     DEF Init, Between, Attempts, GenerationIsCurrents, LaterAreUnused, PassedIsLast
<1>3. ShownSoFar /\ BlockedIsGivenUp
  BY DEF Init, ShownSoFar, BlockedIsGivenUp, Between
<1>4. Leaked = {}
  BY DEF Init, Leaked, StartBlocked
<1>5. Cardinality(Leaked) = 0
  BY <1>4, FS_EmptySet
<1>6. LeaksAreCounted
  BY <1>5, AttemptsAssumption DEF Init, LeaksAreCounted
<1> QED BY <1>1, <1>2, <1>3, <1>6 DEF ConnectionInv, Shown

-----------------------------------------------------------------------------
\* Every step preserves what the callbacks and the attempts rely on.
LEMMA ShownStep ==
    ASSUME ConnectionInv, [Next]_vars
    PROVE  Shown'
<1> USE AttemptsAssumption
    DEF ConnectionInv, Shown, ConnectionTypes, Between, Attempts, GenerationIsCurrents, LaterAreUnused, PassedIsLast,
        ShownSoFar, BlockedIsGivenUp, StartBlocked, current, connVars
<1>1. ASSUME NEW dialled \in BOOLEAN, Begin(dialled) PROVE Shown'
  <2>1. /\ main = "retry" /\ main' = "starting" /\ cur' = cur + 1 /\ cur + 1 \in Attempts
        /\ generation' = generation + 1 /\ gen' = [gen EXCEPT ![cur + 1] = generation + 1]
        /\ link' = [link EXCEPT ![cur + 1] = IF dialled THEN "open" ELSE "refused"]
        /\ timedOut' = FALSE /\ \A n \in Attempts : closing[n] # "passed"
        /\ UNCHANGED <<down, abandoned, stub, connected, cfg, closing, cancelled>>
    BY <1>1 DEF Begin
  <2>2. ConnectionTypes'
    <3>1. /\ main' \in {"starting", "serving", "clear", "retire"} \cup Between
          /\ cur' \in 0 .. MaxAttempts /\ generation' \in Nat /\ abandoned' \in Nat
      BY <2>1
    <3>2. /\ timedOut' \in BOOLEAN /\ cancelled' \in BOOLEAN
          /\ down' \in BOOLEAN /\ connected' \in BOOLEAN
      BY Zenon, <2>1
    <3>3. gen' \in [Attempts -> Nat]
      BY <2>1
    <3>4. /\ link' \in [Attempts -> {"none", "open", "closed", "refused"}]
          /\ cfg' \in [Attempts -> {"none", "checked", "done", "failed"}]
          /\ closing' \in [Attempts -> {"none", "passed", "done"}]
      BY <2>1
    <3> QED BY <3>1, <3>2, <3>3, <3>4
  <2>3. GenerationIsCurrents'
    BY <2>1
  <2>4. LaterAreUnused' /\ PassedIsLast'
    BY <2>1
  <2>5. ShownSoFar' /\ BlockedIsGivenUp'
    BY <2>1
  <2> QED BY <2>2, <2>3, <2>4, <2>5
<1>2. CASE Started
  <2>1. cur \in Attempts
    BY <1>2 DEF Started
  <2>2. ConnectionTypes'
    BY Zenon, <1>2, <2>1 DEF Started
  <2>3. GenerationIsCurrents' /\ LaterAreUnused' /\ PassedIsLast'
    BY <1>2 DEF Started
  <2>4. ShownSoFar' /\ BlockedIsGivenUp'
    BY <1>2 DEF Started
  <2> QED BY <2>2, <2>3, <2>4
<1>3. CASE StartFails
  BY <1>3 DEF StartFails
<1>4. CASE ConfigureTimeout
  BY <1>4 DEF ConfigureTimeout
<1>5. CASE WaitReturns
  BY <1>5 DEF WaitReturns
<1>6. CASE Cancelled
  BY <1>6 DEF Cancelled
<1>7. CASE Clear
  BY Zenon, <1>7 DEF Clear
<1>8. CASE Retire
  <2>0. main = "retire" /\ cur \in Attempts /\ generation = gen[cur]
    BY <1>8 DEF Retire
  <2>1. /\ main = "retire" /\ cur \in Attempts /\ down' = TRUE /\ generation' = generation + 1
        /\ main' \in Between
        /\ link' = [link EXCEPT ![cur] = IF timedOut /\ @ = "open" THEN "closed" ELSE @]
        /\ UNCHANGED <<cur, timedOut, gen, stub, connected, cfg, closing, cancelled>>
    BY Zenon, <1>8, <2>0 DEF Retire, AfterAttempt
  <2>2. ConnectionTypes'
    BY <1>8, <2>1 DEF Retire
  <2>3. GenerationIsCurrents'
    BY <2>1
  <2>4. LaterAreUnused' /\ PassedIsLast'
    BY <2>1
  <2>5. ShownSoFar' /\ BlockedIsGivenUp'
    BY <2>1
  <2> QED BY <2>2, <2>3, <2>4, <2>5
<1>9. CASE RetryCancelled
  BY <1>9 DEF RetryCancelled
<1>10. ASSUME NEW n \in Attempts, ConfigureBegins(n) PROVE Shown'
  BY <1>10 DEF ConfigureBegins
<1>11. ASSUME NEW n \in Attempts, NEW ok \in BOOLEAN, ConfigureEnds(n, ok) PROVE Shown'
  BY <1>11 DEF ConfigureEnds
<1>12. ASSUME NEW n \in Attempts, CloseBegins(n) PROVE Shown'
  BY <1>12 DEF CloseBegins
<1>13. ASSUME NEW n \in Attempts, CloseEnds(n) PROVE Shown'
  BY Zenon, <1>13 DEF CloseEnds
<1>14. ASSUME NEW n \in Attempts, LinkCloses(n) PROVE Shown'
  BY <1>14 DEF LinkCloses
<1>15. CASE Cancel
  BY <1>15 DEF Cancel
<1>16. CASE UNCHANGED vars
  BY <1>16 DEF vars
<1> QED
  BY Zenon, <1>1, <1>2, <1>3, <1>4, <1>5, <1>6, <1>7, <1>8, <1>9, <1>10, <1>11, <1>12, <1>13, <1>14,
     <1>15, <1>16 DEF Next, MainStep

-----------------------------------------------------------------------------
\* Only Retire leaves an attempt behind, the one that was under way.
LEMMA OnlyRetireLeaks ==
    ASSUME ConnectionInv, [Next]_vars, ~Retire
    PROVE  Leaked' \subseteq Leaked
<1> USE AttemptsAssumption
    DEF ConnectionInv, Shown, ConnectionTypes, Between, Attempts, GenerationIsCurrents, LaterAreUnused,
        StartBlocked, Leaked, connVars
<1>1. ASSUME NEW dialled \in BOOLEAN, Begin(dialled) PROVE Leaked' \subseteq Leaked
  BY <1>1 DEF Begin
<1>2. CASE Started
  BY <1>2 DEF Started
<1>3. CASE StartFails
  BY <1>3 DEF StartFails
<1>4. CASE ConfigureTimeout
  BY <1>4 DEF ConfigureTimeout
<1>5. CASE WaitReturns
  BY <1>5 DEF WaitReturns
<1>6. CASE Cancelled
  BY <1>6 DEF Cancelled
<1>7. CASE Clear
  BY <1>7 DEF Clear
<1>9. CASE RetryCancelled
  BY <1>9 DEF RetryCancelled
<1>10. ASSUME NEW n \in Attempts, ConfigureBegins(n) PROVE Leaked' \subseteq Leaked
  BY <1>10 DEF ConfigureBegins
<1>11. ASSUME NEW n \in Attempts, NEW ok \in BOOLEAN, ConfigureEnds(n, ok)
       PROVE  Leaked' \subseteq Leaked
  BY <1>11 DEF ConfigureEnds
<1>12. ASSUME NEW n \in Attempts, CloseBegins(n) PROVE Leaked' \subseteq Leaked
  BY <1>12 DEF CloseBegins
<1>13. ASSUME NEW n \in Attempts, CloseEnds(n) PROVE Leaked' \subseteq Leaked
  BY <1>13 DEF CloseEnds
<1>14. ASSUME NEW n \in Attempts, LinkCloses(n) PROVE Leaked' \subseteq Leaked
  BY <1>14 DEF LinkCloses
<1>15. CASE Cancel
  BY <1>15 DEF Cancel
<1>16. CASE UNCHANGED vars
  BY <1>16 DEF vars
<1> QED
  BY Zenon, <1>1, <1>2, <1>3, <1>4, <1>5, <1>6, <1>7, <1>9, <1>10, <1>11, <1>12, <1>13, <1>14,
     <1>15, <1>16 DEF Next, MainStep

\* But for Retire, abandoned stays and no step leads to "gaveup" or away from it.
LEMMA OnlyRetireCounts ==
    ASSUME ConnectionInv, [Next]_vars, ~Retire
    PROVE  /\ abandoned' = abandoned
           /\ main' = "gaveup" <=> main = "gaveup"
           /\ main = "stopped" => main' = "stopped"
BY DEF Next, MainStep, vars, connVars, Begin, Started, StartFails, ConfigureTimeout, WaitReturns,
       Cancelled, Clear, RetryCancelled, ConfigureBegins, ConfigureEnds, CloseBegins, CloseEnds,
       LinkCloses, Cancel

\* The number of attempts left behind stays covered by the ones counted.
LEMMA LeaksStep ==
    ASSUME ConnectionInv, [Next]_vars
    PROVE  LeaksAreCounted'
<1>1. CASE ~Retire
  <2>1. Cardinality(Leaked') \in Nat /\ Cardinality(Leaked') <= Cardinality(Leaked)
    BY <1>1, OnlyRetireLeaks, NoMoreLeaked
  <2>2. abandoned \in Nat /\ LeaksAreCounted
    BY DEF ConnectionInv, Shown, ConnectionTypes
  <2> QED BY <1>1, <2>1, <2>2, OnlyRetireCounts, LeakedIsFinite, AttemptsAssumption
             DEF LeaksAreCounted
<1>2. CASE Retire
  <2>1. /\ cur \in Attempts /\ main = "retire" /\ cur' = cur /\ cfg' = cfg
        /\ link' = [link EXCEPT ![cur] = IF timedOut /\ @ = "open" THEN "closed" ELSE @]
    BY <1>2, AttemptsAssumption DEF Retire, ConnectionInv, Shown, ConnectionTypes, GenerationIsCurrents, Between, Attempts
  <2>2. \A n \in Attempts : StartBlocked(n)' <=> StartBlocked(n)
    BY <2>1 DEF ConnectionInv, Shown, ConnectionTypes, StartBlocked
  <2>3. /\ abandoned \in Nat /\ abandoned < maxAbandoned
        /\ Cardinality(Leaked) \in Nat /\ Cardinality(Leaked) <= abandoned
    BY <2>1, LeakedIsFinite DEF ConnectionInv, Shown, ConnectionTypes, LeaksAreCounted
  <2>4. /\ abandoned' = IF timedOut THEN abandoned + 1 ELSE abandoned
        /\ main' = IF abandoned' >= maxAbandoned THEN "gaveup"
                   ELSE IF cancelled THEN "stopped" ELSE "retry"
    BY <1>2 DEF Retire, AfterAttempt
  <2>5. CASE StartBlocked(cur)
    <3>1. timedOut \/ cancelled
      BY <2>1, <2>5 DEF ConnectionInv, Shown, BlockedIsGivenUp
    <3>2. Leaked' \subseteq Leaked \cup {cur}
      BY <2>1, <2>2 DEF Leaked
    <3>3. Cardinality(Leaked') \in Nat /\ Cardinality(Leaked') <= Cardinality(Leaked) + 1
      BY <3>2, OneMoreLeaked
    <3> QED BY <2>3, <2>4, <3>1, <3>3, AttemptsAssumption DEF LeaksAreCounted
  <2>6. CASE ~StartBlocked(cur)
    <3>1. Leaked' \subseteq Leaked
      BY <2>1, <2>2, <2>6 DEF Leaked
    <3>2. Cardinality(Leaked') \in Nat /\ Cardinality(Leaked') <= Cardinality(Leaked)
      BY <3>1, NoMoreLeaked
    <3> QED BY <2>3, <2>4, <3>2, AttemptsAssumption DEF LeaksAreCounted
  <2> QED BY <2>5, <2>6
<1> QED BY <1>1, <1>2

\* Every step preserves the inductive invariant.
LEMMA ConnectionInvStep == ConnectionInv /\ [Next]_vars => ConnectionInv'
BY ShownStep, LeaksStep DEF ConnectionInv

\* The inductive invariant holds throughout.
THEOREM ConnectionInvariant == Spec => []ConnectionInv
BY ConnectionInvStarts, ConnectionInvStep, PTL DEF Spec

\* While a connection serves it is the one the plugin shows, between attempts
\* none is (ServingIsPublished), and the goroutines blocked in Start are at most
\* maxAbandoned, a shutdown in the middle of an attempt included (LeaksBounded).
THEOREM ConnectionSound == Spec => []ConnectionIsSound
<1>1. ConnectionInv => ConnectionIsSound
  <2> SUFFICES ASSUME ConnectionInv PROVE ConnectionIsSound
    OBVIOUS
  <2>1. ServingIsPublished
    BY DEF ConnectionInv, Shown, ShownSoFar, ServingIsPublished, Between
  <2>2. LeaksBounded
    BY LeakedIsFinite, AttemptsAssumption DEF ConnectionInv, Shown, ConnectionTypes, LeaksAreCounted, LeaksBounded
  <2> QED BY <2>1, <2>2 DEF ConnectionIsSound
<1> QED BY <1>1, ConnectionInvariant, PTL
=============================================================================
