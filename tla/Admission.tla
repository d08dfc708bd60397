------------------------------ MODULE Admission ------------------------------
(* One CreateContainer request (internal/plugin/plugin.go and               *)
(* plugin_digest.go) while reloads replace the configuration: the plugin    *)
(* asks the verifier whether a digest is needed, resolves it, verifies, and *)
(* applies the mode, each against the configuration in effect at that       *)
(* moment.                                                                  *)
(*                                                                          *)
(* configuration: mode, policy (the namespace has one), nsMode (its mode),  *)
(*                covers (it includes the image), ruleMode (that of the     *)
(*                rule for the image), allow (allowlisted digests)          *)
(* container:     what the runtime reports: refs and digests of CRI-O and   *)
(*                containerd annotations, the image name, and the digest of *)
(*                the NRI image ("index" and "split" are index digests)     *)
(* What verifying an image says is given by verdicts (Verification and      *)
(* ImageChecks say how it is reached).                                      *)
EXTENDS Integers

CONSTANTS Configs, Containers,
          maxReloads,        \* bound on the reloads during the admission
          NoDigest

ASSUME DigestAssumption == NoDigest \notin {"manifest", "moved", "index", "split"}

VARIABLES conf,      \* the configuration in effect
          reloads,   \* how often it was replaced
          ctr,       \* the container
          verdicts,  \* "pass", "fail" or "error", per digest
          adm        \* the admission

varsAdm == <<conf, reloads, ctr, verdicts, adm>>

-----------------------------------------------------------------------------
(* What the runtime reports *)

\* resolveImage: a complete pair of CRI-O, else one of containerd, else what
\* is known of either.
resolveImage(c) ==
    CASE c.crioRef /\ c.crioDigest # NoDigest -> [ref |-> TRUE, digest |-> c.crioDigest]
      [] ~(c.crioRef /\ c.crioDigest # NoDigest) /\ c.cdRef /\ c.cdDigest # NoDigest ->
           [ref |-> TRUE, digest |-> c.cdDigest]
      [] OTHER -> [ref |-> c.crioRef \/ c.cdRef,
                   digest |-> IF c.crioDigest = NoDigest THEN c.cdDigest ELSE c.crioDigest]

\* The image name of the NRI container fills in what the annotations lack.
resolveContainerImage(c) ==
    LET image == resolveImage(c)
    IN  [ref |-> image.ref \/ c.named,
         digest |-> IF image.digest = NoDigest THEN c.pinned ELSE image.digest]

\* The platform manifest a registry resolves a digest to.
Platform(d) == IF d = "index" THEN "manifest" ELSE d

Resolved(digest, index, unresolved) ==
    [digest |-> digest, index |-> index, unresolved |-> unresolved]

\* Mutant: a runtime digest that could not be looked up counts as resolved.
resolveImageDigests_AsIs(c) ==
    CASE c.runtime = NoDigest ->
           {Resolved(d, NoDigest, FALSE) : d \in {"manifest", "moved", NoDigest}}
      [] OTHER -> {Resolved(Platform(c.runtime), c.runtime, FALSE), Resolved(c.runtime, NoDigest, FALSE)}

\* Outcomes of resolveImageDigests: a tag may have moved to another image; a
\* runtime digest is used as it is when the registry cannot be reached, and
\* fails when it is an index without a single entry for the platform.
resolveImageDigests(c) ==
    CASE c.runtime = NoDigest ->
           {Resolved(d, NoDigest, FALSE) : d \in {"manifest", "moved", NoDigest}}
      [] c.runtime = "split" ->
           {Resolved(NoDigest, NoDigest, FALSE), Resolved("split", NoDigest, TRUE)}
      [] OTHER ->
           {Resolved(Platform(c.runtime), c.runtime, FALSE), Resolved(c.runtime, NoDigest, TRUE)}

-----------------------------------------------------------------------------
(* The verifier, for one configuration (internal/verifier/verifier.go) *)

EffectiveMode(c) == IF c.policy THEN c.nsMode ELSE c.mode

\* ShouldVerify; the mode of a namespace is never weaker than the global one.
ShouldVerify(c) == c.mode # "disabled" /\ (c.policy => c.covers)

\* The digest of the image or of the index it was resolved from is listed.
allowlisted(c, digest, index) == \E d \in {digest, index} \ {NoDigest} : d \in c.allow

\* skipResult: admitted without verification.
Skip == [err |-> "none", allowed |-> TRUE]

\* handleVerifyError and applyEnforcement: only enforce mode denies.
Enforced(mode, pass) ==
    IF pass \/ mode # "enforce" THEN Skip ELSE [err |-> "denied", allowed |-> FALSE]

\* Verify: disabled, allowlisted, no policy, not covered, no digest, verdict.
Verify(c, digest, index) ==
    IF c.mode = "disabled" \/ allowlisted(c, digest, index) THEN Skip
    ELSE IF ~c.policy THEN Enforced(c.mode, FALSE)
    ELSE IF ~c.covers THEN Skip
    ELSE IF digest = NoDigest THEN [err |-> "digestRequired", allowed |-> FALSE]
    ELSE Enforced(c.ruleMode, verdicts[digest] = "pass")

-----------------------------------------------------------------------------
(* The admission *)

InitAdm(worlds) ==
    /\ conf \in Configs /\ reloads = 0
    /\ ctr \in Containers
    /\ verdicts \in worlds
    /\ adm = [pc |-> "begin"]

\* A reload replaces the configuration between two steps of the admission.
ReloadConf ==
    /\ reloads < maxReloads
    /\ adm.pc \notin {"admitted", "skipped", "rejected"}
    /\ conf' \in Configs \ {conf}
    /\ reloads' = reloads + 1
    /\ UNCHANGED <<ctr, verdicts, adm>>

\* digestNeeded asks the verifier only when the digest is unknown.
digestNeeded(c, image) == image.digest = NoDigest /\ ShouldVerify(c)

\* The image is known from the request; without a reference it is not looked
\* up.
BeginAdmission ==
    LET image == resolveContainerImage(ctr)
    IN  /\ adm.pc = "begin"
        /\ adm' = [pc |-> CASE ~image.ref -> "withoutDigest"
                            [] image.ref /\ digestNeeded(conf, image) -> "resolve"
                            [] OTHER -> "verify",
                   digest |-> image.digest, index |-> NoDigest, unresolved |-> FALSE,
                   resolved |-> digestNeeded(conf, image)]
        /\ UNCHANGED <<conf, reloads, ctr, verdicts>>

\* resolveDigestIfMissing.
Resolve ==
    /\ adm.pc = "resolve"
    /\ \E r \in resolveImageDigests(ctr) :
         adm' = [adm EXCEPT !.pc = IF r.digest = NoDigest THEN "withoutDigest" ELSE "verify",
                            !.digest = r.digest, !.index = r.index, !.unresolved = r.unresolved]
    /\ UNCHANGED <<conf, reloads, ctr, verdicts>>

\* Mutant: an image that needed no digest before needs no verification either.
VerifyImage_Once ==
    /\ adm.pc = "verify"
    /\ adm' = [adm EXCEPT
                 !.pc = IF adm.digest = NoDigest \/ Verify(conf, adm.digest, adm.index).allowed
                        THEN "admitted" ELSE "rejected",
                 !.unresolved = (adm.digest = NoDigest \/ @) /\ ctr.runtime # NoDigest]
    /\ UNCHANGED <<conf, reloads, ctr, verdicts>>

\* verifyAdmission and admitVerified: a verifier that asks for the digest gets
\* it, once; an admitted container is tracked with the digest to resolve later.
VerifyImage ==
    LET result == Verify(conf, adm.digest, adm.index)
    IN  /\ adm.pc = "verify"
        /\ adm' = IF result.err = "digestRequired" /\ ~adm.resolved
                  THEN [adm EXCEPT !.pc = "resolve", !.resolved = TRUE]
                  ELSE [adm EXCEPT !.pc = IF result.allowed THEN "admitted" ELSE "rejected",
                                   !.unresolved = (adm.digest = NoDigest \/ @) /\ ctr.runtime # NoDigest]
        /\ UNCHANGED <<conf, reloads, ctr, verdicts>>

\* admitWithoutDigest, which reads the mode once more.
AdmitWithoutDigest ==
    /\ adm.pc = "withoutDigest"
    /\ adm' = [adm EXCEPT !.pc = IF EffectiveMode(conf) = "enforce" THEN "rejected" ELSE "skipped"]
    /\ UNCHANGED <<conf, reloads, ctr, verdicts>>

NextAdm == ReloadConf \/ BeginAdmission \/ Resolve \/ VerifyImage \/ AdmitWithoutDigest

SpecAdm(worlds) == InitAdm(worlds) /\ [][NextAdm]_varsAdm

-----------------------------------------------------------------------------
\* Whether a configuration alone could admit the container.
AdmitsAlone(c) ==
    LET image == resolveContainerImage(ctr)
        looksUp == image.ref /\ digestNeeded(c, image)
        found == {r \in resolveImageDigests(ctr) : r.digest # NoDigest}
    IN  \/ image.ref /\ ~looksUp /\ Verify(c, image.digest, NoDigest).allowed
        \/ looksUp /\ \E r \in found : Verify(c, r.digest, r.index).allowed
        \/ /\ ~image.ref \/ (looksUp /\ found # resolveImageDigests(ctr))
           /\ EffectiveMode(c) # "enforce"

\* A container is only admitted if the configuration in effect when that is
\* decided admits it by itself: what ShouldVerify saw before a reload never
\* stands in for what Verify and EffectiveModeForNamespace see after it
\* (verifyAdmission, admitWithoutDigest).
AdmittedByCurrentConfig == adm.pc \in {"admitted", "skipped"} => AdmitsAlone(conf)

\* The digest an admitted container is tracked with is that of the image it
\* runs, unless the runtime reports no digest at all; when the registry could
\* not tell the platform's manifest, the runtime digest is kept for the
\* continuous verifier to resolve (admitVerified, resolveImageDigests).
TrackedDigestIsRunning ==
    (adm.pc = "admitted" /\ ctr.runtime # NoDigest /\ resolveContainerImage(ctr).digest = NoDigest) =>
        \/ adm.unresolved /\ adm.digest \in {NoDigest, ctr.runtime}
        \/ ~adm.unresolved /\ adm.digest = Platform(ctr.runtime) /\ ctr.runtime # "split"
=============================================================================
