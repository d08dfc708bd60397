----------------------------- MODULE BundleTrust -----------------------------
(* The verdict on one Sigstore bundle (internal/attestation/verify.go and   *)
(* keys.go): verified, with the signer it is attributed to, invalid, or not *)
(* decidable because a trusted key ("noKey") or a trusted root ("noRoot")   *)
(* could not be loaded. The cryptography is what sigstore-go would answer:  *)
(* a bundle says who really signed it and which roots can tell.             *)
(*                                                                          *)
(* bundle:  signer ("key" with its hint, or "cert" with issuer, san and the *)
(*          root it chains to), genuine, logged, logs (roots whose log has  *)
(*          it), sct, times (verified timestamps), payload                  *)
(* opts:    issuers, sans, keys (a sequence of entries with path, key,      *)
(*          loads and a validity window from..to), requireLog, now          *)
(* sources: a sequence of roots with name, issuers, keyless, skipSCTs and   *)
(*          available                                                       *)
EXTENDS Integers, Sequences

\* An end of a validity window that is not set; times are naturals.
AnyTime == -1

-----------------------------------------------------------------------------
(* Trusted keys *)

validAt(e, t) == (e.from = AnyTime \/ t >= e.from) /\ (e.to = AnyTime \/ t <= e.to)

Entries(keys) == {keys[i] : i \in DOMAIN keys}

\* The entries whose key files load.
buildKeyMaterial(keys) == {e \in Entries(keys) : e.loads}

EntriesOf(loaded, hint) == {e \in loaded : e.key = hint}

\* The key is usable at a time if any of its entries is valid then.
ValidAtTime(loaded, hint, t) == \E e \in EntriesOf(loaded, hint) : validAt(e, t)

\* The paths a verified signature is attributed to: those whose window
\* contains every verified timestamp.
signerFromResult(loaded, hint, times) ==
    {e.path : e \in {f \in EntriesOf(loaded, hint) : \A t \in times : validAt(f, t)}}

Invalid == [verdict |-> "invalid"]

ByKeys(paths) == IF paths = {} THEN Invalid ELSE [verdict |-> "verified", paths |-> paths]

ByCertificate(b) == [verdict |-> "verified", issuer |-> b.issuer, san |-> b.san]

\* Mutant: any loaded key settles the matter, also for bundles of another key.
unloadedKeyError_AnyLoaded(b, keys, err) ==
    IF buildKeyMaterial(keys) # {} \/ buildKeyMaterial(keys) = Entries(keys)
    THEN err
    ELSE [verdict |-> "noKey"]

\* A key that did not load might have verified the bundle, unless the bundle
\* names a key that did.
unloadedKeyError(b, keys, err) ==
    IF \/ buildKeyMaterial(keys) = Entries(keys)
       \/ EntriesOf(buildKeyMaterial(keys), b.hint) # {}
    THEN err
    ELSE [verdict |-> "noKey"]

-----------------------------------------------------------------------------
(* sigstore-go *)

\* The signature of a key-based bundle holds at the given times.
KeyVerifies(b, loaded, times) ==
    b.genuine /\ times # {} /\ \A t \in times : ValidAtTime(loaded, b.hint, t)

\* The identity that is asked for: one of the issuers and, when the policy has
\* patterns for it, a matching subject.
buildCertificateIdentity(b, issuers, sans) ==
    b.issuer \in issuers /\ (sans = {} \/ b.san \in sans)

\* The certificate chains to the root, has an observed time, and what the
\* options require of the log and of SCTs is there.
CertificateVerifies(b, issuers, sans, src) ==
    /\ b.genuine /\ b.root = src.name /\ b.times # {}
    /\ buildCertificateIdentity(b, issuers, sans)
    /\ b.logged => src.name \in b.logs
    /\ src.skipSCTs \/ b.sct

-----------------------------------------------------------------------------
(* The two paths *)

\* No root verified the bundle: one in scope that could not be loaded might
\* have (rootFailures).
rootFailures(unavailable) == IF unavailable THEN [verdict |-> "noRoot"] ELSE Invalid

verifyKeyBased(b, opts, sources) ==
    LET loaded == buildKeyMaterial(opts.keys)
        accepting == {i \in DOMAIN sources :
                        /\ sources[i].available
                        /\ sources[i].name \in b.logs /\ KeyVerifies(b, loaded, b.times)}
        fails == rootFailures(\E i \in DOMAIN sources : ~sources[i].available)
    IN  IF opts.keys = <<>> THEN Invalid
        ELSE IF loaded = {} THEN [verdict |-> "noKey"]
        ELSE IF ~opts.requireLog
        THEN IF KeyVerifies(b, loaded, {opts.now})
             THEN ByKeys(signerFromResult(loaded, b.hint, {opts.now}))
             ELSE unloadedKeyError(b, opts.keys, Invalid)
        ELSE IF sources = <<>> THEN Invalid
        ELSE IF accepting # {} THEN ByKeys(signerFromResult(loaded, b.hint, b.times))
        ELSE unloadedKeyError(b, opts.keys, fails)

\* A root without a list of issuers is not restricted.
scopeIssuers(policyIssuers, issuers) ==
    IF issuers = {} THEN policyIssuers ELSE policyIssuers \intersect issuers

\* The issuers of the policy a root may vouch for; none: out of scope.
rootIssuers(opts, src) == IF src.keyless THEN scopeIssuers(opts.issuers, src.issuers) ELSE {}

\* One root is "accepts", "rejects" (also out of scope) or "unavailable".
verifyKeylessWithRoot(b, opts, src) ==
    LET issuers == rootIssuers(opts, src)
    IN  IF issuers = {} THEN "rejects"
        ELSE IF ~src.available THEN "unavailable"
        ELSE IF CertificateVerifies(b, issuers, opts.sans, src) THEN "accepts" ELSE "rejects"

\* Roots are tried one by one, so a certificate is only accepted from a root
\* that is trusted for its issuer.
verifyKeyless(b, opts, sources) ==
    LET answers == {verifyKeylessWithRoot(b, opts, sources[i]) : i \in DOMAIN sources}
    IN  IF opts.issuers = {} \/ (opts.requireLog /\ ~b.logged) THEN Invalid
        ELSE IF "accepts" \in answers THEN ByCertificate(b)
        ELSE rootFailures("unavailable" \in answers)

\* verifyBundleCommon, with a live context: the payload has to be a statement
\* with a predicate type.
VerifyBundle(b, opts, sources) ==
    LET signer == IF b.signer = "cert" THEN verifyKeyless(b, opts, sources)
                  ELSE verifyKeyBased(b, opts, sources)
    IN  IF \/ b.signer \notin {"cert", "key"}
           \/ signer.verdict = "verified" /\ b.payload # "statement"
        THEN Invalid ELSE signer

-----------------------------------------------------------------------------
(* What a verdict is worth *)

\* The same configuration with everything loaded.
Completed(opts) == [opts EXCEPT !.keys = [i \in DOMAIN @ |-> [@[i] EXCEPT !.loads = TRUE]]]
AllAvailable(sources) == [i \in DOMAIN sources |-> [sources[i] EXCEPT !.available = TRUE]]

\* A verdict that was reached while keys or roots were missing is the verdict
\* with all of them, so an outage never makes a genuine attestation count as
\* junk (rootFailures, unloadedKeyError).
OutageChangesNothing(b, opts, sources) ==
    LET verdict == VerifyBundle(b, opts, sources).verdict
    IN  verdict \in {"verified", "invalid"} =>
            verdict = VerifyBundle(b, Completed(opts), AllAvailable(sources)).verdict

\* A verified signer is one the policy names: every key path it is attributed
\* to is configured for that key with a window around every verified time, and
\* a certificate's issuer is trusted by the policy and within the scope of the
\* root it chains to (signerFromResult, rootIssuers).
SignerIsNamed(b, opts, sources) ==
    LET result == VerifyBundle(b, opts, sources)
        times == IF opts.requireLog THEN b.times ELSE {opts.now}
    IN  result.verdict = "verified" =>
            IF b.signer = "key"
            THEN \A p \in result.paths :
                   \E i \in DOMAIN opts.keys :
                      /\ opts.keys[i].path = p /\ opts.keys[i].key = b.hint
                      /\ \A t \in times : validAt(opts.keys[i], t)
            ELSE \E i \in DOMAIN sources :
                   /\ sources[i].name = b.root /\ sources[i].keyless
                   /\ b.issuer \in opts.issuers
                   /\ sources[i].issuers = {} \/ b.issuer \in sources[i].issuers
=============================================================================
