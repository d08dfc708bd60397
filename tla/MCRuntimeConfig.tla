--------------------------- MODULE MCRuntimeConfig ---------------------------
(* Configurations for checking RuntimeConfig: a namespace is enforced by the *)
(* mode of the configuration, by its default policy, or perhaps by policies  *)
(* that are still to be fetched.                                             *)
EXTENDS RuntimeConfig, TLC

MCNamespaces == {"a"}

Cfg(mode, oci, own, default) ==
    [verification |-> mode, oci |-> oci, policies |-> ("a" :> own @@ "default" :> default)]

MCStartup == Cfg("disabled", FALSE, "none", "none")
ByMode == Cfg("enforce", FALSE, "unset", "warn")
ByOCI == Cfg("warn", TRUE, "none", "enforce")
ByDefault == Cfg("warn", FALSE, "none", "enforce")

MCCfgs == {ByMode, ByOCI, ByDefault}

MCTwoCfgs == {MCStartup, ByMode}
=============================================================================
