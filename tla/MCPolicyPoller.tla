---------------------------- MODULE MCPolicyPoller ----------------------------
(* Artifacts and configurations for checking PolicyPoller.                   *)
EXTENDS PolicyPoller

Artifact(ref, created, valid) == [ref |-> ref, created |-> created, valid |-> valid]

\* Without the annotation, old, newer, newer but with invalid policies, and an
\* artifact of another reference.
MCArtifacts == {Artifact("r", 0, TRUE), Artifact("r", 1, TRUE), Artifact("r", 2, TRUE),
                Artifact("r", 3, FALSE), Artifact("s", 1, TRUE)}
MCRefs == {"r", "s"}

Cfg(enabled, source, ref) == [enabled |-> enabled, source |-> source, ref |-> ref]
MCStart == Cfg(TRUE, "oci", "r")
MCLocal == Cfg(TRUE, "local", "r")
MCConfigs == {MCStart, Cfg(TRUE, "oci", "s"), MCLocal, Cfg(FALSE, "oci", "r")}

\* One reference throughout, which verification being disabled does not change.
MCOneArtifacts == {a \in MCArtifacts : a.ref = "r"}
MCOneRefs == {"r"}
MCOneConfigs == {c \in MCConfigs : c.source = "oci" /\ c.ref = "r"}
MCOnlyStart == {MCStart}
=============================================================================
