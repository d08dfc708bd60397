--------------------------- MODULE MCContinuousRun ---------------------------
(* Model values for checking the two halves of continuous verification side *)
(* by side: the runs that reloads start and stop (ContinuousRun), and the   *)
(* changes of files that reach a run (ConfigReload). A behaviour exercises  *)
(* one of them, part.                                                       *)
EXTENDS ContinuousRun, ConfigReload

CONSTANTS r1, r2, r3

VARIABLE part

MCRuns == {r1, r2, r3}

MCInit ==
    /\ InitRun /\ InitReload
    /\ part \in {"runs", "reload"}
    /\ part = "runs" => file = CHOOSE f \in [dir : PolicyDirs, valid : {TRUE}, onChange : {TRUE}] : TRUE

MCNext ==
    \/ part = "runs" /\ NextRun /\ UNCHANGED <<part, varsReload>>
    \/ part = "reload" /\ NextReload /\ UNCHANGED <<part, varsRun>>

\* The fairness of FairRun and FairReload. In a behaviour about the runs
\* nothing is edited, so that FairReload asks for nothing.
MCSpec ==
    /\ MCInit /\ [][MCNext]_<<part, varsRun, varsReload>>
    /\ \A r \in Runs : WF_varsRun(part = "runs" /\ RunStep(r))
    /\ WF_varsRun(part = "runs" /\ RunIgnored)
    /\ WF_varsRun(part = "runs" /\ StartStep)
    /\ WF_varsRun(part = "runs" /\ StopStep)
    /\ FairReload
=============================================================================
