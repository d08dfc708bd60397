---------------------------- MODULE ConfigReload ----------------------------
(* How changes of the configuration file, the policy directory and the feed *)
(* directory reach the plugin (internal/daemon/signals.go, the triggers in  *)
(* internal/plugin/plugin.go and the loop in continuous_verifier.go): file  *)
(* events arm a debounce timer, a fired timer or SIGHUP waits for the       *)
(* reload lock, and a reload reads the file, loads the policies, publishes  *)
(* them, renews the watches and triggers a re-verification of the running   *)
(* containers, while files keep changing.                                   *)
EXTENDS Integers

CONSTANTS PolicyDirs, Purls,
          MaxEdits,      \* bound on the changes of files and policies
          MaxWaiting     \* bound on the reloads that wait for the lock

VARIABLES file,        \* the configuration file: policy directory, valid, onChange
          policies,    \* the content of each policy directory, a version
          feedFiles,   \* the PURLs the feed directory reports
          edits,       \* how much was changed so far
          watched,     \* the policy directory that is watched, besides the config directory
          event,       \* a file event waits in the watcher
          timer,       \* the debounce timer runs
          waiting,     \* fired timers and signals that wait for the reload lock
          reload,      \* the running reload
          applied,     \* the configuration and policies the verifier runs
          revision,    \* its policy revision
          feedTimer, feedTaken,  \* the feed's timer; PURLs taken out of the trigger
          triggers,    \* what waits in the channels of the continuous verifier
          cycle,       \* its current cycle
          unseen,      \* directories that changed, unwatched, since they were loaded
          wanted,      \* the last revision a re-verification was asked for
          covered,     \* PURLs whose containers were re-verified
          down         \* the plugin shuts down

varsReload == <<file, policies, feedFiles, edits, watched, event, timer, waiting, reload, applied,
                revision, feedTimer, feedTaken, triggers, cycle, unseen, wanted, covered, down>>

filesVars == <<file, policies, feedFiles, edits, unseen>>
reloadVars == <<watched, timer, waiting, reload, applied, revision, wanted>>
feedVars == <<feedTimer, feedTaken>>

Idle == [pc |-> "idle"]

InitReload ==
    /\ file \in [dir : PolicyDirs, valid : {TRUE}, onChange : BOOLEAN]
    /\ policies = [d \in PolicyDirs |-> [version |-> 0, valid |-> TRUE]]
    /\ feedFiles = {} /\ edits = 0
    /\ watched = file.dir
    /\ event = FALSE /\ timer = FALSE /\ waiting = 0 /\ reload = Idle
    /\ applied = [conf |-> file, policies |-> policies[file.dir]]
    /\ revision = 0
    /\ feedTimer = FALSE /\ feedTaken = [pc |-> "idle"]
    /\ triggers = [policy |-> FALSE, feed |-> {}]
    /\ cycle = [busy |-> FALSE, revision |-> 0]
    /\ unseen = {} /\ wanted = 0 /\ covered = {} /\ down = FALSE

-----------------------------------------------------------------------------
(* What happens outside *)

EditConfig ==
    /\ edits < MaxEdits
    /\ \E f \in [dir : PolicyDirs, valid : BOOLEAN, onChange : BOOLEAN] : f # file /\ file' = f
    /\ event' = TRUE
    /\ edits' = edits + 1
    /\ UNCHANGED <<policies, feedFiles, unseen, triggers, cycle, covered, down>>
    /\ UNCHANGED <<reloadVars, feedVars>>

\* Only a watched directory reports the change.
EditPolicies(d) ==
    /\ edits < MaxEdits
    /\ \E ok \in BOOLEAN :
           policies' = [policies EXCEPT ![d] = [version |-> @.version + 1, valid |-> ok]]
    /\ event' = (event \/ d = watched)
    /\ unseen' = IF d = watched THEN unseen ELSE unseen \union {d}
    /\ edits' = edits + 1
    /\ UNCHANGED <<file, feedFiles, triggers, cycle, covered, down>>
    /\ UNCHANGED <<reloadVars, feedVars>>

\* A file in the feed directory reports a vulnerable package; its event arms
\* the feed's own timer.
EditFeed(p) ==
    /\ edits < MaxEdits /\ p \notin feedFiles
    /\ feedFiles' = feedFiles \union {p}
    /\ feedTimer' = TRUE
    /\ edits' = edits + 1
    /\ UNCHANGED <<file, policies, unseen, event, feedTaken, triggers, cycle, covered, down>>
    /\ UNCHANGED reloadVars

SigHup ==
    /\ edits < MaxEdits /\ waiting < MaxWaiting
    /\ waiting' = waiting + 1
    /\ edits' = edits + 1
    /\ UNCHANGED <<file, policies, feedFiles, unseen, event, watched, timer, reload, applied,
                   revision, wanted, triggers, cycle, covered, down>>
    /\ UNCHANGED feedVars

Shutdown ==
    /\ ~down
    /\ down' = TRUE
    /\ UNCHANGED <<event, triggers, cycle, covered>>
    /\ UNCHANGED <<filesVars, reloadVars, feedVars>>

-----------------------------------------------------------------------------
(* Watching and reloading *)

\* Mutant: an event that comes in while a reload runs is ignored.
handleFileEvent_NotDuringReload ==
    /\ event /\ ~down
    /\ event' = FALSE
    /\ timer' = (timer \/ reload = Idle)
    /\ UNCHANGED <<watched, waiting, reload, applied, revision, wanted, triggers, cycle, covered, down>>
    /\ UNCHANGED <<filesVars, feedVars>>

\* runFileWatch and handleFileEvent: the timer starts again.
handleFileEvent ==
    /\ event /\ ~down
    /\ event' = FALSE
    /\ timer' = TRUE
    /\ UNCHANGED <<watched, waiting, reload, applied, revision, wanted, triggers, cycle, covered, down>>
    /\ UNCHANGED <<filesVars, feedVars>>

DebounceFires ==
    /\ timer /\ ~down /\ waiting < MaxWaiting
    /\ timer' = FALSE
    /\ waiting' = waiting + 1
    /\ UNCHANGED <<event, watched, reload, applied, revision, wanted, triggers, cycle, covered, down>>
    /\ UNCHANGED <<filesVars, feedVars>>

\* handleReload takes the lock and reads the file; an invalid one ends it, and
\* so does a shutdown.
handleReload ==
    /\ waiting > 0 /\ reload = Idle
    /\ waiting' = waiting - 1
    /\ reload' = IF down \/ ~file.valid THEN Idle
                 ELSE [pc |-> "read", conf |-> file, prev |-> revision]
    /\ UNCHANGED <<event, watched, timer, applied, revision, wanted, triggers, cycle, covered, down>>
    /\ UNCHANGED <<filesVars, feedVars>>

\* The verifier loads the policies of the new configuration; policies that
\* are refused end the reload, before the new directory is watched,
LoadPolicies ==
    LET loaded == policies[reload.conf.dir]
    IN  /\ reload.pc = "read"
        /\ reload' = IF loaded.valid
                     THEN [pc |-> "loaded", conf |-> reload.conf, prev |-> reload.prev, policies |-> loaded]
                     ELSE Idle
        /\ unseen' = unseen \ {reload.conf.dir}
        /\ UNCHANGED <<file, policies, feedFiles, edits, event, watched, timer, waiting, applied,
                       revision, wanted, triggers, cycle, covered, down>>
        /\ UNCHANGED feedVars

\* and publishes them; its revision counts changes of the policies.
Publish ==
    LET next == [conf |-> reload.conf, policies |-> reload.policies]
        changed == next.conf.dir # applied.conf.dir \/ next.policies # applied.policies
    IN  /\ reload.pc = "loaded"
        /\ applied' = next
        /\ revision' = IF changed THEN revision + 1 ELSE revision
        /\ reload' = [reload EXCEPT !.pc = "published"]
        /\ UNCHANGED <<event, watched, timer, waiting, wanted, triggers, cycle, covered, down>>
        /\ UNCHANGED <<filesVars, feedVars>>

updateWatchedPaths ==
    /\ reload.pc = "published"
    /\ watched' = reload.conf.dir
    /\ reload' = [reload EXCEPT !.pc = "watched"]
    /\ UNCHANGED <<event, timer, waiting, applied, revision, wanted, triggers, cycle, covered, down>>
    /\ UNCHANGED <<filesVars, feedVars>>

\* applyPluginSettings ends with TriggerReverify, which does not block: the
\* channel holds one signal.
applyPluginSettings ==
    LET asks == reload.conf.onChange /\ revision # reload.prev
    IN  /\ reload.pc = "watched"
        /\ triggers' = [triggers EXCEPT !.policy = @ \/ asks]
        /\ wanted' = IF asks THEN revision ELSE wanted
        /\ reload' = Idle
        /\ UNCHANGED <<event, watched, timer, waiting, applied, revision, cycle, covered, down>>
        /\ UNCHANGED <<filesVars, feedVars>>

-----------------------------------------------------------------------------
(* The feed (handleFeedEvent, TriggerFeedReverify) *)

\* The directory is parsed and, under its lock, what still waits in the
\* channel is taken out
FeedFires ==
    /\ feedTimer /\ ~down /\ feedTaken.pc = "idle"
    /\ feedTimer' = FALSE
    /\ feedTaken' = [pc |-> "merge", purls |-> feedFiles \union triggers.feed]
    /\ triggers' = [triggers EXCEPT !.feed = {}]
    /\ UNCHANGED <<event, cycle, covered, down>>
    /\ UNCHANGED <<filesVars, reloadVars>>

\* and put back together with the new PURLs.
TriggerFeedReverify ==
    /\ feedTaken.pc = "merge"
    /\ triggers' = [triggers EXCEPT !.feed = feedTaken.purls]
    /\ feedTaken' = Idle
    /\ UNCHANGED <<event, feedTimer, cycle, covered, down>>
    /\ UNCHANGED <<filesVars, reloadVars>>

-----------------------------------------------------------------------------
(* The loop of the continuous verifier (runContinuousVerifier) *)

StartPolicyCycle ==
    /\ ~cycle.busy /\ ~down /\ triggers.policy
    /\ triggers' = [triggers EXCEPT !.policy = FALSE]
    /\ cycle' = [busy |-> TRUE, revision |-> revision]
    /\ UNCHANGED <<event, covered, down>>
    /\ UNCHANGED <<filesVars, reloadVars, feedVars>>

StartFeedCycle ==
    /\ ~cycle.busy /\ ~down /\ triggers.feed # {}
    /\ covered' = covered \union triggers.feed
    /\ triggers' = [triggers EXCEPT !.feed = {}]
    /\ cycle' = [cycle EXCEPT !.busy = TRUE]
    /\ UNCHANGED <<event, down>>
    /\ UNCHANGED <<filesVars, reloadVars, feedVars>>

EndCycle ==
    /\ cycle.busy
    /\ cycle' = [cycle EXCEPT !.busy = FALSE]
    /\ UNCHANGED <<event, triggers, covered, down>>
    /\ UNCHANGED <<filesVars, reloadVars, feedVars>>

-----------------------------------------------------------------------------
ReloadStep == LoadPolicies \/ Publish \/ updateWatchedPaths \/ applyPluginSettings

NextReload ==
    \/ handleFileEvent \/ DebounceFires \/ handleReload \/ ReloadStep
    \/ FeedFires \/ TriggerFeedReverify \/ StartPolicyCycle \/ StartFeedCycle \/ EndCycle
    \/ EditConfig \/ SigHup \/ Shutdown
    \/ \E d \in PolicyDirs : EditPolicies(d)
    \/ \E p \in Purls : EditFeed(p)

\* Goroutines run on and timers fire; the loop's select serves each of its
\* channels in the long run.
FairReload ==
    /\ WF_varsReload(handleFileEvent) /\ WF_varsReload(DebounceFires)
    /\ WF_varsReload(handleReload) /\ WF_varsReload(ReloadStep)
    /\ WF_varsReload(FeedFires) /\ WF_varsReload(TriggerFeedReverify)
    /\ SF_varsReload(StartPolicyCycle) /\ SF_varsReload(StartFeedCycle) /\ WF_varsReload(EndCycle)

TypeOKReload ==
    /\ file \in [dir : PolicyDirs, valid : BOOLEAN, onChange : BOOLEAN]
    /\ policies \in [PolicyDirs -> [version : 0 .. MaxEdits, valid : BOOLEAN]]
    /\ feedFiles \subseteq Purls /\ covered \subseteq Purls /\ triggers.feed \subseteq Purls
    /\ watched \in PolicyDirs /\ unseen \subseteq PolicyDirs
    /\ waiting \in 0 .. MaxWaiting /\ wanted \in 0 .. revision
    /\ reload.pc \in {"idle", "read", "loaded", "published", "watched"}

\* Once files stop changing, the plugin runs the configuration and the
\* policies that are on disk, whatever was edited while a reload ran. The
\* exceptions are those of the code: a configuration or policies it refuses,
\* and a policy directory that changed while it was not watched, be it
\* between loading it and watching it or after a reload that refused it
\* (handleFileEvent, handleReload, updateWatchedPaths).
EditsArrive ==
    <>[](\/ down \/ ~file.valid \/ file.dir \in unseen \/ ~policies[file.dir].valid
         \/ applied = [conf |-> file, policies |-> policies[file.dir]])

\* Every reload that changes the policies and asks for it is followed by a
\* re-verification cycle that starts after it, and every package the feed
\* reports is part of a feed cycle, however triggers and cycles overlap
\* (applyPluginSettings, TriggerReverify, TriggerFeedReverify).
TriggersArrive ==
    <>[](down \/ (cycle.revision >= wanted /\ feedFiles \subseteq covered))

\* No change is lost between the files, the reload, the triggers and the cycles
\* (EditsArrive, TriggersArrive).
ChangesArrive == EditsArrive /\ TriggersArrive
=============================================================================
