------------------------------ MODULE Services ------------------------------
(***************************************************************************)
(* The services around the agents, side by side.  What they share with     *)
(* each other is within one part each, so that a behaviour of one part     *)
(* does not depend on the steps of the others: scenario names the part     *)
(* that moves, the others rest at an initial state.                        *)
(***************************************************************************)
EXTENDS CVETrackers, MRCleanup, CanonicalTitle, ReasoningRunner, KonfluxBuild,
        Reservations, YStreamInherit, DistGitRemotes, Workspaces

VARIABLE scenario

servicesVars == <<scenario, trackerVars, cleanupVars, titleVars, runnerVars, buildVars, farmVars,
                  inheritVars, remoteVars, volumeVars>>

Part     == {"trackers", "cleanup", "titles", "runner", "build", "farm", "inherit", "remotes", "volume"}
In(part) == scenario = part
SomeFamily  == CHOOSE f \in Families : TRUE
SomeShipped == CHOOSE s \in Shipped : TRUE

ServicesInit ==
    /\ scenario \in Part
    /\ InheritInit /\ (In("inherit") \/ zstream = SomeShipped)
    /\ family \in Families /\ (In("trackers") \/ family = SomeFamily) /\ TrackersInit
    /\ generated \in BOOLEAN /\ (In("titles") \/ generated) /\ TitleInit
    /\ RunnerInit /\ (In("runner") \/ (mode.constrained /\ mode.protected /\ Len(history) = 1))
    /\ RemoteInit /\ (In("remotes") \/ distgit.fromMain)
    /\ CleanupInit /\ BuildInit /\ FarmInit /\ VolumeInit

ServicesNext ==
    \/ /\ In("trackers") /\ TrackersNext
       /\ UNCHANGED <<scenario, cleanupVars, titleVars, runnerVars, buildVars, farmVars,
                      inheritVars, remoteVars, volumeVars>>
    \/ /\ In("cleanup") /\ CleanupNext
       /\ UNCHANGED <<scenario, trackerVars, titleVars, runnerVars, buildVars, farmVars,
                      inheritVars, remoteVars, volumeVars>>
    \/ /\ In("titles") /\ TitleNext
       /\ UNCHANGED <<scenario, trackerVars, cleanupVars, runnerVars, buildVars, farmVars,
                      inheritVars, remoteVars, volumeVars>>
    \/ /\ In("runner") /\ RunnerNext
       /\ UNCHANGED <<scenario, trackerVars, cleanupVars, titleVars, buildVars, farmVars,
                      inheritVars, remoteVars, volumeVars>>
    \/ /\ In("build") /\ BuildNext
       /\ UNCHANGED <<scenario, trackerVars, cleanupVars, titleVars, runnerVars, farmVars,
                      inheritVars, remoteVars, volumeVars>>
    \/ /\ In("farm") /\ FarmNext
       /\ UNCHANGED <<scenario, trackerVars, cleanupVars, titleVars, runnerVars,
                      buildVars, inheritVars, remoteVars, volumeVars>>
    \/ /\ In("inherit") /\ InheritNext
       /\ UNCHANGED <<scenario, trackerVars, cleanupVars, titleVars, runnerVars,
                      buildVars, farmVars, remoteVars, volumeVars>>
    \/ /\ In("remotes") /\ RemoteNext
       /\ UNCHANGED <<scenario, trackerVars, cleanupVars, titleVars, runnerVars,
                      buildVars, farmVars, inheritVars, volumeVars>>
    \/ /\ In("volume") /\ VolumeNext
       /\ UNCHANGED <<scenario, trackerVars, cleanupVars, titleVars, runnerVars,
                      buildVars, farmVars, inheritVars, remoteVars>>

(* Triage and the nightly sweep go on asking about every tracker; the job     *)
(* that cleans up runs every day, and to its end unless it is killed; agents, *)
(* the build tool and its requests go on.                                     *)
ServicesFair ==
    /\ \A i \in Tracker : WF_trackerVars(In("trackers") /\ Ask(i))
    /\ WF_cleanupVars(In("cleanup") /\ CleanupStep)
    /\ WF_titleVars(In("titles") /\ \E a \in Author : Resolves(a))
    /\ WF_buildVars(In("build") /\ (BuildStep \/ \E x \in DOMAIN request : RequestEnds(x)))

ServicesSpec == ServicesInit /\ [][ServicesNext]_servicesVars /\ ServicesFair

-----------------------------------------------------------------------------
(* Trackers get decided and rejections labelled (TrackersDecided and          *)
(* RejectionsLabelled say in which circumstances); no agent looks for its     *)
(* title for ever, and the build tool ends: no wait of its own is without a   *)
(* deadline.                                                                  *)
ServicesSettle ==
    /\ TrackersDecided
    /\ RejectionsLabelled
    /\ <>[](In("titles") => AuthorsDone)
    /\ <>[](In("build") => BuildDone)
=============================================================================
