---------------------------- MODULE KonfluxBuild ----------------------------
(***************************************************************************)
(* One call of the Konflux build tool (ymir/tools/privileged/konflux.py):  *)
(* a Secret for the clone, a PipelineRun that uses it, polling, and the    *)
(* clean-up, which must run whatever happened, and must not pull the       *)
(* Secret from under a run.  Requests run on threads: cancelling the tool  *)
(* does not stop them.  The contents of both objects are left out.         *)
(***************************************************************************)
EXTENDS Integers

CONSTANTS
    MaxBuildFaults,     \* requests that fail, or whose answer is lost
    MaxBuildCancels     \* cancellations of the tool

ASSUME BuildAssumption == MaxBuildFaults \in Nat /\ MaxBuildCancels \in Nat

VARIABLES
    build,      \* the tool's task
    request,    \* request[x], x = "secret", "run": the POST that creates it
    secret,     \* the Secret in the cluster
    pipeline,   \* the PipelineRun in the cluster
    buildFaults
buildVars == <<build, request, secret, pipeline, buildFaults>>

(* "secret" and "run": secret_name and run_to_cleanup are set; "terminal":    *)
(* run_terminal; "live": not collected yet.                                   *)
BuildInit ==
    /\ build = [pc |-> "start", secret |-> FALSE, run |-> FALSE, terminal |-> FALSE, result |-> "none"]
    /\ request = [x \in {"secret", "run"} |-> "none"]
    /\ secret = FALSE /\ pipeline = [state |-> "absent", live |-> FALSE]
    /\ buildFaults = [failed |-> 0, cancels |-> 0, left |-> {}]

-----------------------------------------------------------------------------
BuildAt(pc)   == build.pc = pc
BuildGoes(pc) == build' = [build EXCEPT !.pc = pc]
Finished      == pipeline.state \in {"succeeded", "failed"}
ClusterSame   == UNCHANGED <<request, secret, pipeline>>
(* "left": what the failures leave undone, and why. *)
Leaving(x)    == buildFaults' = [buildFaults EXCEPT !.left = @ \cup x]
BuildFault(x) == /\ buildFaults.failed < MaxBuildFaults
                 /\ buildFaults' = [buildFaults EXCEPT !.failed = @ + 1, !.left = @ \cup x]

(* A request on its thread: done and answered; refused; or done, or not, and  *)
(* the answer lost.                                                           *)
Created(x) == IF x = "secret" THEN secret' = TRUE /\ UNCHANGED pipeline
                              ELSE pipeline' = [state |-> "active", live |-> TRUE] /\ UNCHANGED secret
RequestEnds(x) ==
    /\ request[x] = "sent"
    /\ \/ request' = [request EXCEPT ![x] = "answered"] /\ Created(x) /\ UNCHANGED buildFaults
       \/ request' = [request EXCEPT ![x] = "failed"] /\ BuildFault({}) /\ UNCHANGED <<secret, pipeline>>
       \/ request' = [request EXCEPT ![x] = "failed"] /\ Created(x) /\ BuildFault({x})
    /\ UNCHANGED build

(* create_secret, awaited behind a shield. *)
SendSecret == /\ BuildAt("start") /\ BuildGoes("secret")
              /\ request' = [request EXCEPT !["secret"] = "sent"] /\ UNCHANGED <<secret, pipeline, buildFaults>>
HaveSecret == /\ BuildAt("secret") /\ request["secret"] = "answered"
              /\ build' = [build EXCEPT !.pc = "map", !.secret = TRUE] /\ ClusterSame /\ UNCHANGED buildFaults
NoSecret   == /\ BuildAt("secret") /\ request["secret"] = "failed"
              /\ BuildGoes("finally") /\ ClusterSame /\ UNCHANGED buildFaults

(* The branch is mapped; then the run is sent, under a name chosen before.    *)
MapFails   == BuildAt("map") /\ BuildFault({}) /\ BuildGoes("finally") /\ ClusterSame
SendRun    == /\ BuildAt("map") /\ build' = [build EXCEPT !.pc = "submit", !.run = TRUE]
              /\ request' = [request EXCEPT !["run"] = "sent"] /\ UNCHANGED <<secret, pipeline, buildFaults>>
Submitted  == /\ BuildAt("submit") /\ request["run"] \in {"answered", "failed"}
              /\ BuildGoes(IF request["run"] = "answered" THEN "poll" ELSE "finally")
              /\ ClusterSame /\ UNCHANGED buildFaults

(* _poll_to_completion; nothing is decided while the run is not seen done, as *)
(* when it was collected and there is no archive.                             *)
Poll ==
    /\ BuildAt("poll") /\ Finished
    /\ build' = [build EXCEPT !.pc = "finally", !.terminal = TRUE,
                              !.result = pipeline.state]
    /\ ClusterSame /\ UNCHANGED buildFaults
PollFails    == BuildAt("poll") /\ BuildFault({}) /\ BuildGoes("finally") /\ ClusterSame
PollTimesOut == /\ BuildAt("poll") /\ build' = [build EXCEPT !.pc = "finally", !.result = "timeout"]
                /\ ClusterSame /\ UNCHANGED buildFaults

Waiting == "sent" \in {request[x] : x \in DOMAIN request}

(* Mutant: the clean-up does not wait for the requests. *)
AwaitNone ==
    /\ BuildAt("finally") /\ BuildGoes(IF build.secret THEN "clean" ELSE "done")
    /\ ClusterSame /\ UNCHANGED buildFaults

(* The clean-up first waits for what is still under way. *)
AwaitRequests ==
    /\ BuildAt("finally") /\ ~Waiting
    /\ build' = [build EXCEPT !.pc = IF request["secret"] = "answered" THEN "clean" ELSE "done",
                              !.secret = request["secret"] = "answered"]
    /\ ClusterSame /\ UNCHANGED buildFaults

(* _cancel_and_wait: asks Tekton to stop the run, which takes its time. *)
CancelRun ==
    /\ BuildAt("clean")
    /\ \/ (~build.run \/ build.terminal) /\ BuildGoes("delete") /\ UNCHANGED buildFaults
       \/ /\ build.run /\ ~build.terminal
          /\ \/ BuildGoes(IF pipeline.live THEN "stopping" ELSE "delete") /\ UNCHANGED buildFaults
             \/ Finished /\ BuildFault({}) /\ BuildGoes("delete")        \* one look at the run
             \/ BuildFault({"stop"}) /\ BuildGoes("done")
    /\ ClusterSame

SeeStopped   == BuildAt("stopping") /\ Finished /\ BuildGoes("delete") /\ ClusterSame /\ UNCHANGED buildFaults
(* The grace period is over, or the run could not be read. *)
NeverStopped == BuildAt("stopping") /\ Leaving({"stop"}) /\ BuildGoes("done") /\ ClusterSame

DeleteSecret ==
    /\ BuildAt("delete") /\ BuildGoes("done")
    /\ \/ secret' = FALSE /\ UNCHANGED buildFaults
       \/ BuildFault({"delete"}) /\ UNCHANGED secret
    /\ UNCHANGED <<request, pipeline>>

(* The gateway cancels the tool: where it waits for a request, or polls.  A   *)
(* cancellation during the clean-up ends it, except for _cleanup_git_auth,    *)
(* which goes on by itself behind the shield.                                 *)
BuildCancelled ==
    /\ build.pc \notin {"done", "lost"} /\ buildFaults.cancels < MaxBuildCancels
    /\ buildFaults' = [buildFaults EXCEPT !.cancels = @ + 1]
    /\ BuildGoes(CASE BuildAt("start") -> "done"
                   [] BuildAt("finally") /\ Waiting -> "lost"
                   [] build.pc \in {"clean", "stopping", "delete"} -> build.pc
                   [] OTHER -> "finally")
    /\ ClusterSame

BuildStep == SendSecret \/ HaveSecret \/ NoSecret \/ MapFails \/ SendRun \/ Submitted \/ Poll \/ PollFails
             \/ PollTimesOut \/ AwaitRequests \/ CancelRun \/ SeeStopped \/ NeverStopped \/ DeleteSecret

(* Tekton ends the run and the cluster collects it. *)
RunEnds  == /\ pipeline.state = "active"
            /\ \E end \in {"succeeded", "failed"} : pipeline' = [pipeline EXCEPT !.state = end]
            /\ UNCHANGED <<build, request, secret, buildFaults>>
Archived == /\ Finished /\ pipeline.live /\ pipeline' = [pipeline EXCEPT !.live = FALSE]
            /\ UNCHANGED <<build, request, secret, buildFaults>>

BuildNext == BuildStep \/ (\E x \in DOMAIN request : RequestEnds(x)) \/ BuildCancelled \/ RunEnds \/ Archived

-----------------------------------------------------------------------------
(* A run that is active has the Secret that its clone needs. *)
SecretHeld == pipeline.state = "active" => secret

(* A Secret that the tool leaves behind has a reason: its name never arrived, *)
(* the run could not be seen to stop, or deleting failed.                     *)
NoSecretForgotten == BuildAt("done") /\ secret => buildFaults.left \cap {"secret", "stop", "delete"} # {}

(* The call is over, or was cancelled in its clean-up. *)
BuildDone == build.pc \in {"done", "lost"}

(* The Secret is neither pulled from under a run nor left behind for nothing. *)
SecretSafe == SecretHeld /\ NoSecretForgotten
=============================================================================
