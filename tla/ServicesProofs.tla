--------------------------- MODULE ServicesProofs ---------------------------
(***************************************************************************)
(* Proofs about services, for any number of machines, hosts, failing calls *)
(* and cancellations, and about what jobs, agents and people share outside *)
(* the cluster: trackers, merge requests, their titles, their branches.    *)
(* A part only moves in its own scenario, so that an invariant of its      *)
(* steps is one of the whole.                                              *)
(***************************************************************************)
EXTENDS Services, TLAPS, FiniteSetTheorems, WellFoundedInduction, SequenceTheorems

-----------------------------------------------------------------------------
(* The Konflux build. *)

(* What the build's variables may be. *)
BuildTypeOK ==
    /\ build \in [pc : {"start", "secret", "map", "submit", "poll", "finally", "clean", "stopping",
                        "delete", "done", "lost"},
                  secret : BOOLEAN, run : BOOLEAN, terminal : BOOLEAN,
                  result : {"none", "succeeded", "failed", "timeout"}]
    /\ request \in [{"secret", "run"} -> {"none", "sent", "answered", "failed"}]
    /\ secret \in BOOLEAN
    /\ pipeline \in [state : {"absent", "active", "succeeded", "failed"}, live : BOOLEAN]
    /\ buildFaults \in [failed : Nat, cancels : Nat, left : SUBSET {"secret", "run", "stop", "delete"}]

(* A request is only sent, and answered, in its turn. *)
InTurn ==
    /\ build.pc = "start" => request["secret"] = "none"
    /\ build.run = (request["run"] # "none")
    /\ build.pc \in {"start", "secret", "map"} => ~build.run
    /\ build.pc = "map" => request["secret"] = "answered"
    /\ build.pc \in {"clean", "stopping", "delete", "done"} =>
           \A x \in {"secret", "run"} : request[x] # "sent"

(* A run was sent by a tool that had its Secret.  It is seen to be over, or   *)
(* never to have been, before the Secret is deleted.                          *)
RunKnown ==
    /\ request["run"] = "none" => pipeline.state = "absent"
    /\ request["run"] = "sent" => secret /\ pipeline.state = "absent"
    /\ build.terminal => Finished
    /\ pipeline.state = "active" => pipeline.live
    /\ build.pc = "delete" => pipeline.state # "active"

(* The Secret is there, or deleted, or its answer did not arrive. *)
SecretKnown ==
    /\ request["secret"] \in {"none", "sent"} => ~secret
    /\ request["secret"] = "answered" /\ build.pc # "done" => secret
    /\ request["secret"] = "failed" /\ secret => "secret" \in buildFaults.left

(* A request outlives the wait of the tool for it, so the account is of the   *)
(* requests, and of where the clean-up is.                                    *)
BuildInv == BuildTypeOK /\ InTurn /\ RunKnown /\ SecretKnown /\ SecretSafe

(* A fault adds to what is left behind. *)
LEMMA BuildFaultType ==
    ASSUME BuildTypeOK, NEW x \in SUBSET {"secret", "run", "stop", "delete"}, BuildFault(x)
    PROVE  /\ buildFaults' \in [failed : Nat, cancels : Nat, left : SUBSET {"secret", "run", "stop", "delete"}]
           /\ buildFaults'.left = buildFaults.left \cup x
<1>1. buildFaults.failed + 1 \in Nat
  BY DEF BuildTypeOK
<1>2. buildFaults' = [failed |-> buildFaults.failed + 1, cancels |-> buildFaults.cancels,
                      left |-> buildFaults.left \cup x]
  BY DEF BuildFault, BuildTypeOK
<1> QED
  BY <1>1, <1>2 DEF BuildTypeOK

(* Every step of a build keeps the account. *)
LEMMA BuildInductive ==
    ASSUME BuildInv, BuildNext \/ UNCHANGED buildVars
    PROVE  BuildInv'
<1> USE DEF BuildInv, BuildTypeOK, InTurn, RunKnown, SecretKnown, SecretSafe, SecretHeld,
            NoSecretForgotten, BuildAt, BuildGoes, Finished, ClusterSame
<1>1. CASE UNCHANGED buildVars
  BY <1>1 DEF buildVars
<1>2. CASE SendSecret
  BY <1>2 DEF SendSecret
<1>3. CASE HaveSecret
  BY <1>3 DEF HaveSecret
<1>4. CASE NoSecret
  BY <1>4 DEF NoSecret
<1>5. CASE MapFails
  BY <1>5, BuildFaultType DEF MapFails
<1>6. CASE SendRun
  BY <1>6 DEF SendRun
<1>7. CASE Submitted
  BY <1>7 DEF Submitted
<1>8. CASE Poll
  BY <1>8 DEF Poll
<1>9. CASE PollFails
  BY <1>9, BuildFaultType DEF PollFails
<1>10. CASE PollTimesOut
  BY <1>10 DEF PollTimesOut
<1>11. CASE AwaitRequests
  <2>1. BuildTypeOK'
    BY <1>11 DEF AwaitRequests, Waiting
  <2>2. InTurn'
    BY <1>11 DEF AwaitRequests, Waiting
  <2>3. RunKnown'
    BY <1>11 DEF AwaitRequests, Waiting
  <2>4. SecretKnown'
    BY <1>11 DEF AwaitRequests, Waiting
  <2>5. SecretSafe'
    BY <1>11 DEF AwaitRequests, Waiting
  <2> QED
    BY <2>1, <2>2, <2>3, <2>4, <2>5
<1>12. CASE CancelRun
  <2>1. BuildTypeOK'
    BY <1>12, BuildFaultType DEF CancelRun
  <2>2. InTurn'
    BY <1>12, BuildFaultType DEF CancelRun
  <2>3. RunKnown'
    BY <1>12, BuildFaultType DEF CancelRun
  <2>4. SecretKnown'
    BY <1>12, BuildFaultType DEF CancelRun
  <2>5. SecretSafe'
    BY <1>12, BuildFaultType DEF CancelRun
  <2> QED
    BY <2>1, <2>2, <2>3, <2>4, <2>5
<1>13. CASE SeeStopped
  BY <1>13 DEF SeeStopped
<1>14. CASE NeverStopped
  BY <1>14 DEF NeverStopped, Leaving
<1>15. CASE DeleteSecret
  <2>1. BuildTypeOK'
    BY <1>15, BuildFaultType DEF DeleteSecret
  <2>2. InTurn'
    BY <1>15, BuildFaultType DEF DeleteSecret
  <2>3. RunKnown'
    BY <1>15, BuildFaultType DEF DeleteSecret
  <2>4. SecretKnown'
    BY <1>15, BuildFaultType DEF DeleteSecret
  <2>5. SecretSafe'
    BY <1>15, BuildFaultType DEF DeleteSecret
  <2> QED
    BY <2>1, <2>2, <2>3, <2>4, <2>5
<1>16. CASE BuildCancelled
  <2>1. BuildTypeOK'
    BY <1>16 DEF BuildCancelled, Waiting
  <2>2. InTurn'
    BY <1>16 DEF BuildCancelled, Waiting
  <2>3. RunKnown'
    BY <1>16 DEF BuildCancelled, Waiting
  <2>4. SecretKnown'
    BY <1>16 DEF BuildCancelled, Waiting
  <2>5. SecretSafe'
    BY <1>16 DEF BuildCancelled, Waiting
  <2> QED
    BY <2>1, <2>2, <2>3, <2>4, <2>5
<1>17. CASE RunEnds
  BY <1>17 DEF RunEnds
<1>18. CASE Archived
  <2>1. BuildTypeOK'
    BY <1>18 DEF Archived
  <2>2. InTurn'
    BY <1>18 DEF Archived
  <2>3. RunKnown'
    BY <1>18 DEF Archived
  <2>4. SecretKnown'
    BY <1>18 DEF Archived
  <2>5. SecretSafe'
    BY <1>18 DEF Archived
  <2> QED
    BY <2>1, <2>2, <2>3, <2>4, <2>5
<1>19. ASSUME NEW x \in DOMAIN request, RequestEnds(x) PROVE BuildInv'
  <2> x \in {"secret", "run"}
    OBVIOUS
  <2>1. BuildTypeOK'
    <3>1. {x} \in SUBSET {"secret", "run", "stop", "delete"} /\ {} \in SUBSET {"secret", "run", "stop", "delete"}
      OBVIOUS
    <3>2. buildFaults' \in [failed : Nat, cancels : Nat, left : SUBSET {"secret", "run", "stop", "delete"}]
      BY <1>19, <3>1, BuildFaultType DEF RequestEnds
    <3>3. request' \in [{"secret", "run"} -> {"none", "sent", "answered", "failed"}] /\ UNCHANGED build
      BY <1>19 DEF RequestEnds
    <3>4. secret' \in BOOLEAN /\ pipeline' \in [state : {"absent", "active", "succeeded", "failed"}, live : BOOLEAN]
      <4>1. UNCHANGED secret \/ secret' = TRUE
        BY <1>19 DEF RequestEnds, Created
      <4>2. UNCHANGED pipeline \/ pipeline' = [state |-> "active", live |-> TRUE]
        BY <1>19 DEF RequestEnds, Created
      <4>3. secret' \in BOOLEAN
        BY <4>1
      <4>4. pipeline' \in [state : {"absent", "active", "succeeded", "failed"}, live : BOOLEAN]
        <5>1. CASE UNCHANGED pipeline
          BY <5>1
        <5>2. CASE pipeline' = [state |-> "active", live |-> TRUE]
          BY <5>2, Zenon
        <5> QED
          BY <4>2, <5>1, <5>2
      <4> QED
        BY <4>3, <4>4
    <3> QED
      BY <3>2, <3>3, <3>4
  <2>2. InTurn'
    BY <1>19, BuildFaultType DEF RequestEnds, Created
  <2>3. RunKnown'
    BY <1>19, BuildFaultType DEF RequestEnds, Created
  <2>4. SecretKnown'
    BY <1>19, BuildFaultType DEF RequestEnds, Created
  <2>5. SecretSafe'
    BY <1>19, BuildFaultType DEF RequestEnds, Created
  <2> QED
    BY <2>1, <2>2, <2>3, <2>4, <2>5
<1> QED
  BY <1>1, <1>2, <1>3, <1>4, <1>5, <1>6, <1>7, <1>8, <1>9, <1>10, <1>11, <1>12, <1>13, <1>14, <1>15, <1>16, <1>17, <1>18, <1>19 DEF BuildNext, BuildStep

(***************************************************************************)
(* The Secret is never pulled from under a run that needs it, and stays    *)
(* behind only where a failed call or an endless run is the reason.        *)
(***************************************************************************)
THEOREM SecretSafety == ServicesSpec => []SecretSafe
<1>1. ServicesInit => BuildInv
  <2> SUFFICES ASSUME BuildInit PROVE BuildInv
    BY DEF ServicesInit
  <2>1. BuildTypeOK
    BY DEF BuildInit, BuildTypeOK
  <2>2. InTurn
    BY DEF BuildInit, InTurn
  <2>3. RunKnown /\ SecretKnown /\ SecretSafe
    BY DEF BuildInit, RunKnown, SecretKnown, SecretSafe, SecretHeld, NoSecretForgotten, BuildAt, Finished
  <2> QED
    BY <2>1, <2>2, <2>3 DEF BuildInv
<1>2. BuildInv /\ [ServicesNext]_servicesVars => BuildInv'
  <2>1. [ServicesNext]_servicesVars => BuildNext \/ UNCHANGED buildVars
    BY DEF ServicesNext, servicesVars
  <2> QED
    BY <2>1, BuildInductive
<1>3. BuildInv => SecretSafe
  BY DEF BuildInv
<1> QED
  BY <1>1, <1>2, <1>3, PTL DEF ServicesSpec
-----------------------------------------------------------------------------
(* The machines of Testing Farm. *)

(* What the machines' variables may be. *)
Reserved == [state : {"none", "new", "running", "complete", "canceled"}, host : Host \cup {NoHost}]
Calls    == [look : {"no", "polling", "ready"}, cancel : {"no", "sent", "deleted"},
             known : BOOLEAN, gone : BOOLEAN, on : Host \cup {NoHost}]
FarmTypeOK ==
    /\ machine \in [Machine -> Reserved]
    /\ call \in [Machine -> Calls]
    /\ allowed \in [Job -> SUBSET (Host \cup {NoHost})]

(* What lets r's host stay on the list of its issue: that it was given out, and *)
(* is not forgotten yet, or is as NoForeignMachine excepts it.                 *)
Vouches(r) ==
    /\ machine[r].state \notin {"none", "new"}
    /\ machine[r].state \in {"running", "complete"} \/ r \in overlapped \/ ~call[r].gone

(* A reservation is looked at and cancelled before it is gone, or is known to  *)
(* have been both at once.                                                     *)
CallOrder(r) ==
    /\ call[r].cancel # "no" => ~call[r].gone
    /\ call[r].look # "no" /\ (call[r].cancel # "no" \/ call[r].gone) => r \in overlapped
    /\ call[r].look = "ready" => machine[r].state \notin {"none", "new"}

(* Every host on the list has a reservation of the issue that vouches for it. *)
AllowedVouched ==
    \A i \in Job : \A h \in allowed[i] :
        \E x \in Machine : Holder[x] = i /\ machine[x].host = h /\ Vouches(x)

(* Whoever is on the list of an issue was put there by a reservation of it,   *)
(* and that one is answerable for it until the list is emptied.               *)
FarmInv == FarmTypeOK /\ (\A r \in Machine : CallOrder(r)) /\ AllowedVouched

(* A step that adds no host and takes back no reservation's word. *)
LEMMA VouchersStay ==
    ASSUME FarmInv, FarmTypeOK', \A i \in Job : allowed'[i] \subseteq allowed[i],
           \A x \in Machine : Vouches(x) /\ machine[x].host \in allowed'[Holder[x]]
               => Vouches(x)' /\ machine'[x].host = machine[x].host
    PROVE  AllowedVouched'
<1> SUFFICES ASSUME NEW i \in Job, NEW h \in allowed'[i]
             PROVE  \E x \in Machine : Holder[x] = i /\ machine'[x].host = h /\ Vouches(x)'
  BY DEF AllowedVouched, Job
<1>1. PICK x \in Machine : Holder[x] = i /\ machine[x].host = h /\ Vouches(x)
  BY DEF FarmInv, AllowedVouched
<1> QED
  BY <1>1

(* The writes to one reservation's calls, and to its state.                   *)
LEMMA CallWrites ==
    ASSUME FarmTypeOK, NEW r \in Machine
    PROVE  /\ \A v \in {"no", "polling", "ready"} : [call[r] EXCEPT !.look = v] \in Calls
           /\ \A v \in {"no", "sent", "deleted"} : [call[r] EXCEPT !.cancel = v] \in Calls
           /\ [call[r] EXCEPT !.known = TRUE] \in Calls
           /\ [call[r] EXCEPT !.cancel = "no", !.gone = TRUE] \in Calls
           /\ \A h \in Host \cup {NoHost} : [call[r] EXCEPT !.on = h] \in Calls
           /\ [call[r] EXCEPT !.look = "no", !.cancel = "no", !.on = NoHost] \in Calls
<1> DEFINE c == call[r]
<1>1. c \in Calls
  BY DEF FarmTypeOK
<1> HIDE DEF c
<1>2. \A v \in {"no", "polling", "ready"} : [c EXCEPT !.look = v] \in Calls
  BY ONLY <1>1 DEF Calls
<1>3. \A v \in {"no", "sent", "deleted"} : [c EXCEPT !.cancel = v] \in Calls
  BY ONLY <1>1 DEF Calls
<1>4. [c EXCEPT !.known = TRUE] \in Calls
  BY ONLY <1>1 DEF Calls
<1>5. [c EXCEPT !.cancel = "no", !.gone = TRUE] \in Calls
  BY ONLY <1>1 DEF Calls
<1>6. \A h \in Host \cup {NoHost} : [c EXCEPT !.on = h] \in Calls
  BY ONLY <1>1 DEF Calls
<1>7. [c EXCEPT !.look = "no", !.cancel = "no", !.on = NoHost] \in Calls
  BY ONLY <1>1 DEF Calls
<1> QED
  BY ONLY <1>2, <1>3, <1>4, <1>5, <1>6, <1>7 DEF c

LEMMA MachineWrites ==
    ASSUME FarmTypeOK, NEW r \in Machine
    PROVE  /\ \A v \in {"new", "running", "complete", "canceled"} :
                  [machine EXCEPT ![r].state = v] \in [Machine -> Reserved]
           /\ [machine EXCEPT ![r].state = IF r \in Live THEN "canceled" ELSE @] \in [Machine -> Reserved]
           /\ \A h \in Host : [machine EXCEPT ![r] = [state |-> "running", host |-> h]] \in [Machine -> Reserved]
<1>1. machine \in [Machine -> Reserved]
  BY DEF FarmTypeOK
<1>2. PICK m : m = machine[r]
  OBVIOUS
<1>3. m \in Reserved
  BY <1>1, <1>2
<1>4. \A v \in {"none", "new", "running", "complete", "canceled"} : [m EXCEPT !.state = v] \in Reserved
  BY ONLY <1>3 DEF Reserved
<1>5. \A n \in Reserved : [machine EXCEPT ![r] = n] \in [Machine -> Reserved]
  BY ONLY <1>1
<1>6. \A v : [machine EXCEPT ![r].state = v] = [machine EXCEPT ![r] = [m EXCEPT !.state = v]]
  BY ONLY <1>2
<1>7. m.state \in {"none", "new", "running", "complete", "canceled"}
  BY ONLY <1>3 DEF Reserved
<1>8. [machine EXCEPT ![r].state = IF r \in Live THEN "canceled" ELSE @]
        = [machine EXCEPT ![r] = [m EXCEPT !.state = IF r \in Live THEN "canceled" ELSE m.state]]
  BY ONLY <1>2
<1>9. [machine EXCEPT ![r].state = IF r \in Live THEN "canceled" ELSE @] \in [Machine -> Reserved]
  <2>1. (IF r \in Live THEN "canceled" ELSE m.state) \in {"none", "new", "running", "complete", "canceled"}
    BY ONLY <1>7
  <2> QED
    BY ONLY <1>4, <1>5, <1>8, <2>1
<1>10. \A h \in Host : [state |-> "running", host |-> h] \in Reserved
  BY ONLY TRUE DEF Reserved
<1>11. \A v \in {"new", "running", "complete", "canceled"} : [machine EXCEPT ![r].state = v] \in [Machine -> Reserved]
  BY ONLY <1>4, <1>5, <1>6
<1> QED
  BY ONLY <1>5, <1>9, <1>10, <1>11

(* Every step keeps the types. *)
LEMMA FarmTypeInductive ==
    ASSUME FarmTypeOK, FarmNext \/ UNCHANGED farmVars
    PROVE  FarmTypeOK'
<1>0. /\ machine \in [Machine -> Reserved]
      /\ call \in [Machine -> Calls]
      /\ allowed \in [Job -> SUBSET (Host \cup {NoHost})]
  BY DEF FarmTypeOK
<1>1. ASSUME NEW r \in Machine, NEW c \in Calls, SetCall(r, c) PROVE call' \in [Machine -> Calls]
  BY ONLY <1>0, <1>1 DEF SetCall
<1>2. ASSUME NEW r \in Machine, NEW c \in Calls, SetCall(r, c), UNCHANGED <<machine, allowed>> PROVE FarmTypeOK'
  BY <1>0, <1>1, <1>2 DEF FarmTypeOK, Job
<1>3. ASSUME machine' \in [Machine -> Reserved], UNCHANGED <<call, allowed>> PROVE FarmTypeOK'
  BY <1>0, <1>3 DEF FarmTypeOK, Job
<1>4. CASE UNCHANGED farmVars
  BY <1>0, <1>3, <1>4 DEF farmVars
<1>5. CASE GatewayRestarts
  <2>1. call' = [r \in Machine |-> [call[r] EXCEPT !.look = "no", !.cancel = "no", !.on = NoHost]]
    BY <1>5 DEF GatewayRestarts
  <2>2. \A r \in Machine : [call[r] EXCEPT !.look = "no", !.cancel = "no", !.on = NoHost] \in Calls
    BY CallWrites
  <2>3. call' \in [Machine -> Calls]
    BY ONLY <2>1, <2>2
  <2>4. allowed' \in [Job -> SUBSET (Host \cup {NoHost})] /\ machine' = machine
    BY <1>5 DEF GatewayRestarts, Job
  <2> QED
    BY <1>0, <2>3, <2>4 DEF FarmTypeOK, Job
<1>6. ASSUME NEW r \in Machine, Reserve(r) PROVE FarmTypeOK'
  <2>1. machine' = [machine EXCEPT ![r].state = "new"] /\ allowed' = allowed
        /\ (call' = call \/ SetCall(r, [call[r] EXCEPT !.known = TRUE]))
    BY <1>6 DEF Reserve
  <2>2. machine' \in [Machine -> Reserved]
    BY <2>1, MachineWrites
  <2>3. call' \in [Machine -> Calls]
    BY <1>0, <1>1, <2>1, CallWrites
  <2> QED
    BY <1>0, <2>1, <2>2, <2>3 DEF FarmTypeOK, Job
<1>7. ASSUME NEW r \in Machine, Look(r) PROVE FarmTypeOK'
  BY <1>2, <1>7, CallWrites DEF Look
<1>8. ASSUME NEW r \in Machine, SeeRunning(r) PROVE FarmTypeOK'
  BY <1>2, <1>8, CallWrites DEF SeeRunning
<1>9. ASSUME NEW r \in Machine, GiveUpLooking(r) PROVE FarmTypeOK'
  BY <1>2, <1>9, CallWrites DEF GiveUpLooking
<1>10. ASSUME NEW r \in Machine, Register(r) PROVE FarmTypeOK'
  <2>1. call' \in [Machine -> Calls] /\ machine' = machine
    BY <1>1, <1>10, CallWrites DEF Register
  <2>2. machine[r].host \in Host \cup {NoHost}
    <3>1. machine[r] \in Reserved
      BY <1>0
    <3> QED
      BY ONLY <3>1 DEF Reserved
  <2>3. allowed' = [allowed EXCEPT ![Holder[r]] = @ \cup {machine[r].host}]
    BY <1>10 DEF Register
  <2>4. allowed' \in [Job -> SUBSET (Host \cup {NoHost})]
    BY ONLY <1>0, <2>2, <2>3
  <2> QED
    BY <1>0, <2>1, <2>4 DEF FarmTypeOK, Job
<1>11. ASSUME NEW r \in Machine, Cancel(r) PROVE FarmTypeOK'
  BY <1>2, <1>11, CallWrites DEF Cancel
<1>12. ASSUME NEW r \in Machine, Deleted(r) PROVE FarmTypeOK'
  <2>1. UNCHANGED machine \/ machine' = [machine EXCEPT ![r].state = IF r \in Live THEN "canceled" ELSE @]
    BY <1>12 DEF Deleted
  <2>2. machine' \in [Machine -> Reserved] /\ allowed' = allowed
    <3>1. allowed' = allowed
      BY <1>12 DEF Deleted
    <3>2. [machine EXCEPT ![r].state = IF r \in Live THEN "canceled" ELSE @] \in [Machine -> Reserved]
      BY MachineWrites
    <3>3. PICK f : f = [machine EXCEPT ![r].state = IF r \in Live THEN "canceled" ELSE @]
      OBVIOUS
    <3>4. f \in [Machine -> Reserved] /\ machine' \in {machine, f}
      BY <2>1, <3>2, <3>3
    <3> QED
      BY <1>0, <3>1, <3>4
  <2>3. SetCall(r, [call[r] EXCEPT !.cancel = "deleted"]) \/ SetCall(r, [call[r] EXCEPT !.cancel = "no"])
    BY <1>12 DEF Deleted
  <2>4. call' \in [Machine -> Calls]
    BY <1>1, <2>3, CallWrites
  <2> QED
    BY <1>0, <2>2, <2>4 DEF FarmTypeOK, Job
<1>13. ASSUME NEW r \in Machine, Forget(r) PROVE FarmTypeOK'
  <2>1. call' \in [Machine -> Calls] /\ machine' = machine
    BY <1>1, <1>13, CallWrites DEF Forget
  <2>2. allowed' = [allowed EXCEPT ![Holder[r]] = {}]
    BY <1>13 DEF Forget
  <2>3. allowed' \in [Job -> SUBSET (Host \cup {NoHost})]
    BY ONLY <1>0, <2>2
  <2> QED
    BY <1>0, <2>1, <2>3 DEF FarmTypeOK, Job
<1>14. ASSUME NEW r \in Machine, Provision(r) \/ Expire(r) PROVE FarmTypeOK'
  <2>1. CASE Provision(r)
    <3>1. PICK h \in Host : machine' = [machine EXCEPT ![r] = [state |-> "running", host |-> h]]
      BY <2>1 DEF Provision
    <3>2. machine' \in [Machine -> Reserved]
      BY <3>1, MachineWrites
    <3> QED
      BY <1>3, <2>1, <3>2 DEF Provision
  <2>2. CASE Expire(r)
    <3>1. machine' \in [Machine -> Reserved]
      BY <2>2, MachineWrites DEF Expire
    <3> QED
      BY <1>3, <2>2, <3>1 DEF Expire
  <2> QED
    BY <1>14, <2>1, <2>2
<1>15. ASSUME NEW r \in Machine, RunDone(r) PROVE FarmTypeOK'
  BY <1>2, <1>15, CallWrites DEF RunDone
<1>16. ASSUME NEW r \in Machine, NEW h \in Host, Run(r, h) PROVE FarmTypeOK'
  BY <1>2, <1>16, CallWrites DEF Run
<1> QED
  BY <1>4, <1>5, <1>6, <1>7, <1>8, <1>9, <1>10, <1>11, <1>12, <1>13, <1>14, <1>15, <1>16 DEF FarmNext

(* Every step keeps the order of calls and the lists answered for. *)
LEMMA FarmInductive ==
    ASSUME FarmInv, FarmNext \/ UNCHANGED farmVars
    PROVE  FarmInv'
<1> USE DEF SetCall, CallOrder
<1>0. FarmTypeOK /\ FarmTypeOK'
  BY FarmTypeInductive DEF FarmInv
<1> USE <1>0 DEF FarmTypeOK, Reserved, Calls
<1>1. CASE UNCHANGED farmVars
  <2>1. \A r \in Machine : CallOrder(r)'
    BY <1>1 DEF farmVars, FarmInv
  <2>2. AllowedVouched'
    BY <1>1, VouchersStay DEF farmVars, Vouches
  <2> QED
    BY <2>1, <2>2 DEF FarmInv
<1>2. CASE GatewayRestarts
  <2>1. ASSUME NEW r \in Machine PROVE call'[r].look = "no" /\ call'[r].cancel = "no"
    <3>1. call'[r] = [call[r] EXCEPT !.look = "no", !.cancel = "no", !.on = NoHost]
      BY <1>2, Zenon DEF GatewayRestarts
    <3>2. call[r] \in Calls
      OBVIOUS
    <3> QED
      BY <3>1, <3>2
  <2>2. AllowedVouched'
    BY <1>2 DEF GatewayRestarts, AllowedVouched
  <2> QED
    BY <2>1, <2>2 DEF FarmInv
<1>3. ASSUME NEW r \in Machine, Reserve(r) PROVE FarmInv'
  <2>1. \A x \in Machine : CallOrder(x)'
    BY <1>3 DEF Reserve, FarmInv
  <2>2. AllowedVouched'
    BY <1>3, VouchersStay DEF Reserve, Vouches, FarmInv
  <2> QED
    BY <2>1, <2>2 DEF FarmInv
<1>4. ASSUME NEW r \in Machine, Look(r) PROVE FarmInv'
  <2>1. \A x \in Machine : CallOrder(x)'
    BY <1>4 DEF Look, FarmInv
  <2>2. AllowedVouched'
    BY <1>4, VouchersStay DEF Look, Vouches, FarmInv
  <2> QED
    BY <2>1, <2>2 DEF FarmInv
<1>5. ASSUME NEW r \in Machine, SeeRunning(r) PROVE FarmInv'
  <2>1. \A x \in Machine : CallOrder(x)'
    BY <1>5 DEF SeeRunning, FarmInv
  <2>2. AllowedVouched'
    BY <1>5, VouchersStay DEF SeeRunning, Vouches, FarmInv
  <2> QED
    BY <2>1, <2>2 DEF FarmInv
<1>6. ASSUME NEW r \in Machine, GiveUpLooking(r) PROVE FarmInv'
  <2>1. \A x \in Machine : CallOrder(x)'
    BY <1>6 DEF GiveUpLooking, FarmInv
  <2>2. AllowedVouched'
    BY <1>6, VouchersStay DEF GiveUpLooking, Vouches, FarmInv
  <2> QED
    BY <2>1, <2>2 DEF FarmInv
<1>7. ASSUME NEW r \in Machine, Cancel(r) PROVE FarmInv'
  <2>1. \A x \in Machine : CallOrder(x)'
    BY <1>7 DEF Cancel, FarmInv
  <2>2. AllowedVouched'
    BY <1>7, VouchersStay DEF Cancel, Vouches, FarmInv
  <2> QED
    BY <2>1, <2>2 DEF FarmInv
<1>8. ASSUME NEW r \in Machine, Deleted(r) PROVE FarmInv'
  <2>1. \A x \in Machine : CallOrder(x)'
    BY <1>8 DEF Deleted, Live, FarmInv
  <2>2. ASSUME NEW x \in Machine, Vouches(x) PROVE Vouches(x)' /\ machine'[x].host = machine[x].host
    <3>1. UNCHANGED machine \/ machine' = [machine EXCEPT ![r].state = IF r \in Live THEN "canceled" ELSE @]
      BY <1>8 DEF Deleted
    <3>2. machine'[x].host = machine[x].host /\ machine'[x].state \notin {"none", "new"}
      BY <2>2, <3>1 DEF Vouches
    <3>3. call'[x].gone = call[x].gone /\ UNCHANGED overlapped
      BY <1>8 DEF Deleted
    <3>4. CASE x = r
      BY <1>8, <3>2, <3>3, <3>4 DEF Deleted, Vouches, FarmInv
    <3>5. CASE x # r
      BY <2>2, <3>1, <3>2, <3>3, <3>5 DEF Vouches
    <3> QED
      BY <3>4, <3>5
  <2>3. AllowedVouched'
    BY <1>8, <2>2, VouchersStay DEF Deleted
  <2> QED
    BY <2>1, <2>3 DEF FarmInv
<1>9. ASSUME NEW r \in Machine, Provision(r) PROVE FarmInv'
  <2>1. \A x \in Machine : CallOrder(x)'
    BY <1>9 DEF Provision, FarmInv
  <2>2. AllowedVouched'
    BY <1>9, VouchersStay DEF Provision, Vouches, FarmInv
  <2> QED
    BY <2>1, <2>2 DEF FarmInv
<1>10. ASSUME NEW r \in Machine, Expire(r) PROVE FarmInv'
  <2>1. \A x \in Machine : CallOrder(x)'
    BY <1>10 DEF Expire, FarmInv
  <2>2. AllowedVouched'
    BY <1>10, VouchersStay DEF Expire, Vouches, FarmInv
  <2> QED
    BY <2>1, <2>2 DEF FarmInv
<1>11. ASSUME NEW r \in Machine, RunDone(r) PROVE FarmInv'
  <2>1. \A x \in Machine : CallOrder(x)'
    BY <1>11 DEF RunDone, FarmInv
  <2>2. AllowedVouched'
    BY <1>11, VouchersStay DEF RunDone, Vouches, FarmInv
  <2> QED
    BY <2>1, <2>2 DEF FarmInv
<1>12. ASSUME NEW r \in Machine, NEW h \in Host, Run(r, h) PROVE FarmInv'
  <2>1. \A x \in Machine : CallOrder(x)'
    BY <1>12 DEF Run, FarmInv
  <2>2. AllowedVouched'
    BY <1>12, VouchersStay DEF Run, Vouches
  <2> QED
    BY <2>1, <2>2 DEF FarmInv
<1>13. ASSUME NEW r \in Machine, Register(r) PROVE FarmInv'
  <2>1. \A x \in Machine : CallOrder(x)'
    BY <1>13 DEF Register, FarmInv
  <2>2. \A x \in Machine : Vouches(x) => Vouches(x)'
    BY <1>13 DEF Register, Vouches
  <2>3. Vouches(r)'
    BY <1>13 DEF Register, Vouches, FarmInv
  <2>4. ASSUME NEW i \in Job, NEW h \in allowed'[i]
        PROVE  \E x \in Machine : Holder[x] = i /\ machine'[x].host = h /\ Vouches(x)'
    <3>1. CASE i = Holder[r] /\ h = machine[r].host
      BY <1>13, <2>3, <3>1 DEF Register
    <3>2. CASE h \in allowed[i]
      BY <1>13, <2>2, <3>2 DEF Register, FarmInv, AllowedVouched
    <3> QED
      BY <1>13, <3>1, <3>2 DEF Register
  <2> QED
    BY <2>1, <2>4 DEF FarmInv, AllowedVouched, Job
<1>14. ASSUME NEW r \in Machine, Forget(r) PROVE FarmInv'
  <2>1. \A x \in Machine : CallOrder(x)'
    BY <1>14 DEF Forget, FarmInv
  <2>2. ASSUME NEW x \in Machine, Vouches(x), machine[x].host \in allowed'[Holder[x]]
        PROVE  Vouches(x)' /\ machine'[x].host = machine[x].host
    <3>1. x # r
      BY <1>14, <2>2 DEF Forget, Job
    <3> QED
      BY <1>14, <2>2, <3>1 DEF Forget, Vouches
  <2>3. \A i \in Job : allowed'[i] \subseteq allowed[i]
    BY <1>14 DEF Forget
  <2> QED
    BY <2>1, <2>2, <2>3, VouchersStay DEF FarmInv
<1> QED
  BY <1>1, <1>2, <1>3, <1>4, <1>5, <1>6, <1>7, <1>8, <1>9, <1>10, <1>11, <1>12, <1>13, <1>14 DEF FarmNext

(* No other step starts a command. *)
LEMMA OnlyRunStarts ==
    ASSUME FarmTypeOK, FarmNext \/ UNCHANGED farmVars, NEW r \in Machine,
           call[r].on = NoHost, call'[r].on # NoHost
    PROVE  \E h \in Host : Run(r, h)
<1> USE DEF FarmTypeOK, Reserved, Calls, SetCall
<1>1. ASSUME NEW x \in Machine, Reserve(x) PROVE call'[r].on \in {call[r].on, NoHost}
  BY <1>1 DEF Reserve
<1>2. ASSUME NEW x \in Machine, Look(x) PROVE call'[r].on \in {call[r].on, NoHost}
  BY <1>2 DEF Look
<1>3. ASSUME NEW x \in Machine, SeeRunning(x) PROVE call'[r].on \in {call[r].on, NoHost}
  BY <1>3 DEF SeeRunning
<1>4. ASSUME NEW x \in Machine, Register(x) PROVE call'[r].on \in {call[r].on, NoHost}
  BY <1>4 DEF Register
<1>5. ASSUME NEW x \in Machine, GiveUpLooking(x) PROVE call'[r].on \in {call[r].on, NoHost}
  BY <1>5 DEF GiveUpLooking
<1>6. ASSUME NEW x \in Machine, Cancel(x) PROVE call'[r].on \in {call[r].on, NoHost}
  BY <1>6 DEF Cancel
<1>7. ASSUME NEW x \in Machine, Deleted(x) PROVE call'[r].on \in {call[r].on, NoHost}
  <2>1. CASE call' = [call EXCEPT ![x] = [call[x] EXCEPT !.cancel = "deleted"]]
    BY <2>1
  <2>2. CASE call' = [call EXCEPT ![x] = [call[x] EXCEPT !.cancel = "no"]]
    BY <2>2
  <2> QED
    BY <1>7, <2>1, <2>2 DEF Deleted
<1>8. ASSUME NEW x \in Machine, Forget(x) PROVE call'[r].on \in {call[r].on, NoHost}
  BY <1>8 DEF Forget
<1>9. ASSUME NEW x \in Machine, Provision(x) \/ Expire(x) PROVE call'[r].on \in {call[r].on, NoHost}
  BY <1>9 DEF Provision, Expire
<1>10. ASSUME NEW x \in Machine, RunDone(x) PROVE call'[r].on \in {call[r].on, NoHost}
  BY <1>10 DEF RunDone
<1>11. CASE GatewayRestarts
  <2>1. call'[r] = [call[r] EXCEPT !.look = "no", !.cancel = "no", !.on = NoHost]
    BY <1>11, Zenon DEF GatewayRestarts
  <2> QED
    BY <2>1
<1>12. ASSUME NEW x \in Machine, NEW h \in Host, Run(x, h) PROVE x = r
  BY <1>12 DEF Run
<1> QED
  BY <1>1, <1>2, <1>3, <1>4, <1>5, <1>6, <1>7, <1>8, <1>9, <1>10, <1>11, <1>12 DEF FarmNext, farmVars

(***************************************************************************)
(* No command starts on a machine that meanwhile belongs to another issue, *)
(* but for the three excuses that NoForeignMachine names.                  *)
(***************************************************************************)
THEOREM MachineSafety == ServicesSpec => NoForeignMachine
<1>1. ServicesInit => FarmInv
  BY FarmAssumption DEF ServicesInit, FarmInit, FarmInv, FarmTypeOK, Reserved, Calls, CallOrder, AllowedVouched, Job
<1>2. [ServicesNext]_servicesVars => FarmNext \/ UNCHANGED farmVars
  BY DEF ServicesNext, servicesVars
<1>3. FarmInv /\ [ServicesNext]_servicesVars => FarmInv'
  BY <1>2, FarmInductive
<1>4. ASSUME FarmInv, [ServicesNext]_servicesVars, NEW r \in Machine,
             call[r].on = NoHost, call'[r].on # NoHost
      PROVE  \E x \in {x \in Machine : Holder[x] = Holder[r] /\ machine[x].host = call'[r].on} :
                 machine[x].state \in {"running", "complete"} \/ x \in overlapped \/ ~call[x].gone
  <2>1. PICK h \in Host : Run(r, h)
    BY <1>2, <1>4, OnlyRunStarts DEF FarmInv
  <2>2. h \in allowed[Holder[r]] /\ Holder[r] \in Job
    BY <2>1 DEF Run, Job
  <2>3. call'[r].on = h
    BY <1>4, <2>1 DEF Run, SetCall, FarmInv, FarmTypeOK, Calls
  <2> QED
    BY <1>4, <2>2, <2>3 DEF FarmInv, AllowedVouched, Vouches
<1>5. FarmInv /\ [ServicesNext]_servicesVars =>
        [\A r \in Machine : call[r].on = NoHost /\ call'[r].on # NoHost =>
            LET own == {x \in Machine : Holder[x] = Holder[r] /\ machine[x].host = call'[r].on}
            IN  \E x \in own : machine[x].state \in {"running", "complete"} \/ x \in overlapped \/ ~call[x].gone]_farmVars
  BY <1>4
<1> QED
  BY <1>1, <1>3, <1>5, PTL DEF ServicesSpec, NoForeignMachine

-----------------------------------------------------------------------------
(* Clones on the shared volume. *)

(* What the volume's variables may be. *)
Ages       == {"none", "recent", "stale"}
Directory  == [dir : Ages, marker : Ages, clone : BOOLEAN, files : [CloneFile -> {"none", "old", "new", "mixed"}]]
UserState  == [at : {"idle", "wipe", "mkdir", "mkdir again", "mark", "call", "remove", "init", "fetch", "work"},
               listed : SUBSET CloneFile, runs : Nat, raced : BOOLEAN]
SweepState == [at : {"idle", "look", "remove"}, w : Space \cup {CHOOSE w \in Space : TRUE},
               listed : SUBSET (CloneFile \cup {"clone", "marker"})]
VolumeTypeOK ==
    /\ issueDir \in BOOLEAN
    /\ space \in [Space -> Directory]
    /\ user \in [Space -> UserState]
    /\ cleaner \in [Cleaner -> SweepState]

(* A directory d and the job u that uses it.  Files lie in a clone; the job   *)
(* begins its clone where none is, and checks it out into an empty one; until *)
(* the job is done the directory cannot look abandoned; unless it was raced,  *)
(* the clone stays, and stays whole.                                          *)
Fit(d, u) ==
    /\ ~d.clone => Inside(d) = {}
    /\ u.at = "init" => ~d.clone
    /\ u.at = "fetch" => Inside(d) = {}
    /\ u.at \in {"fetch", "work"} => d.dir # "stale" /\ (~u.raced => d.clone)
    /\ u.at = "work" => /\ \A f \in CloneFile : d.files[f] \in {"new", "none"}
                        /\ u.raced \/ Inside(d) = CloneFile

(* A clean-up takes files out of w. *)
Removes(c, w) == cleaner[c].at = "remove" /\ cleaner[c].w = w
Undisturbed(w) ==
    user[w].at \in {"fetch", "work"} /\ ~user[w].raced => \A c \in Cleaner : ~Removes(c, w)

(* A clean-up that begins later finds the directory too young.                *)
VolumeInv ==
    /\ VolumeTypeOK
    /\ \A c \in Cleaner : cleaner[c].at # "idle" => cleaner[c].w \in Space
    /\ \A w \in Space : Fit(space[w], user[w]) /\ Undisturbed(w)

(* A step of the job that uses w. *)
LEMMA UserStep ==
    ASSUME VolumeInv, NEW w \in Space, NEW d \in Directory, NEW u \in UserState, issueDir' \in BOOLEAN,
           space' = [space EXCEPT ![w] = d], user' = [user EXCEPT ![w] = u], cleaner' = cleaner, Fit(d, u),
           u.at \in {"fetch", "work"} /\ ~u.raced =>
               \/ \A c \in Cleaner : ~Removes(c, w)
               \/ user[w].at \in {"fetch", "work"} /\ ~user[w].raced
    PROVE  VolumeInv'
<1>1. VolumeTypeOK'
  BY DEF VolumeInv, VolumeTypeOK
<1>2. space'[w] = d /\ user'[w] = u /\ \A x \in Space \ {w} : space'[x] = space[x] /\ user'[x] = user[x]
  BY DEF VolumeInv, VolumeTypeOK
<1>3. \A x \in Space : Fit(space'[x], user'[x])
  BY <1>2 DEF VolumeInv
<1>4. \A c \in Cleaner, x \in Space : Removes(c, x)' = Removes(c, x)
  BY DEF Removes
<1>5. \A x \in Space : Undisturbed(x)'
  BY <1>2, <1>4 DEF VolumeInv, Undisturbed
<1> QED
  BY <1>1, <1>3, <1>5 DEF VolumeInv

(* A step of clean-up c, at w. *)
LEMMA SweepStep ==
    ASSUME VolumeInv, NEW w \in Space, NEW d \in Directory, NEW c \in Cleaner, NEW r \in SweepState,
           UNCHANGED issueDir,
           space' = [space EXCEPT ![w] = d], cleaner' = [cleaner EXCEPT ![c] = r], user' = user, Fit(d, user[w]),
           r.at # "idle" => r.w = w,
           r.at = "remove" /\ user[w].at \in {"fetch", "work"} => user[w].raced
    PROVE  VolumeInv'
<1>1. VolumeTypeOK'
  BY DEF VolumeInv, VolumeTypeOK
<1>2. space'[w] = d /\ \A x \in Space \ {w} : space'[x] = space[x]
  BY DEF VolumeInv, VolumeTypeOK
<1>3. \A x \in Space : Fit(space'[x], user'[x])
  BY <1>2 DEF VolumeInv
<1>4. cleaner'[c] = r /\ \A b \in Cleaner \ {c} : cleaner'[b] = cleaner[b]
  BY DEF VolumeInv, VolumeTypeOK
<1>5. \A b \in Cleaner, x \in Space : Removes(b, x)' => Removes(b, x) \/ (b = c /\ r.at = "remove" /\ x = w)
  BY <1>4 DEF Removes
<1>6. \A x \in Space : Undisturbed(x)'
  BY <1>5 DEF VolumeInv, Undisturbed
<1>7. \A b \in Cleaner : cleaner'[b].at # "idle" => cleaner'[b].w \in Space
  BY <1>4 DEF VolumeInv
<1> QED
  BY <1>1, <1>3, <1>6, <1>7 DEF VolumeInv

(* Taking something out of a directory. *)
LEMMA WithoutType ==
    ASSUME NEW d \in Directory, NEW x \in CloneFile \cup {"clone", "marker"}
    PROVE  /\ Without(d, x) \in Directory
           /\ x \in CloneFile => /\ Without(d, x) = [d EXCEPT !.files = [d.files EXCEPT ![x] = "none"]]
                                 /\ Without(d, x).files = [d.files EXCEPT ![x] = "none"]
                                 /\ Without(d, x).clone = d.clone /\ Without(d, x).dir = d.dir
           /\ x \notin CloneFile => Without(d, x).files = d.files /\ Without(d, x).dir = "recent"
           /\ Without(d, x).clone = (d.clone /\ x # "clone")
<1>1. CASE x = "clone"
  <2>1. x \notin CloneFile
    BY <1>1, WorkspaceAssumption
  <2>2. Without(d, x) = [d EXCEPT !.clone = FALSE, !.dir = "recent"]
    BY <1>1 DEF Without
  <2> QED
    BY <1>1, <2>1, <2>2 DEF Directory, Ages
<1>2. CASE x = "marker"
  <2>1. x \notin CloneFile
    BY <1>2, WorkspaceAssumption
  <2>2. Without(d, x) = [d EXCEPT !.marker = "none", !.dir = "recent"]
    BY <1>2 DEF Without
  <2> QED
    BY <1>2, <2>1, <2>2 DEF Directory, Ages
<1>3. CASE x \in CloneFile
  <2>1. x # "clone" /\ x # "marker"
    BY <1>3, WorkspaceAssumption
  <2>2. Without(d, x) = [d EXCEPT !.files[x] = "none"]
    BY <2>1 DEF Without
  <2> DEFINE fs == [d.files EXCEPT ![x] = "none"]
  <2>3. Without(d, x) = [d EXCEPT !.files = fs]
    BY <2>2
  <2>4. fs \in [CloneFile -> {"none", "old", "new", "mixed"}]
    BY <1>3 DEF Directory
  <2> HIDE DEF fs
  <2>5. /\ Without(d, x) \in Directory /\ Without(d, x).files = fs /\ Without(d, x).clone = d.clone
        /\ Without(d, x).dir = d.dir
    BY <2>3, <2>4 DEF Directory
  <2> QED
    BY <1>3, <2>1, <2>3, <2>5 DEF fs, Directory
<1> QED
  BY <1>1, <1>2, <1>3

(* The jobs. *)
LEMMA JobKeeps ==
    ASSUME VolumeInv, NEW w \in Space,
           \/ BeginJob(w) \/ ForceRmtree(w) \/ MkdirParent(w) \/ Mkdir(w) \/ TouchMarker(w)
           \/ ListClone(w) \/ RemoveClone(w) \/ InitClone(w) \/ Checkout(w)
           \/ JobDone(w) \/ JobFails(w) \/ WeekPasses(w)
    PROVE  VolumeInv'
<1> DEFINE d0 == space[w]
           u0 == user[w]
<1>1. d0 \in Directory /\ u0 \in UserState /\ Fit(d0, u0) /\ issueDir \in BOOLEAN
  BY DEF VolumeInv, VolumeTypeOK
<1>2. space = [space EXCEPT ![w] = d0] /\ user = [user EXCEPT ![w] = u0]
  BY DEF VolumeInv, VolumeTypeOK
<1>3. NoSpace \in Directory /\ Inside(NoSpace) = {} /\ ~NoSpace.clone /\ NoSpace.dir = "none"
  BY DEF NoSpace, NoFiles, Directory, Ages, Inside, Present
<1>4. CASE BeginJob(w)
  <2> DEFINE at == IF d0.dir = "none" THEN "mkdir" ELSE "wipe"
             runs == u0.runs + 1
             u1 == [u0 EXCEPT !.runs = runs, !.at = at]
  <2>1. user' = [user EXCEPT ![w] = u1] /\ UNCHANGED <<issueDir, space, cleaner>>
    BY <1>4 DEF BeginJob
  <2>2. at \in {"mkdir", "wipe"} /\ runs \in Nat
    <3>1. u0.runs \in Nat
      BY <1>1 DEF UserState
    <3> QED
      BY <3>1
  <2> HIDE DEF u0, d0, at, runs
  <2>3. u1 \in UserState /\ u1.at \in {"mkdir", "wipe"}
    BY <1>1, <2>2 DEF UserState
  <2> HIDE DEF u1
  <2>4. Fit(d0, u1)
    BY <1>1, <2>3 DEF Fit
  <2> QED
    BY <1>1, <1>2, <2>1, <2>3, <2>4, UserStep
<1>5. ASSUME NEW at \in {"idle", "mkdir", "mkdir again", "mark", "call"},
             NEW d \in Directory, ~d.clone => Inside(d) = {},
             issueDir' \in BOOLEAN, space' = [space EXCEPT ![w] = d], UserGoes(w, at), UNCHANGED cleaner
      PROVE  VolumeInv'
  <2> DEFINE u1 == [u0 EXCEPT !.at = at]
  <2>1. user' = [user EXCEPT ![w] = u1]
    BY <1>5 DEF UserGoes
  <2> HIDE DEF u0
  <2>2. u1 \in UserState /\ u1.at = at
    BY <1>1 DEF UserState
  <2> HIDE DEF u1
  <2>3. Fit(d, u1)
    BY <1>5, <2>2 DEF Fit
  <2> QED
    BY <1>1, <1>2, <1>5, <2>1, <2>2, <2>3, UserStep
<1>6. ~d0.clone => Inside(d0) = {}
  BY <1>1 DEF Fit
<1>7. CASE ForceRmtree(w)
  <2>1. PICK kept \in SUBSET Present(d0) :
           /\ kept \cap CloneFile # {} => "clone" \in kept
           /\ \/ SetSpace(w, Wiped(d0, kept))
              \/ kept = {} /\ SetSpace(w, NoSpace)
    BY <1>7 DEF ForceRmtree
  <2>2. Wiped(d0, kept) \in Directory /\ (~Wiped(d0, kept).clone => Inside(Wiped(d0, kept)) = {})
    <3> HIDE DEF d0
    <3>1. [f \in CloneFile |-> IF f \in kept THEN d0.files[f] ELSE "none"] \in [CloneFile -> {"none", "old", "new", "mixed"}]
      BY <1>1 DEF Directory
    <3> DEFINE fs == [f \in CloneFile |-> IF f \in kept THEN d0.files[f] ELSE "none"]
               i1 == IF Present(d0) \subseteq kept \cup CloneFile THEN d0.dir ELSE "recent"
               m1 == IF "marker" \in kept THEN d0.marker ELSE "none"
               c1 == d0.clone /\ "clone" \in kept
    <3>2. i1 \in Ages /\ m1 \in Ages /\ c1 \in BOOLEAN
      BY <1>1 DEF Directory, Ages
    <3>3. Wiped(d0, kept) = [dir |-> i1, marker |-> m1, clone |-> c1, files |-> fs]
      BY DEF Wiped
    <3>4. "clone" \in kept => d0.clone
      BY WorkspaceAssumption DEF Present
    <3>5. ~c1 => \A f \in CloneFile : fs[f] = "none"
      BY <2>1, <3>4
    <3> HIDE DEF fs, i1, m1, c1
    <3>6. Wiped(d0, kept) \in Directory
      BY <3>1, <3>2, <3>3 DEF Directory, fs
    <3>7. ~c1 => {f \in CloneFile : fs[f] # "none"} = {}
      BY <3>5
    <3>8. Inside(Wiped(d0, kept)) = {f \in CloneFile : fs[f] # "none"}
      BY <3>3, WorkspaceAssumption DEF Inside, Present
    <3> QED
      BY <3>3, <3>6, <3>7, <3>8
  <2>3. UserGoes(w, "mkdir") /\ UNCHANGED <<issueDir, cleaner>>
    BY <1>7 DEF ForceRmtree
  <2> QED
    BY <1>1, <1>3, <1>5, <2>1, <2>2, <2>3 DEF SetSpace
<1>8. CASE MkdirParent(w)
  BY <1>1, <1>2, <1>5, <1>6, <1>8 DEF MkdirParent
<1>9. CASE Mkdir(w)
  <2>1. [NoSpace EXCEPT !.dir = "recent"] \in Directory /\ Inside([NoSpace EXCEPT !.dir = "recent"]) = {}
    BY DEF NoSpace, NoFiles, Directory, Ages, Inside, Present
  <2>2. UNCHANGED <<issueDir, cleaner>>
    BY <1>9 DEF Mkdir
  <2>3. CASE issueDir
    <3>1. SetSpace(w, IF d0.dir = "none" THEN [NoSpace EXCEPT !.dir = "recent"] ELSE d0)
      BY <1>9, <2>3 DEF Mkdir
    <3>2. UserGoes(w, IF w \in Marked THEN "mark" ELSE "call")
      BY <1>9, <2>3 DEF Mkdir
    <3> DEFINE d1 == IF d0.dir = "none" THEN [NoSpace EXCEPT !.dir = "recent"] ELSE d0
               at == IF w \in Marked THEN "mark" ELSE "call"
    <3>3. d1 \in Directory /\ (~d1.clone => Inside(d1) = {}) /\ at \in {"mark", "call"}
      BY <1>1, <1>6, <2>1
    <3> QED
      BY <1>1, <1>5, <2>2, <3>1, <3>2, <3>3 DEF SetSpace
  <2>4. CASE ~issueDir
    BY <1>1, <1>2, <1>5, <1>6, <1>9, <2>2, <2>4 DEF Mkdir
  <2> QED
    BY <1>1, <2>3, <2>4
<1>10. CASE TouchMarker(w)
  <2>1. UNCHANGED <<issueDir, cleaner>>
    BY <1>10 DEF TouchMarker
  <2>2. CASE UserGoes(w, "idle") /\ UNCHANGED space
    BY <1>1, <1>2, <1>5, <1>6, <2>1, <2>2
  <2>3. CASE /\ UserGoes(w, "call")
             /\ SetSpace(w, [d0 EXCEPT !.marker = "recent",
                                       !.dir = IF d0.marker = "none" THEN "recent" ELSE @])
    <3> DEFINE d1 == [d0 EXCEPT !.marker = "recent", !.dir = IF d0.marker = "none" THEN "recent" ELSE @]
    <3>1. space' = [space EXCEPT ![w] = d1]
      BY <2>3 DEF SetSpace
    <3> HIDE DEF d0
    <3>2. d1 \in Directory /\ d1.clone = d0.clone /\ d1.files = d0.files
      BY <1>1 DEF Directory, Ages
    <3> HIDE DEF d1
    <3>3. Inside(d1) = Inside(d0)
      BY <3>2, WorkspaceAssumption DEF Inside, Present
    <3> QED
      BY <1>1, <1>5, <1>6, <2>1, <2>3, <3>1, <3>2, <3>3
  <2> QED
    BY <1>10, <2>2, <2>3 DEF TouchMarker
<1>11. CASE JobDone(w)
  <2> DEFINE fs == [f \in CloneFile |-> IF d0.files[f] = "none" THEN "none" ELSE "old"]
             d1 == [d0 EXCEPT !.files = fs]
  <2>1. UserGoes(w, "idle") /\ UNCHANGED <<issueDir, cleaner>> /\ (space' = [space EXCEPT ![w] = d1] \/ space' = [space EXCEPT ![w] = NoSpace])
    BY <1>11 DEF JobDone, SetSpace
  <2>2. d1 \in Directory /\ d1.clone = d0.clone /\ d1.files = fs
    <3>1. fs \in [CloneFile -> {"none", "old", "new", "mixed"}]
      OBVIOUS
    <3> HIDE DEF d0, fs
    <3> QED
      BY <1>1, <3>1 DEF Directory
  <2>3. ~d1.clone => Inside(d1) = {}
    <3>1. ~d0.clone => \A f \in CloneFile : d0.files[f] = "none"
      BY <1>6 DEF Inside, Present
    <3>2. ~d0.clone => \A f \in CloneFile : fs[f] = "none"
      BY <3>1
    <3> HIDE DEF fs, d0, d1
    <3> QED
      BY <2>2, <3>2, WorkspaceAssumption DEF Inside, Present
  <2> HIDE DEF d1
  <2> QED
    BY <1>1, <1>3, <1>5, <2>1, <2>2, <2>3
<1>12. CASE JobFails(w)
  BY <1>1, <1>2, <1>5, <1>6, <1>12 DEF JobFails
<1>13. CASE WeekPasses(w)
  <2> DEFINE d1 == [d0 EXCEPT !.dir = "stale", !.marker = IF @ = "none" THEN @ ELSE "stale"]
  <2>1. u0.at = "idle" /\ space' = [space EXCEPT ![w] = d1] /\ UNCHANGED <<issueDir, user, cleaner>>
    BY <1>13 DEF WeekPasses, UserAt, SetSpace
  <2> HIDE DEF d0, u0
  <2>2. d1 \in Directory /\ d1.clone = d0.clone /\ d1.files = d0.files
    BY <1>1 DEF Directory, Ages
  <2> HIDE DEF d1
  <2>3. Inside(d1) = Inside(d0)
    BY <2>2, WorkspaceAssumption DEF Inside, Present
  <2>4. Fit(d1, u0)
    BY <1>6, <2>1, <2>2, <2>3 DEF Fit
  <2> QED
    BY <1>1, <1>2, <2>1, <2>2, <2>4, UserStep
<1>14. CASE ListClone(w)
  <2>1. UNCHANGED <<issueDir, space, cleaner>> /\ Inside(d0) \subseteq CloneFile
    BY <1>14 DEF ListClone, Inside
  <2>2. CASE d0.clone
    <3> DEFINE u1 == [[u0 EXCEPT !.at = "remove"] EXCEPT !.listed = Inside(d0)]
    <3>1. user' = [user EXCEPT ![w] = u1]
      BY <1>14, <2>2 DEF ListClone, VolumeInv, VolumeTypeOK
    <3> HIDE DEF d0, u0
    <3>2. u1 \in UserState /\ u1.at = "remove"
      BY <1>1, <2>1 DEF UserState
    <3> HIDE DEF u1
    <3>3. Fit(d0, u1)
      BY <1>6, <3>2 DEF Fit
    <3> QED
      BY <1>1, <1>2, <2>1, <3>1, <3>2, <3>3, UserStep
  <2>3. CASE ~d0.clone
    <3> DEFINE u1 == [u0 EXCEPT !.at = "init"]
    <3>1. user' = [user EXCEPT ![w] = u1]
      BY <1>14, <2>3 DEF ListClone
    <3> HIDE DEF d0, u0
    <3>2. u1 \in UserState /\ u1.at = "init"
      BY <1>1 DEF UserState
    <3> HIDE DEF u1
    <3>3. Fit(d0, u1)
      BY <1>6, <2>3, <3>2 DEF Fit
    <3> QED
      BY <1>1, <1>2, <2>1, <3>1, <3>2, <3>3, UserStep
  <2> QED
    BY <2>2, <2>3
<1>15. CASE RemoveClone(w)
  <2>1. UNCHANGED <<issueDir, cleaner>> /\ u0.at = "remove"
    BY <1>15 DEF RemoveClone, UserAt
  <2>2. ASSUME NEW at \in {"idle", "init"}, UserGoes(w, at), UNCHANGED space, at = "init" => ~d0.clone
        PROVE  VolumeInv'
    <3> DEFINE u1 == [u0 EXCEPT !.at = at]
    <3>1. user' = [user EXCEPT ![w] = u1]
      BY <2>2 DEF UserGoes
    <3> HIDE DEF d0, u0
    <3>2. u1 \in UserState /\ u1.at = at
      BY <1>1 DEF UserState
    <3> HIDE DEF u1
    <3>3. Fit(d0, u1)
      BY <1>6, <2>2, <3>2 DEF Fit
    <3> QED
      BY <1>1, <1>2, <2>1, <2>2, <3>1, <3>2, <3>3, UserStep
  <2>3. ASSUME Missing(w), UNCHANGED space PROVE VolumeInv'
    BY <2>2, <2>3 DEF Missing
  <2>4. ASSUME NEW f \in u0.listed, f \in Inside(d0), SetSpace(w, Without(d0, f)),
               user' = [user EXCEPT ![w].listed = @ \ {f}]
        PROVE  VolumeInv'
    <3> DEFINE u1 == [u0 EXCEPT !.listed = @ \ {f}]
               d1 == Without(d0, f)
    <3>1. user' = [user EXCEPT ![w] = u1] /\ space' = [space EXCEPT ![w] = d1] /\ f \in CloneFile
      BY <2>4 DEF SetSpace, Inside
    <3> HIDE DEF d0, u0
    <3>2. u1 \in UserState /\ u1.at = "remove"
      BY <1>1, <2>1 DEF UserState
    <3>3. d1 \in Directory /\ d1.clone = d0.clone /\ d1.files = [d0.files EXCEPT ![f] = "none"]
      BY <1>1, <3>1, WithoutType
    <3> HIDE DEF u1, d1
    <3>4. Inside(d1) \subseteq Inside(d0)
      <4>1. \A g \in CloneFile : d1.files[g] # "none" => d0.files[g] # "none"
        BY <1>1, <3>1, <3>3 DEF Directory
      <4> QED
        BY <4>1 DEF Inside, Present
    <3>5. Fit(d1, u1)
      BY <1>6, <3>2, <3>3, <3>4 DEF Fit
    <3> QED
      BY <1>1, <2>1, <3>1, <3>2, <3>3, <3>5, UserStep
  <2>5. ASSUME d0.clone, Inside(d0) = {}, SetSpace(w, Without(d0, "clone")), UserGoes(w, "init")
        PROVE  VolumeInv'
    <3> DEFINE u1 == [u0 EXCEPT !.at = "init"]
               d1 == Without(d0, "clone")
    <3>1. user' = [user EXCEPT ![w] = u1] /\ space' = [space EXCEPT ![w] = d1]
      BY <2>5 DEF SetSpace, UserGoes
    <3> HIDE DEF d0, u0
    <3>2. u1 \in UserState /\ u1.at = "init"
      BY <1>1 DEF UserState
    <3>3. d1 \in Directory /\ ~d1.clone /\ d1.files = d0.files
      BY <1>1, <3>1, WithoutType, WorkspaceAssumption
    <3> HIDE DEF u1, d1
    <3>4. Inside(d1) = Inside(d0)
      BY <3>3, WorkspaceAssumption DEF Inside, Present
    <3>5. Fit(d1, u1)
      BY <2>5, <3>2, <3>3, <3>4 DEF Fit
    <3> QED
      BY <1>1, <2>1, <3>1, <3>2, <3>3, <3>5, UserStep
  <2> QED
    BY <1>15, <2>3, <2>4, <2>5 DEF RemoveClone
<1>16. CASE InitClone(w)
  <2> DEFINE raced == \E c \in Cleaner : cleaner[c].at = "remove" /\ cleaner[c].w = w
             u1 == [[u0 EXCEPT !.at = "fetch"] EXCEPT !.raced = raced]
             d1 == [d0 EXCEPT !.dir = IF d0.clone THEN @ ELSE "recent", !.clone = TRUE]
  <2>1. u0.at = "init" /\ issueDir' = TRUE /\ UNCHANGED cleaner
    BY <1>16 DEF InitClone, UserAt
  <2>2. space' = [space EXCEPT ![w] = d1] /\ user' = [user EXCEPT ![w] = u1]
    BY <1>16 DEF InitClone, SetSpace, VolumeInv, VolumeTypeOK
  <2>3. raced \in BOOLEAN /\ (~raced => \A c \in Cleaner : ~Removes(c, w))
    BY DEF Removes
  <2> HIDE DEF d0, u0, raced
  <2>4. u1 \in UserState /\ u1.at = "fetch" /\ u1.raced = raced
    BY <1>1, <2>3 DEF UserState
  <2>5. ~d0.clone /\ Inside(d0) = {}
    BY <1>1, <2>1 DEF Fit
  <2>6. d1 \in Directory /\ d1.dir = "recent" /\ d1.clone /\ d1.files = d0.files
    BY <1>1, <2>5 DEF Directory, Ages
  <2> HIDE DEF u1, d1
  <2>7. Inside(d1) = {}
    BY <2>5, <2>6, WorkspaceAssumption DEF Inside, Present
  <2>8. Fit(d1, u1)
    BY <2>4, <2>6, <2>7 DEF Fit
  <2> QED
    BY <2>1, <2>2, <2>3, <2>4, <2>6, <2>8, UserStep
<1>17. CASE Checkout(w)
  <2>1. u0.at = "fetch" /\ UNCHANGED <<issueDir, cleaner>>
    BY <1>17 DEF Checkout, UserAt
  <2>2. CASE UserGoes(w, "idle") /\ UNCHANGED space
    BY <1>1, <1>2, <1>5, <1>6, <2>1, <2>2
  <2>3. CASE /\ d0.clone /\ UserGoes(w, "work")
             /\ SetSpace(w, [d0 EXCEPT !.files = [f \in CloneFile |-> IF @[f] = "none" THEN "new" ELSE "mixed"]])
    <3> DEFINE fs == [f \in CloneFile |-> IF d0.files[f] = "none" THEN "new" ELSE "mixed"]
               d1 == [d0 EXCEPT !.files = fs]
               u1 == [u0 EXCEPT !.at = "work"]
    <3>1. space' = [space EXCEPT ![w] = d1] /\ user' = [user EXCEPT ![w] = u1]
      BY <1>1, <2>3 DEF SetSpace, UserGoes, Directory
    <3>2. \A f \in CloneFile : d0.files[f] = "none"
      BY <1>1, <2>1, WorkspaceAssumption DEF Fit, Inside, Present
    <3>3. fs \in [CloneFile -> {"none", "old", "new", "mixed"}] /\ \A f \in CloneFile : fs[f] = "new"
      BY <3>2
    <3> HIDE DEF d0, u0, fs
    <3>4. d1 \in Directory /\ d1.clone = d0.clone /\ d1.dir = d0.dir /\ d1.files = fs
      BY <1>1, <3>3 DEF Directory
    <3>5. u1 \in UserState /\ u1.at = "work" /\ u1.raced = u0.raced
      BY <1>1 DEF UserState
    <3> HIDE DEF d1, u1
    <3>6. Inside(d1) = CloneFile
      BY <3>3, <3>4, WorkspaceAssumption DEF Inside, Present
    <3>7. Fit(d1, u1)
      BY <1>1, <2>1, <2>3, <3>3, <3>4, <3>5, <3>6 DEF Fit
    <3>8. u1.at \in {"fetch", "work"} /\ ~u1.raced => user[w].at \in {"fetch", "work"} /\ ~user[w].raced
      BY <2>1, <3>5 DEF u0
    <3> QED
      BY <1>1, <2>1, <3>1, <3>4, <3>5, <3>7, <3>8, UserStep
  <2> QED
    BY <1>17, <2>2, <2>3 DEF Checkout
<1> QED
  BY <1>4, <1>7, <1>8, <1>9, <1>10, <1>11, <1>12, <1>13, <1>14, <1>15, <1>16, <1>17

(* The clean-ups. *)
LEMMA SweepKeeps ==
    ASSUME VolumeInv, NEW c \in Cleaner, SeeInactive(c) \/ SeeStale(c) \/ RemoveStale(c) \/ RemoveIfEmpty(c)
    PROVE  VolumeInv'
<1> DEFINE r0 == cleaner[c]
           w  == r0.w
           d0 == space[w]
<1>1. r0 \in SweepState /\ (r0.at # "idle" => w \in Space)
  BY DEF VolumeInv, VolumeTypeOK
<1>2. \A x \in Space : /\ space[x] \in Directory /\ Fit(space[x], user[x]) /\ Undisturbed(x)
                       /\ space = [space EXCEPT ![x] = space[x]]
  BY DEF VolumeInv, VolumeTypeOK
<1>3. CASE SeeInactive(c)
  <2>1. PICK x \in Space : CleanerGoes(c, [at |-> "look", w |-> x, listed |-> {}])
    BY <1>3 DEF SeeInactive
  <2> DEFINE r1 == [at |-> "look", w |-> x, listed |-> {}]
  <2>2. cleaner' = [cleaner EXCEPT ![c] = r1] /\ UNCHANGED <<issueDir, space, user>>
    BY <1>3, <2>1 DEF SeeInactive, CleanerGoes
  <2>3. r1 \in SweepState /\ r1.at = "look" /\ r1.w = x
    BY DEF SweepState
  <2> HIDE DEF r1
  <2> QED
    BY <1>2, <2>2, <2>3, SweepStep
<1>4. CASE SeeStale(c)
  <2>1. r0.at = "look" /\ UNCHANGED <<issueDir, space, user>> /\ w \in Space
    BY <1>1, <1>4 DEF SeeStale, CleanerGoes
  <2>2. CASE d0.dir = "stale"
    <3> DEFINE r1 == [r0 EXCEPT !.at = "remove", !.listed = Present(d0)]
    <3>1. cleaner' = [cleaner EXCEPT ![c] = r1]
      BY <1>4, <2>2 DEF SeeStale, CleanerGoes
    <3>2. Present(d0) \subseteq CloneFile \cup {"clone", "marker"}
      BY DEF Present
    <3>3. Fit(d0, user[w])
      BY <1>2, <2>1
    <3>4. user[w].at \notin {"fetch", "work"}
      BY <2>2, <3>3 DEF Fit
    <3> DEFINE p == Present(d0)
    <3> HIDE DEF r0, p
    <3>5. r1 \in SweepState /\ r1.at = "remove" /\ r1.w = w
      BY <1>1, <3>2 DEF SweepState, p
    <3> HIDE DEF r1, w
    <3> QED
      BY <1>2, <2>1, <3>1, <3>4, <3>5, SweepStep
  <2>3. CASE d0.dir # "stale"
    <3> DEFINE r1 == [r0 EXCEPT !.at = "idle"]
    <3>1. cleaner' = [cleaner EXCEPT ![c] = r1]
      BY <1>4, <2>3 DEF SeeStale, CleanerGoes
    <3> HIDE DEF r0
    <3>2. r1 \in SweepState /\ r1.at = "idle"
      BY <1>1 DEF SweepState
    <3> HIDE DEF r1, w
    <3> QED
      BY <1>2, <2>1, <3>1, <3>2, SweepStep
  <2> QED
    BY <2>2, <2>3
<1>5. CASE RemoveStale(c)
  <2>1. r0.at = "remove" /\ w \in Space /\ UNCHANGED <<issueDir, user>>
    BY <1>1, <1>5 DEF RemoveStale, CleanerGoes
  <2>2. d0 \in Directory /\ Fit(d0, user[w]) /\ space = [space EXCEPT ![w] = d0]
    BY <1>2, <2>1
  <2>3. user[w].at \in {"fetch", "work"} => user[w].raced
    BY <1>2, <2>1 DEF Undisturbed, Removes
  <2>4. ASSUME CleanerGoes(c, [r0 EXCEPT !.at = "idle", !.listed = {}]), UNCHANGED space PROVE VolumeInv'
    <3> DEFINE r1 == [r0 EXCEPT !.at = "idle", !.listed = {}]
    <3>1. cleaner' = [cleaner EXCEPT ![c] = r1]
      BY <2>4 DEF CleanerGoes
    <3> HIDE DEF r0
    <3>2. r1 \in SweepState /\ r1.at = "idle"
      BY <1>1 DEF SweepState
    <3> HIDE DEF r1, w
    <3> QED
      BY <2>1, <2>2, <2>4, <3>1, <3>2, SweepStep
  <2>5. ASSUME CleanerGoes(c, [r0 EXCEPT !.at = "idle"]),
               UNCHANGED space \/ (Present(d0) = {} /\ SetSpace(w, NoSpace))
        PROVE  VolumeInv'
    <3> DEFINE r1 == [r0 EXCEPT !.at = "idle"]
    <3>1. cleaner' = [cleaner EXCEPT ![c] = r1]
      BY <2>5 DEF CleanerGoes
    <3>2. NoSpace \in Directory /\ Inside(NoSpace) = {} /\ ~NoSpace.clone /\ NoSpace.dir = "none"
          /\ \A f \in CloneFile : NoSpace.files[f] = "none"
      BY DEF NoSpace, NoFiles, Directory, Ages, Inside, Present
    <3>3. Fit(NoSpace, user[w])
      BY <2>3, <3>2 DEF Fit
    <3> HIDE DEF r0
    <3>4. r1 \in SweepState /\ r1.at = "idle"
      BY <1>1 DEF SweepState
    <3> HIDE DEF r1, w
    <3> QED
      BY <2>1, <2>2, <2>5, <3>1, <3>2, <3>3, <3>4, SweepStep DEF SetSpace
  <2>6. ASSUME NEW x \in r0.listed, x \in Present(d0), x = "clone" => Inside(d0) = {},
               SetSpace(w, Without(d0, x)), CleanerGoes(c, [r0 EXCEPT !.listed = @ \ {x}])
        PROVE  VolumeInv'
    <3> DEFINE r1 == [r0 EXCEPT !.listed = @ \ {x}]
               d1 == Without(d0, x)
    <3>1. cleaner' = [cleaner EXCEPT ![c] = r1] /\ space' = [space EXCEPT ![w] = d1]
      BY <2>6 DEF CleanerGoes, SetSpace
    <3>2. x \in CloneFile \cup {"clone", "marker"}
      BY <2>6 DEF Present
    <3> HIDE DEF r0
    <3>3. r1 \in SweepState /\ r1.w = w
      BY <1>1 DEF SweepState
    <3> HIDE DEF d0
    <3>4. /\ d1 \in Directory /\ d1.clone = (d0.clone /\ x # "clone") /\ d1.dir \in {d0.dir, "recent"}
          /\ \A f \in CloneFile : d1.files[f] \in {d0.files[f], "none"}
      <4>1. CASE x \in CloneFile
        <5>1. /\ d1 \in Directory /\ d1.files = [d0.files EXCEPT ![x] = "none"]
              /\ d1.clone = d0.clone /\ d1.dir = d0.dir
          BY <2>2, <4>1, WithoutType
        <5>2. d0.files \in [CloneFile -> {"none", "old", "new", "mixed"}] /\ x # "clone"
          BY <2>2, <4>1, WorkspaceAssumption DEF Directory
        <5> HIDE DEF d1
        <5> QED
          BY <2>2, <5>1, <5>2 DEF Directory
      <4>2. CASE x \notin CloneFile
        BY <2>2, <3>2, <4>2, WithoutType
      <4> QED
        BY <4>1, <4>2
    <3> HIDE DEF r1, d1
    <3>5. Inside(d1) \subseteq Inside(d0)
      BY <3>4 DEF Inside, Present
    <3>6. Fit(d1, user[w])
      BY <2>2, <2>3, <2>6, <3>4, <3>5 DEF Fit
    <3> HIDE DEF w
    <3> QED
      BY <2>1, <2>3, <3>1, <3>3, <3>4, <3>6, SweepStep
  <2> QED
    BY <1>5, <2>4, <2>5, <2>6 DEF RemoveStale
<1>6. CASE RemoveIfEmpty(c)
  <2>1. issueDir' = FALSE /\ UNCHANGED <<space, user, cleaner>>
    BY <1>6 DEF RemoveIfEmpty
  <2> QED
    BY <2>1 DEF VolumeInv, VolumeTypeOK, Undisturbed, Removes
<1> QED
  BY <1>3, <1>4, <1>5, <1>6

(***************************************************************************)
(* A job works on a clone without a file of an earlier run, and loses none *)
(* of its own but to a clean-up that was at the old directory already, for *)
(* any number of workspaces, jobs and clean-ups.                           *)
(***************************************************************************)
THEOREM CloneSafety == ServicesSpec => []CloneSound
<1>1. ServicesInit => VolumeInv
  <2> SUFFICES ASSUME VolumeInit PROVE VolumeInv
    BY DEF ServicesInit
  <2>1. NoSpace \in Directory /\ Inside(NoSpace) = {} /\ ~NoSpace.clone
    BY DEF NoSpace, NoFiles, Directory, Ages, Inside, Present
  <2>2. VolumeTypeOK
    BY <2>1 DEF VolumeInit, VolumeTypeOK, UserState, SweepState
  <2>3. \A w \in Space : Fit(space[w], user[w]) /\ Undisturbed(w)
    BY <2>1 DEF VolumeInit, Fit, Undisturbed
  <2> QED
    BY <2>2, <2>3 DEF VolumeInit, VolumeInv
<1>2. VolumeInv /\ [ServicesNext]_servicesVars => VolumeInv'
  <2> SUFFICES ASSUME VolumeInv, [ServicesNext]_servicesVars PROVE VolumeInv'
    OBVIOUS
  <2>1. VolumeNext \/ UNCHANGED volumeVars
    BY DEF ServicesNext, servicesVars
  <2>2. CASE UNCHANGED volumeVars
    BY <2>2 DEF volumeVars, VolumeInv, VolumeTypeOK, Undisturbed, Removes
  <2>3. CASE VolumeNext
    BY <2>3, JobKeeps, SweepKeeps DEF VolumeNext
  <2> QED
    BY <2>1, <2>2, <2>3
<1>3. VolumeInv => CloneSound
  BY DEF VolumeInv, Fit, CloneSound, UserAt
<1> QED
  BY <1>1, <1>2, <1>3, PTL DEF ServicesSpec

-----------------------------------------------------------------------------
(* The inheritance of a Z-stream fix, for any history of the Z-stream and any *)
(* number of builds.  The invariant follows the clone from check to check:    *)
(* what each one leaves for the next to rely on.                              *)

(* What a file of the clone may hold. *)
Content == {"none", "old", "source", "edited", "adapted", "meddled", "unapplied", "legacy", "released",
            "released legacy", "tarball", "output", "repository"}

(* The record of the attempt. *)
Attempts == [step : {"source", "apply", "adapt", "normalize", "validate", "release", "prep", "srpm", "stage",
                     "commit", "build", "publish", "ended", "normal", "fork"},
             disabled : BOOLEAN, retried : BOOLEAN, fix : Commits \cup {"none"},
             builds : Int, srpm : Content \X Content]

(* What the variables of an attempt may be. *)
InheritTypeOK ==
    /\ zstream \in Shipped
    /\ repo \in [head : [File -> Content], index : [File -> Content], work : [File -> Content]]
    /\ inherit \in Attempts

(* A patch is a file, so that the clean-up always takes it away. *)
PatchIsFile == repo.work["patch"] # "repository"

(* Nothing is staged before the attempt stages it, or committed before it     *)
(* commits it.                                                                *)
InOrder ==
    /\ inherit.step \in {"source", "apply", "adapt", "normalize", "validate", "release", "prep",
                         "srpm", "stage"} => repo.index = Saved
    /\ inherit.step \in {"source", "apply", "adapt", "normalize", "validate", "release", "prep",
                         "srpm", "stage", "commit"} => repo.head = Saved

(* The commit that the look-up settled on. *)
FixKnown ==
    inherit.step \in {"apply", "adapt", "normalize", "validate", "release", "prep", "srpm", "stage",
                      "commit", "build", "publish"} =>
        inherit.fix \in Commits /\ zstream.log[inherit.fix] = [place |-> "z", keys |-> {"z"}]

(* The patch that has to be there. *)
SourcePatch == IF HasPatch THEN "source" ELSE Saved["patch"]
(* The fix brings the first patch, which may not be applied in the old form. *)
NoLegacy    == HasPatch /\ zstream.patch = "none"
(* A spec that may be committed. *)
ReleasedSpec(c) == c = "released" \/ (c = "released legacy" /\ ~NoLegacy)

(* What the working files may hold after each check of them. *)
WorkChecked ==
    /\ inherit.step \in {"validate", "release"} /\ NoLegacy => repo.work["spec"] # "legacy"
    /\ inherit.step \in {"release", "prep"} => repo.work["patch"] = SourcePatch
    /\ inherit.step \in {"prep", "srpm", "stage"} => ReleasedSpec(repo.work["spec"])
    /\ inherit.step \in {"srpm", "stage"} /\ ~HasPatch => repo.work["patch"] = Saved["patch"]
    /\ inherit.step = "stage" => inherit.srpm = <<repo.work["spec"], repo.work["patch"]>>

(* What is staged is what was built. *)
IndexChecked ==
    inherit.step = "commit" =>
        /\ repo.index["patch"] = SourcePatch
        /\ ReleasedSpec(repo.index["spec"])
        /\ \A f \in File \ {"spec", "patch"} : repo.index[f] = Saved[f]
        /\ inherit.srpm = <<repo.index["spec"], repo.index["patch"]>>

(* The account of an attempt: no part is inductive without the others. *)
InheritInv == InheritTypeOK /\ PatchIsFile /\ InOrder /\ FixKnown /\ WorkChecked /\ IndexChecked
              /\ InheritanceSound

(* The clone as it was made. *)
LEMMA SavedType ==
    ASSUME zstream \in Shipped
    PROVE  /\ Saved \in [File -> Content] /\ Saved["patch"] = zstream.patch
           /\ Saved["patch"] # "repository"
           /\ Fresh = [head |-> Saved, index |-> Saved, work |-> Saved]
<1>1. zstream.patch \in {"none", "old", "source"}
  BY DEF Shipped
<1>2. \A f \in File : Saved[f] \in Content
  BY <1>1 DEF Saved, Content
<1>3. Saved["patch"] = zstream.patch
  BY DEF Saved, File
<1>4. Saved \in [File -> Content]
  BY <1>2 DEF Saved
<1> QED
  BY <1>1, <1>3, <1>4, Zenon DEF Fresh

(* A new attempt. *)
LEMMA NewAttempt == NewInherit \in Attempts
<1>1. <<"none", "none">> \in Content \X Content
  BY DEF Content
<1>2. MaxInheritBuilds \in Int
  BY InheritAssumption
<1> QED
  BY <1>1, <1>2, Zenon DEF NewInherit, Attempts

(* A clone that is cleaned up may start the normal backport. *)
LEMMA CleanedUpSound ==
    ASSUME InheritInv, CleanedUp
    PROVE  InheritInv'
<1> USE DEF InheritInv
<1>1. zstream' = zstream /\ zstream \in Shipped /\ Saved' = Saved
  BY DEF CleanedUp, InheritTypeOK, Saved
<1>2. Saved \in [File -> Content] /\ Saved["patch"] # "repository"
  BY <1>1, SavedType
<1> DEFINE w == [f \in File |-> IF f \in Others /\ repo.work[f] = "repository"
                                THEN "repository" ELSE Saved[f]]
<1>3. repo' = [head |-> Saved, index |-> Saved, work |-> w]
  BY DEF CleanedUp, ResetTree
<1>4. w \in [File -> Content]
  BY <1>2 DEF Content
<1>5. inherit' = [inherit EXCEPT !.step = "normal", !.disabled = TRUE]
  BY DEF CleanedUp
<1>6. inherit'.step = "normal" /\ inherit' \in Attempts
  BY <1>5 DEF InheritTypeOK, Attempts
<1>7. InheritTypeOK'
  BY <1>1, <1>2, <1>3, <1>4, <1>6 DEF InheritTypeOK
<1>8. \A f \in File : w[f] = Saved[f] \/ (f = "ignored" /\ w[f] = "repository")
  <2> SUFFICES ASSUME NEW f \in Others, repo.work[f] = "repository", f \in File
               PROVE  f = "ignored"
    OBVIOUS
  <2>1. f \in Ignored
    BY DEF CleanedUp, LooksClean
  <2> QED
    BY <2>1 DEF Ignored, PatchIsFile
<1>9. PatchIsFile'
  BY <1>2, <1>3, <1>8 DEF PatchIsFile, File
<1>10. InheritanceSound'
  BY <1>1, <1>3, <1>6, <1>8 DEF InheritanceSound, CleanFallback, OnlyTheFix, InheritAt
<1> QED
  BY <1>6, <1>7, <1>9, <1>10 DEF InOrder, FixKnown, WorkChecked, IndexChecked

(* Giving up needs no more than the types. *)
LEMMA GiveUpSound ==
    ASSUME InheritInv, NEW off \in BOOLEAN, GiveUp(off)
    PROVE  InheritInv'
<1>1. CASE CleanedUp
  BY <1>1, CleanedUpSound
<1>2. CASE CleanUpFails(off)
  <2>1. inherit'.step = "fork" /\ inherit' \in Attempts
    BY <1>2 DEF CleanUpFails, InheritInv, InheritTypeOK, Attempts
  <2>2. UNCHANGED <<zstream, repo>>
    BY <1>2 DEF CleanUpFails
  <2> QED
    <3>1. InheritTypeOK' /\ PatchIsFile'
      BY <2>1, <2>2 DEF InheritInv, InheritTypeOK, PatchIsFile
    <3>2. InheritanceSound'
      BY <2>1 DEF InheritanceSound, CleanFallback, OnlyTheFix, InheritAt
    <3> QED
      BY <2>1, <3>1, <3>2 DEF InheritInv, InOrder, FixKnown, WorkChecked, IndexChecked
<1> QED
  BY <1>1, <1>2 DEF GiveUp

(* The look-up offers a commit only if it is the one fix. *)
LEMMA LookupSound ==
    ASSUME InheritTypeOK, "found" \in FixLookup, NEW c \in After
    PROVE  c \in Commits /\ zstream.log[c] = [place |-> "z", keys |-> {"z"}]
<1>1. zstream.log \in [Commits -> [place : {"z", "side", "shared"}, keys : SUBSET {"z", "other"}]]
  BY InheritAssumption DEF InheritTypeOK, Shipped
<1>2. After \subseteq Commits /\ IsFiniteSet(After)
  BY InheritAssumption, FS_Subset DEF After, Resolving
<1>3. Resolving # {} /\ After # {}
  BY DEF After
<1>4. ~(Cardinality(After) > 1) /\ \A x \in After : Clean(x)
  BY <1>3 DEF FixLookup
<1>5. PICK x \in After : zstream.log[x].place # "side"
  BY <1>3, <1>4 DEF FixLookup
<1>6. x = c
  <2> SUFFICES ASSUME x # c PROVE FALSE
    OBVIOUS
  <2>1. {x, c} \subseteq After /\ Cardinality({x, c}) = 2 /\ IsFiniteSet({x, c})
    <3>1. IsFiniteSet({x}) /\ Cardinality({x}) = 1
      BY FS_Singleton
    <3>2. IsFiniteSet({x} \cup {c}) /\ Cardinality({x} \cup {c}) = Cardinality({x}) + 1
      BY <3>1, FS_AddElement
    <3>3. {x, c} = {x} \cup {c}
      OBVIOUS
    <3> QED
      BY <3>1, <3>2, <3>3
  <2>2. Cardinality({x, c}) <= Cardinality(After)
    BY <1>2, <2>1, FS_Subset
  <2>3. Cardinality(After) \in Nat
    BY <1>2, FS_CardinalityType
  <2> QED
    BY <1>4, <2>1, <2>2, <2>3
<1>7. zstream.log[c].place = "z" /\ zstream.log[c].keys = {"z"}
  BY <1>1, <1>2, <1>4, <1>5, <1>6 DEF After, Clean
<1> QED
  BY <1>1, <1>2, <1>7

(* A step to st keeps the types. *)
LEMMA StepTo ==
    ASSUME InheritTypeOK, NEW st \in {"apply", "adapt", "normalize", "validate", "release", "prep", "srpm", "stage",
                                      "commit", "build", "publish", "ended"}, InheritGoes(st)
    PROVE  /\ inherit' \in Attempts /\ zstream' = zstream
           /\ inherit'.step = st /\ inherit'.fix = inherit.fix /\ inherit'.srpm = inherit.srpm
BY DEF InheritTypeOK, InheritGoes, Attempts

(* What the files of the clone become keeps the types. *)
LEMMA WorkTo ==
    ASSUME InheritTypeOK, NEW new \in [File -> Content], InWork(new)
    PROVE  /\ repo' \in [head : [File -> Content], index : [File -> Content], work : [File -> Content]]
           /\ repo'.head = repo.head /\ repo'.index = repo.index /\ repo'.work = new
BY DEF InheritTypeOK, InWork

(* Every step of an attempt keeps the account. *)
LEMMA InheritInductive ==
    ASSUME InheritInv, InheritNext \/ UNCHANGED inheritVars
    PROVE  InheritInv'
<1>0. InheritTypeOK
  BY DEF InheritInv
<1>s. ASSUME zstream' = zstream
      PROVE  /\ Saved' = Saved /\ Saved \in [File -> Content] /\ Saved["patch"] # "repository"
             /\ (HasPatch' <=> HasPatch) /\ SourcePatch' = SourcePatch /\ (NoLegacy' <=> NoLegacy)
  BY <1>0, <1>s, SavedType DEF Saved, HasPatch, SourcePatch, NoLegacy, InheritTypeOK
<1>g. ASSUME NEW off \in BOOLEAN, GiveUp(off) PROVE InheritInv'
  BY <1>g, GiveUpSound
<1>1. CASE UNCHANGED inheritVars
  <2> USE <1>1, <1>s DEF inheritVars, InheritInv
  <2>1. InheritTypeOK' /\ PatchIsFile' /\ InOrder' /\ FixKnown'
    BY DEF InheritTypeOK, PatchIsFile, InOrder, FixKnown
  <2>2. WorkChecked' /\ IndexChecked'
    BY DEF WorkChecked, IndexChecked, ReleasedSpec, HasPatch, NoLegacy
  <2>3. InheritanceSound'
    BY DEF InheritanceSound, CleanFallback, OnlyTheFix, InheritAt, HasPatch
  <2> QED
    BY <2>1, <2>2, <2>3
<1>2. CASE ForkClone
  <2>1. zstream' = zstream /\ repo' = Fresh
    BY <1>2 DEF ForkClone
  <2>2. inherit' \in Attempts /\ inherit'.step \in {"normal", "source"}
    <3>1. NewInherit \in Attempts
      BY NewAttempt
    <3>2. inherit.disabled \in BOOLEAN /\ inherit.retried \in BOOLEAN
      BY <1>0 DEF InheritTypeOK, Attempts
    <3> QED
      BY <1>2, <3>1, <3>2 DEF ForkClone, Attempts
  <2>3. Saved' = Saved /\ Saved \in [File -> Content] /\ Saved["patch"] # "repository"
        /\ repo' = [head |-> Saved, index |-> Saved, work |-> Saved]
    BY <1>0, <1>s, <2>1, SavedType DEF InheritTypeOK
  <2>4. InheritTypeOK' /\ PatchIsFile'
    BY <1>0, <2>1, <2>2, <2>3 DEF InheritTypeOK, PatchIsFile
  <2>5. InheritanceSound' /\ InOrder'
    BY <2>2, <2>3 DEF InheritanceSound, CleanFallback, OnlyTheFix, InheritAt, InOrder
  <2> QED
    BY <2>2, <2>4, <2>5 DEF InheritInv, FixKnown, WorkChecked, IndexChecked
<1>3. CASE FindFix
  <2>1. ASSUME "found" \in FixLookup, NEW c \in After, InheritAt("source"),
               inherit' = [inherit EXCEPT !.step = "apply", !.fix = c], UNCHANGED <<zstream, repo>>
        PROVE  InheritInv'
    <3>1. c \in Commits /\ zstream.log[c] = [place |-> "z", keys |-> {"z"}]
      BY <1>0, <2>1, LookupSound
    <3>2. inherit' \in Attempts /\ inherit'.step = "apply" /\ inherit'.fix = c
      BY <1>0, <2>1, <3>1 DEF InheritTypeOK, Attempts
    <3>3. InheritTypeOK' /\ PatchIsFile' /\ FixKnown'
      BY <1>0, <2>1, <3>1, <3>2 DEF InheritTypeOK, PatchIsFile, FixKnown, InheritInv
    <3>4. InOrder'
      BY <1>s, <2>1, <3>2 DEF InOrder, InheritInv, InheritAt
    <3> QED
      BY <3>2, <3>3, <3>4 DEF InheritInv, WorkChecked, IndexChecked, InheritanceSound, CleanFallback, OnlyTheFix,
                              InheritAt
  <2>2. ASSUME InheritGoes("ended"), UNCHANGED repo PROVE InheritInv'
    <3>1. inherit' \in Attempts /\ zstream' = zstream /\ inherit'.step = "ended"
      BY <1>0, <2>2, StepTo
    <3> QED
      BY <1>0, <2>2, <3>1 DEF InheritInv, InheritTypeOK, PatchIsFile, InOrder, FixKnown, WorkChecked, IndexChecked,
                              InheritanceSound, CleanFallback, OnlyTheFix, InheritAt
  <2> QED
    BY <1>3, <1>g, <2>1, <2>2 DEF FindFix
<1>4. CASE ApplyChange
  <2> SUFFICES ASSUME InheritGoes("adapt"), InheritAt("apply"),
                      InWork(IF HasPatch THEN [repo.work EXCEPT !["patch"] = "source"] ELSE repo.work)
               PROVE  InheritInv'
    BY <1>4, <1>g DEF ApplyChange
  <2>1. InheritTypeOK' /\ repo'.head = repo.head /\ repo'.index = repo.index /\ zstream' = zstream
        /\ repo'.work = (IF HasPatch THEN [repo.work EXCEPT !["patch"] = "source"] ELSE repo.work)
        /\ inherit'.step = "adapt" /\ inherit'.fix = inherit.fix
    BY <1>0, StepTo, WorkTo DEF InheritTypeOK, Content, File
  <2>2. PatchIsFile'
    BY <1>0, <2>1 DEF InheritTypeOK, PatchIsFile, InheritInv, File
  <2>3. InOrder' /\ FixKnown'
    BY <1>s, <2>1 DEF InOrder, FixKnown, InheritInv, InheritAt
  <2> QED
    BY <2>1, <2>2, <2>3 DEF InheritInv, WorkChecked, IndexChecked, InheritanceSound, CleanFallback, OnlyTheFix,
                            InheritAt
<1>5. CASE Adapt
  <2>1. PICK f \in {"patch", "other", "spec"}, c \in {"edited", "adapted", "meddled", "unapplied", "legacy"} :
            InWork([repo.work EXCEPT ![f] = c]) /\ UNCHANGED <<zstream, inherit>> /\ InheritAt("adapt")
    BY <1>5 DEF Adapt
  <2>2. InheritTypeOK' /\ repo'.head = repo.head /\ repo'.index = repo.index /\ zstream' = zstream
        /\ repo'.work = [repo.work EXCEPT ![f] = c] /\ inherit' = inherit
    BY <1>0, <2>1, WorkTo DEF InheritTypeOK, Content, File
  <2>3. PatchIsFile'
    BY <1>0, <2>2 DEF InheritTypeOK, PatchIsFile, InheritInv, File
  <2>4. InOrder' /\ FixKnown'
    BY <1>s, <2>2 DEF InOrder, FixKnown, InheritInv
  <2> QED
    BY <2>1, <2>2, <2>3, <2>4 DEF InheritInv, WorkChecked, IndexChecked, InheritanceSound, CleanFallback, OnlyTheFix,
                            InheritAt
<1>6. CASE Adapted
  <2> SUFFICES ASSUME InheritGoes("normalize"), InheritAt("adapt"), UNCHANGED repo PROVE InheritInv'
    <3>1. GiveUp(HasPatch) => GiveUp(TRUE) \/ GiveUp(FALSE)
      BY DEF GiveUp, CleanUpFails
    <3> QED
      BY <1>6, <1>g, <3>1 DEF Adapted
  <2>1. inherit' \in Attempts /\ zstream' = zstream /\ inherit'.step = "normalize" /\ inherit'.fix = inherit.fix
    BY <1>0, StepTo
  <2>2. InOrder' /\ FixKnown'
    BY <1>s, <2>1 DEF InOrder, FixKnown, InheritInv, InheritAt
  <2> QED
    BY <2>1, <2>2 DEF InheritInv, InheritTypeOK, PatchIsFile, WorkChecked, IndexChecked, InheritanceSound,
                      CleanFallback, OnlyTheFix, InheritAt
<1>7. CASE Normalize
  <2> DEFINE new == IF HasPatch /\ zstream.patch = "none" /\ repo.work["spec"] = "legacy"
                    THEN [repo.work EXCEPT !["spec"] = "adapted"] ELSE repo.work
  <2>1. InheritTypeOK' /\ repo'.head = repo.head /\ repo'.index = repo.index /\ zstream' = zstream
        /\ repo'.work = new /\ inherit'.step = "validate" /\ inherit'.fix = inherit.fix
    <3>1. new \in [File -> Content]
      BY <1>0 DEF InheritTypeOK, Content, File
    <3> QED
      BY <1>0, <1>7, <3>1, StepTo, WorkTo DEF InheritTypeOK, Normalize
  <2>2. PatchIsFile'
    BY <1>0, <2>1 DEF InheritTypeOK, PatchIsFile, InheritInv, File
  <2>3. InOrder' /\ FixKnown'
    BY <1>s, <1>7, <2>1 DEF InOrder, FixKnown, InheritInv, InheritAt, Normalize
  <2>4. NoLegacy' => repo'.work["spec"] # "legacy"
    BY <1>0, <1>s, <2>1 DEF NoLegacy, InheritTypeOK, File
  <2> QED
    BY <2>1, <2>2, <2>3, <2>4 DEF InheritInv, WorkChecked, IndexChecked, InheritanceSound, CleanFallback, OnlyTheFix,
                            InheritAt
<1>8. CASE Validate
  <2> SUFFICES ASSUME Valid, InheritGoes("release"), UNCHANGED repo, InheritAt("validate") PROVE InheritInv'
    BY <1>8, <1>g DEF Validate, Verified
  <2>1. inherit' \in Attempts /\ zstream' = zstream /\ inherit'.step = "release" /\ inherit'.fix = inherit.fix
    BY <1>0, StepTo
  <2>2. InOrder' /\ FixKnown'
    BY <1>s, <2>1 DEF InOrder, FixKnown, InheritInv, InheritAt
  <2>3. repo.work["patch"] = SourcePatch
    <3>1. CASE HasPatch
      BY <3>1 DEF Valid, Verified, SourcePatch
    <3>2. CASE ~HasPatch
      <4>1. "patch" \notin Changed
        BY <3>2 DEF Valid, HasPatch
      <4> QED
        BY <3>2, <4>1 DEF Changed, File, InOrder, InheritInv, InheritAt, SourcePatch
    <3> QED
      BY <3>1, <3>2
  <2>4. WorkChecked'
    BY <1>s, <2>1, <2>3 DEF WorkChecked, InheritInv, InheritAt
  <2> QED
    BY <2>1, <2>2, <2>4 DEF InheritInv, InheritTypeOK, PatchIsFile, IndexChecked, InheritanceSound,
                            CleanFallback, OnlyTheFix, InheritAt

<1>9. CASE Release
  <2> DEFINE spec == IF repo.work["spec"] = "legacy" THEN "released legacy" ELSE "released"
             new  == [repo.work EXCEPT !["spec"] = spec, !["ignored"] = "tarball"]
  <2> SUFFICES ASSUME InWork(new), InheritGoes("prep"), InheritAt("release") PROVE InheritInv'
    BY <1>9, <1>g DEF Release
  <2>1. InheritTypeOK' /\ repo'.head = repo.head /\ repo'.index = repo.index /\ zstream' = zstream
        /\ repo'.work = new /\ inherit'.step = "prep" /\ inherit'.fix = inherit.fix
    <3>1. new \in [File -> Content]
      BY <1>0 DEF InheritTypeOK, Content, File
    <3> QED
      BY <1>0, <3>1, StepTo, WorkTo DEF InheritTypeOK
  <2>2. new["patch"] = repo.work["patch"] /\ new["spec"] = spec
    BY <1>0 DEF InheritTypeOK, File
  <2> HIDE DEF new
  <2>3. PatchIsFile'
    BY <2>1, <2>2 DEF PatchIsFile, InheritInv
  <2>4. InOrder' /\ FixKnown'
    BY <1>s, <2>1 DEF InOrder, FixKnown, InheritInv, InheritAt
  <2>5. WorkChecked'
    BY <1>s, <2>1, <2>2 DEF WorkChecked, ReleasedSpec, HasPatch, NoLegacy, InheritInv, InheritAt
  <2> QED
    BY <2>1, <2>3, <2>4, <2>5 DEF InheritInv, IndexChecked, InheritanceSound, CleanFallback, OnlyTheFix, InheritAt
<1>10. CASE Prep
  <2>1. GiveUp(HasPatch) => GiveUp(TRUE) \/ GiveUp(FALSE)
    BY DEF GiveUp, CleanUpFails
  <2> SUFFICES ASSUME NEW new \in {repo.work, [repo.work EXCEPT !["extra"] = "output"],
                         [repo.work EXCEPT !["extra"] = "repository"],
                         [repo.work EXCEPT !["ignored"] = "repository"],
                         [repo.work EXCEPT !["patch"] = IF HasPatch THEN "edited" ELSE @]},
                      InWork(new), InheritGoes("srpm"), InheritAt("prep")
               PROVE  InheritInv'
    BY <1>10, <1>g, <2>1 DEF Prep
  <2>2. new \in [File -> Content] /\ new["spec"] = repo.work["spec"]
        /\ (new["patch"] = repo.work["patch"] \/ (HasPatch /\ new["patch"] = "edited"))
    <3>1. repo.work \in [File -> Content] /\ {"spec", "patch", "extra", "ignored"} \subseteq File
          /\ {"output", "repository", "edited"} \subseteq Content
      BY <1>0 DEF InheritTypeOK, Content, File
    <3>2. CASE new \in {repo.work, [repo.work EXCEPT !["extra"] = "output"]}
      BY <3>1, <3>2
    <3>3. CASE new \in {[repo.work EXCEPT !["extra"] = "repository"], [repo.work EXCEPT !["ignored"] = "repository"]}
      BY <3>1, <3>3
    <3>4. CASE new = [repo.work EXCEPT !["patch"] = IF HasPatch THEN "edited" ELSE @]
      <4>1. CASE HasPatch
        BY <3>1, <3>4, <4>1
      <4>2. CASE ~HasPatch
        BY <3>1, <3>4, <4>2
      <4> QED
        BY <4>1, <4>2
    <3> QED
      BY <3>2, <3>3, <3>4
  <2>3. InheritTypeOK' /\ repo'.head = repo.head /\ repo'.index = repo.index /\ zstream' = zstream
        /\ repo'.work = new /\ inherit'.step = "srpm" /\ inherit'.fix = inherit.fix
    BY <1>0, <2>2, StepTo, WorkTo DEF InheritTypeOK
  <2>4. PatchIsFile'
    BY <2>2, <2>3 DEF PatchIsFile, InheritInv
  <2>5. InOrder' /\ FixKnown'
    BY <1>s, <2>3 DEF InOrder, FixKnown, InheritInv, InheritAt
  <2>6. WorkChecked'
    BY <1>s, <2>2, <2>3 DEF WorkChecked, ReleasedSpec, HasPatch, NoLegacy, SourcePatch, InheritInv, InheritAt
  <2> QED
    BY <2>3, <2>4, <2>5, <2>6 DEF InheritInv, IndexChecked, InheritanceSound, CleanFallback, OnlyTheFix, InheritAt
<1>11. CASE BuildSRPM
  <2> SUFFICES ASSUME inherit' = [inherit EXCEPT !.step = "stage",
                                                 !.srpm = <<repo.work["spec"], repo.work["patch"]>>],
                      UNCHANGED <<zstream, repo>>, InheritAt("srpm")
               PROVE  InheritInv'
    BY <1>11, <1>g DEF BuildSRPM
  <2>1. inherit' \in Attempts /\ inherit'.step = "stage" /\ inherit'.fix = inherit.fix
        /\ inherit'.srpm = <<repo.work["spec"], repo.work["patch"]>>
    BY <1>0 DEF InheritTypeOK, Attempts, File
  <2>2. InOrder' /\ FixKnown'
    BY <1>s, <2>1 DEF InOrder, FixKnown, InheritInv, InheritAt
  <2>3. WorkChecked'
    BY <1>s, <2>1 DEF WorkChecked, ReleasedSpec, HasPatch, NoLegacy, InheritInv, InheritAt
  <2> QED
    BY <2>1, <2>2, <2>3 DEF InheritInv, InheritTypeOK, PatchIsFile, IndexChecked, InheritanceSound, CleanFallback,
                            OnlyTheFix, InheritAt
<1>12. CASE StageInherited
  <2> SUFFICES ASSUME Verified, InheritGoes("commit"), InheritAt("stage"), NEW fs \in SUBSET Expected,
                      Cached(fs) = Expected, repo' = [repo EXCEPT !.index = Staged(fs)]
               PROVE  InheritInv'
    BY <1>12, <1>g DEF StageInherited
  <2>1. inherit' \in Attempts /\ zstream' = zstream /\ inherit'.step = "commit" /\ inherit'.fix = inherit.fix
        /\ inherit'.srpm = inherit.srpm
    BY <1>0, StepTo
  <2>2. Staged(fs) \in [File -> Content]
    BY <1>0 DEF Staged, InheritTypeOK
  <2>3. InheritTypeOK' /\ repo'.head = repo.head /\ repo'.work = repo.work /\ repo'.index = Staged(fs)
    BY <1>0, <2>1, <2>2 DEF InheritTypeOK
  <2>4. repo.index = Saved /\ repo.head = Saved
    BY DEF InOrder, InheritInv, InheritAt
  <2>5. Expected \subseteq {"spec", "patch"} /\ "spec" \in Expected /\ ("patch" \in Expected <=> HasPatch)
    BY <1>0 DEF InheritTypeOK, Shipped, Expected, HasPatch
  <2>6. \A f \in File : IF f \in Expected THEN Staged(fs)[f] = repo.work[f] ELSE Staged(fs)[f] = Saved[f]
    BY <2>4 DEF Cached, Staged
  <2>7. Staged(fs)["patch"] = SourcePatch /\ Staged(fs)["spec"] = repo.work["spec"]
        /\ Staged(fs)["patch"] = repo.work["patch"]
    BY <2>5, <2>6 DEF File, SourcePatch, Verified, WorkChecked, InheritInv, InheritAt
  <2>8. IndexChecked'
    BY <1>s, <2>1, <2>3, <2>5, <2>6, <2>7 DEF IndexChecked, WorkChecked, ReleasedSpec, InheritInv, InheritAt
  <2>9. InOrder' /\ FixKnown' /\ PatchIsFile'
    BY <1>s, <2>1, <2>3 DEF InOrder, FixKnown, PatchIsFile, InheritInv, InheritAt
  <2> QED
    BY <2>1, <2>3, <2>8, <2>9 DEF InheritInv, WorkChecked, InheritanceSound, CleanFallback, OnlyTheFix, InheritAt
<1>13. CASE CommitInherited
  <2> SUFFICES ASSUME repo' = [repo EXCEPT !.head = repo.index], InheritGoes("build"), InheritAt("commit")
               PROVE  InheritInv'
    BY <1>13, <1>g DEF CommitInherited
  <2>1. inherit' \in Attempts /\ zstream' = zstream /\ inherit'.step = "build" /\ inherit'.fix = inherit.fix
        /\ inherit'.srpm = inherit.srpm
    BY <1>0, StepTo
  <2>2. InheritTypeOK' /\ repo'.head = repo.index /\ repo'.work = repo.work
    BY <1>0, <2>1 DEF InheritTypeOK
  <2>3. FixKnown' /\ PatchIsFile'
    BY <2>1, <2>2 DEF FixKnown, PatchIsFile, InheritInv, InheritAt
  <2>4. IndexChecked /\ inherit.step = "commit"
    BY DEF InheritInv, InheritAt
  <2>5. repo'.head["patch"] = SourcePatch /\ SourcePatch' = SourcePatch
    BY <1>s, <2>1, <2>2, <2>4 DEF IndexChecked
  <2>6. ReleasedSpec(repo'.head["spec"])
    BY <2>2, <2>4 DEF IndexChecked
  <2>7. \A f \in File \ {"spec", "patch"} : repo'.head[f] = Saved'[f]
    BY <1>s, <2>1, <2>2, <2>4 DEF IndexChecked
  <2>8. inherit'.srpm = <<repo'.head["spec"], repo'.head["patch"]>>
    BY <2>1, <2>2, <2>4 DEF IndexChecked
  <2>9. zstream'.log[inherit'.fix] = [place |-> "z", keys |-> {"z"}]
    BY <2>1, <2>4 DEF FixKnown, InheritInv
  <2>10. repo'.head["spec"] = "released"
         \/ (repo'.head["spec"] = "released legacy" /\ ~(HasPatch' /\ zstream'.patch = "none"))
    <3>1. HasPatch' <=> HasPatch
      BY <1>s, <2>1
    <3>2. repo'.head["spec"] = "released" \/ (repo'.head["spec"] = "released legacy" /\ ~NoLegacy)
      BY <2>6 DEF ReleasedSpec
    <3> QED
      BY <2>1, <3>1, <3>2 DEF NoLegacy
  <2>11. OnlyTheFix'
    <3>1. repo'.head["patch"] = IF HasPatch' THEN "source" ELSE Saved'["patch"]
      BY <2>5 DEF SourcePatch
    <3>2. repo'.head["spec"] \in {"released"} \cup
             (IF HasPatch' /\ (zstream').patch = "none" THEN {} ELSE {"released legacy"})
      <4>1. CASE HasPatch' /\ zstream'.patch = "none"
        BY <2>10, <4>1
      <4>2. CASE ~(HasPatch' /\ zstream'.patch = "none")
        <5>1. (IF HasPatch' /\ (zstream').patch = "none" THEN {} ELSE {"released legacy"}) = {"released legacy"}
          BY <4>2, Zenon
        <5>2. repo'.head["spec"] \in {"released"} \cup {"released legacy"}
          BY <2>10
        <5> QED
          BY <5>1, <5>2, Zenon
      <4> QED
        BY <4>1, <4>2
    <3> QED
      BY <2>7, <2>8, <2>9, <3>1, <3>2, Zenon DEF OnlyTheFix
  <2> QED
    BY <2>1, <2>2, <2>3, <2>11 DEF InheritInv, InOrder, WorkChecked, IndexChecked, InheritanceSound, CleanFallback,
                                  InheritAt
<1>14. CASE BuildInherited
  <2>1. ASSUME inherit'.step \in {"build", "publish"}, inherit' \in Attempts, UNCHANGED <<zstream, repo>>,
               inherit'.fix = inherit.fix, inherit'.srpm = inherit.srpm, InheritAt("build")
        PROVE  InheritInv'
    <3>1. FixKnown' /\ PatchIsFile'
      BY <2>1 DEF FixKnown, PatchIsFile, InheritInv, InheritAt
    <3>2. OnlyTheFix'
      BY <1>s, <2>1 DEF OnlyTheFix, HasPatch, InheritanceSound, InheritInv, InheritAt
    <3> QED
      BY <1>0, <2>1, <3>1, <3>2 DEF InheritInv, InheritTypeOK, InOrder, WorkChecked, IndexChecked, InheritanceSound,
                                    CleanFallback, InheritAt
  <2>2. ASSUME InheritGoes("publish"), UNCHANGED repo, InheritAt("build") PROVE InheritInv'
    BY <1>0, <2>1, <2>2, StepTo
  <2>3. ASSUME inherit' = [inherit EXCEPT !.builds = @ - 1], UNCHANGED <<zstream, repo>>, InheritAt("build")
        PROVE  InheritInv'
    <3>1. inherit' \in Attempts /\ inherit'.step = "build" /\ inherit'.fix = inherit.fix
          /\ inherit'.srpm = inherit.srpm
      BY <1>0, <2>3 DEF InheritTypeOK, Attempts, InheritAt
    <3> QED
      BY <2>1, <2>3, <3>1
  <2> QED
    BY <1>14, <1>g, <2>2, <2>3 DEF BuildInherited
<1>15. CASE SourceUnusable
  BY <1>15, <1>g DEF SourceUnusable
<1> QED
  BY <1>1, <1>2, <1>3, <1>4, <1>5, <1>6, <1>7, <1>8, <1>9, <1>10, <1>11, <1>12, <1>13, <1>14, <1>15
     DEF InheritNext

(***************************************************************************)
(* However an attempt to inherit a fix ends, it publishes that fix and     *)
(* nothing else, or leaves a clone from which the backport may start.      *)
(***************************************************************************)
THEOREM InheritanceSafety == ServicesSpec => []InheritanceSound
<1>1. ServicesInit => InheritInv
  <2> SUFFICES ASSUME InheritInit PROVE InheritInv
    BY DEF ServicesInit
  <2>1. zstream \in Shipped /\ Saved \in [File -> Content] /\ Saved["patch"] # "repository"
        /\ repo = [head |-> Saved, index |-> Saved, work |-> Saved]
    BY SavedType DEF InheritInit
  <2>2. NewInherit \in Attempts /\ inherit = NewInherit /\ inherit.step = "source"
    BY NewAttempt DEF NewInherit, InheritInit
  <2>3. InheritTypeOK /\ PatchIsFile /\ InOrder
    BY <2>1, <2>2 DEF InheritTypeOK, PatchIsFile, InOrder
  <2> QED
    BY <2>2, <2>3 DEF InheritInv, FixKnown, WorkChecked, IndexChecked, InheritanceSound, CleanFallback, OnlyTheFix,
                      InheritAt
<1>2. InheritInv /\ [ServicesNext]_servicesVars => InheritInv'
  <2>1. [ServicesNext]_servicesVars => InheritNext \/ UNCHANGED inheritVars
    BY DEF ServicesNext, servicesVars
  <2> QED
    BY <2>1, InheritInductive
<1>3. InheritInv => InheritanceSound
  BY DEF InheritInv
<1> QED
  BY <1>1, <1>2, <1>3, PTL DEF ServicesSpec

-----------------------------------------------------------------------------
(* Trackers of a CVE. *)

(* What the variables of the trackers may be. *)
CheckTypeOK ==
    /\ check \in [Tracker -> TrackerCheck] /\ mark \in [Tracker -> Mark]
    /\ verdict \in [Tracker -> Verdict] /\ state \in [Tracker -> TrackerState]
    /\ nvr \in [Tracker -> TrackerBuild] /\ checkFaults \in Nat

(* Steps of a check after the one that looks for duplicates. *)
Passed == {"shipped", "approach", "not_affected", "untriaged", "analysis"}

(* An issue under check bears the label of a triage or of a postponement. *)
Taken(i) == check[i].step # "idle" => mark[i] \in {"progress", "y_stream"}

(* What a check c with verdict v has established of the other trackers, of    *)
(* which what was read before stays true.                                     *)
Unrivalled(i, c, v) == (c.step \in Passed \/ v = "now") /\ checkFaults = 0 => Blocking(i) = {}
Established(i, c) ==
    /\ c.step # "idle" /\ c.spared => NotAffected(i) # {}
    /\ c.step = "untriaged" => ~c.spared
    /\ c.step \in {"not_affected", "untriaged"} =>
         /\ c.then \in {"wait", "inherit"}
         /\ c.then = "inherit" => \E u \in Wanted(i, {"current", "upcoming"}) : nvr[u] = "cs"

CheckInv ==
    /\ CheckTypeOK
    /\ \A i \in Tracker : Taken(i) /\ Unrivalled(i, check[i], verdict[i]) /\ Established(i, check[i])

(* One tracker's check goes on, with its label and its verdict. *)
Moves(i, c, m, v) ==
    /\ check' = [check EXCEPT ![i] = c] /\ mark' = [mark EXCEPT ![i] = m] /\ verdict' = [verdict EXCEPT ![i] = v]
    /\ UNCHANGED <<family, state, nvr>> /\ checkFaults' \in {checkFaults, checkFaults + 1}

(* Whether a verdict to inherit is a new one, and justified. *)
Justified(i, v) ==
    v = "inherit" =>
        \/ verdict[i] = "inherit"
        \/ /\ \E u \in Wanted(i, {"current", "upcoming"}) : nvr[u] = "cs"
           /\ \A u \in Applicable(i) : mark[u] \notin {"none", "progress", "failed"}
           /\ ~check[i].spared
AllJustified == \A i \in Tracker : Justified(i, verdict'[i])

(* What the others found stays true when states, builds and the label of an   *)
(* unaffected issue do.                                                       *)
LEMMA FoundStays ==
    ASSUME CheckInv, UNCHANGED family,
           \A u \in Tracker : /\ state[u] = "rejected" => state'[u] = "rejected"
                              /\ nvr[u] = "cs" => nvr'[u] = "cs"
                              /\ mark[u] = "not_affected" => mark'[u] = "not_affected",
           checkFaults' \in {checkFaults, checkFaults + 1},
           NEW i \in Tracker, NEW c, NEW v,
           (c.step \in Passed \/ v = "now") /\ checkFaults' = 0 => Blocking(i) = {},
           Established(i, c)
    PROVE  Unrivalled(i, c, v)' /\ Established(i, c)'
<1>1. /\ Older(i)' = Older(i) /\ Applicable(i)' = Applicable(i)
      /\ \A s : Wanted(i, s)' = Wanted(i, s)
  BY DEF Older, Applicable, Wanted, Clones, About
<1>2. Older(i) \subseteq Tracker /\ Applicable(i) \subseteq Tracker /\ \A s : Wanted(i, s) \subseteq Tracker
  BY DEF Older, Applicable, Wanted, Clones
<1>3. Blocking(i) = {} => Blocking(i)' = {}
  BY <1>1, <1>2 DEF Blocking
<1>4. NotAffected(i) # {} => NotAffected(i)' # {}
  BY <1>1, <1>2 DEF NotAffected
<1>5. (\E u \in Wanted(i, {"current", "upcoming"}) : nvr[u] = "cs")
      => \E u \in Wanted(i, {"current", "upcoming"})' : nvr'[u] = "cs"
  BY <1>1, <1>2
<1> QED
  BY <1>3, <1>4, <1>5 DEF Unrivalled, Established

(* A check that goes on by what it established. *)
LEMMA MoveKeeps ==
    ASSUME CheckInv, NEW i \in Tracker, NEW c \in TrackerCheck, NEW m \in Mark, NEW v \in Verdict, Moves(i, c, m, v),
           mark[i] = "not_affected" => m = "not_affected", c.step # "idle" => m \in {"progress", "y_stream"},
           (c.step \in Passed \/ v = "now") /\ checkFaults' = 0 => Blocking(i) = {},
           Established(i, c), Justified(i, v)
    PROVE  CheckInv' /\ AllJustified
<1>1. /\ check' = [check EXCEPT ![i] = c] /\ mark' = [mark EXCEPT ![i] = m] /\ verdict' = [verdict EXCEPT ![i] = v]
      /\ UNCHANGED <<family, state, nvr>> /\ checkFaults' \in {checkFaults, checkFaults + 1}
  BY DEF Moves
<1>2. CheckTypeOK
  BY DEF CheckInv
<1>3. CheckTypeOK'
  BY <1>1, <1>2 DEF CheckTypeOK
<1>4. /\ check'[i] = c /\ mark'[i] = m /\ verdict'[i] = v
      /\ \A j \in Tracker \ {i} : check'[j] = check[j] /\ mark'[j] = mark[j] /\ verdict'[j] = verdict[j]
  BY <1>1, <1>2 DEF CheckTypeOK
<1>5. checkFaults' = 0 => checkFaults = 0
  BY <1>1, <1>2 DEF CheckTypeOK
<1>6. \A u \in Tracker : /\ state[u] = "rejected" => state'[u] = "rejected"
                         /\ nvr[u] = "cs" => nvr'[u] = "cs"
                         /\ mark[u] = "not_affected" => mark'[u] = "not_affected"
  BY <1>1, <1>4
<1>7. ASSUME NEW j \in Tracker
      PROVE  Taken(j)' /\ Unrivalled(j, check[j], verdict[j])' /\ Established(j, check[j])'
  <2>1. CASE j = i
    <3>1. Unrivalled(i, c, v)' /\ Established(i, c)'
      BY <1>1, <1>6, FoundStays
    <3> QED
      BY <1>4, <2>1, <3>1 DEF Taken, Unrivalled, Established
  <2>2. CASE j # i
    <3>1. PICK d, w : d = check[j] /\ w = verdict[j]
      OBVIOUS
    <3>2. Unrivalled(j, d, w) /\ Established(j, d) /\ Taken(j)
      BY <3>1 DEF CheckInv, Unrivalled, Established
    <3>3. (d.step \in Passed \/ w = "now") /\ checkFaults' = 0 => Blocking(j) = {}
      BY <1>5, <3>2 DEF Unrivalled
    <3>4. Unrivalled(j, d, w)' /\ Established(j, d)'
      BY <1>1, <1>6, <3>2, <3>3, FoundStays
    <3> QED
      BY <1>4, <2>2, <3>1, <3>2, <3>4 DEF Taken, Unrivalled, Established
  <2> QED
    BY <2>1, <2>2
<1>8. AllJustified
  BY <1>4 DEF AllJustified, Justified
<1> QED
  BY <1>3, <1>7, <1>8 DEF CheckInv

(* What the search for the approach decides. *)
LEMMA ApproachKnown ==
    ASSUME NEW i \in Tracker
    PROVE  /\ Approach(i) \in {"inherit", "now", "wait"}
           /\ Approach(i) = "inherit" => \E u \in Wanted(i, {"current", "upcoming"}) : nvr[u] = "cs"
<1>1. \A u \in SameMajor(i) : state[u] \in {"open", "shipped"} /\ u \in Wanted(i, {"current", "upcoming"})
  BY DEF SameMajor
<1> QED
  BY <1>1 DEF Approach

(* A new check knows nothing but whether a clone is unaffected. *)
LEMMA Beginning ==
    ASSUME NEW i \in Tracker, NEW b \in {"triage", "sweep"}, NEW c, c = Begin(i, b)
    PROVE  /\ c \in TrackerCheck /\ c.step = "duplicates" /\ c.by = b
           /\ Established(i, c)
BY DEF Begin, NoCheck, TrackerCheck, Established

(* An answer ends the check, has the issue triaged again or analysed. *)
LEMMA AnswerKeeps ==
    ASSUME CheckInv, NEW i \in Tracker, NEW v \in Verdict, Answer(i, v), checkFaults' \in {checkFaults, checkFaults + 1},
           check[i].step # "idle",
           v = "now" /\ checkFaults' = 0 => Blocking(i) = {},
           Justified(i, v)
    PROVE  CheckInv' /\ AllJustified
<1>1. /\ verdict' = [verdict EXCEPT ![i] = v] /\ UNCHANGED <<family, state, nvr>>
      /\ check \in [Tracker -> TrackerCheck] /\ mark \in [Tracker -> Mark]
      /\ mark[i] \in {"progress", "y_stream"}
  BY DEF Answer, CheckInv, CheckTypeOK, Taken
<1>2. mark' = mark => mark' = [mark EXCEPT ![i] = mark[i]]
  BY <1>1
<1>3. NoCheck \in TrackerCheck /\ NoCheck.step = "idle" /\ Established(i, NoCheck)
  BY DEF NoCheck, TrackerCheck, Established
<1>4. ASSUME NEW m \in Mark, mark' = [mark EXCEPT ![i] = m], check' = [check EXCEPT ![i] = NoCheck]
      PROVE  CheckInv' /\ AllJustified
  <2>1. Moves(i, NoCheck, m, v)
    BY <1>1, <1>4 DEF Moves
  <2> HIDE DEF NoCheck
  <2> QED
    BY <1>1, <1>3, <2>1, MoveKeeps DEF Passed
<1>5. CASE check[i].by = "sweep" /\ v \in {"wait", "error", "unset"}
  <2>1. mark[i] \in Mark
    BY <1>1
  <2> QED
    BY <1>2, <1>4, <1>5, <2>1 DEF Answer
<1>6. CASE check[i].by = "sweep" /\ v \notin {"wait", "error", "unset"}
  <2>1. PICK c : c = Begin(i, "triage")
    OBVIOUS
  <2>2. Moves(i, c, "progress", v)
    BY <1>1, <1>6, <2>1 DEF Answer, Moves
  <2>3. c \in TrackerCheck /\ c.step = "duplicates" /\ Established(i, c)
    BY <2>1, Beginning
  <2> QED
    BY <1>1, <2>2, <2>3, MoveKeeps DEF Passed, Mark
<1>7. CASE check[i].by # "sweep" /\ v = "now"
  <2>1. PICK c : c = [NoCheck EXCEPT !.step = "analysis"]
    OBVIOUS
  <2>2. Moves(i, c, mark[i], v)
    BY <1>1, <1>2, <1>7, <2>1 DEF Answer, Moves
  <2>3. c \in TrackerCheck /\ c.step = "analysis" /\ Established(i, c)
    BY <2>1 DEF NoCheck, TrackerCheck, Established
  <2>4. mark[i] \in Mark
    BY <1>1
  <2> QED
    BY <1>1, <1>7, <2>2, <2>3, <2>4, MoveKeeps DEF Passed
<1>8. CASE check[i].by # "sweep" /\ v # "now"
  <2>1. "y_stream" \in Mark /\ "resolved" \in Mark
    BY DEF Mark
  <2> QED
    BY <1>4, <1>8, <2>1 DEF Answer
<1> QED
  BY <1>5, <1>6, <1>7, <1>8

(* The next search of a check. *)
LEMMA SearchKeeps ==
    ASSUME CheckInv, NEW i \in Tracker, NEW c \in TrackerCheck,
           check' = [check EXCEPT ![i] = c], UNCHANGED <<family, state, nvr, mark, verdict>>,
           checkFaults' \in {checkFaults, checkFaults + 1},
           check[i].step # "idle", c.step \in Passed, checkFaults' = 0 => Blocking(i) = {},
           Established(i, c)
    PROVE  CheckInv' /\ AllJustified
<1>1. mark[i] \in {"progress", "y_stream"} /\ mark[i] \in Mark /\ verdict[i] \in Verdict
  BY DEF CheckInv, CheckTypeOK, Taken
<1>2. Moves(i, c, mark[i], verdict[i])
  BY DEF Moves, CheckInv, CheckTypeOK
<1>3. Justified(i, verdict[i])
  BY DEF Justified
<1>4. PICK m \in Mark, v \in Verdict : m = mark[i] /\ v = verdict[i]
  BY <1>1
<1> QED
  BY <1>1, <1>2, <1>3, <1>4, MoveKeeps

(* A search that fails answers so. *)
LEMMA FailureKeeps ==
    ASSUME CheckInv, NEW i \in Tracker, check[i].step # "idle", SearchFails(i)
    PROVE  CheckInv' /\ AllJustified
BY AnswerKeeps DEF SearchFails, SearchFault, Justified, Verdict

(* Every step of the trackers. *)
LEMMA TrackerKeeps ==
    ASSUME CheckInv, NEW i \in Tracker, Ask(i) \/ FixFails(i) \/ IsBuilt(i) \/ IsClosed(i)
    PROVE  CheckInv' /\ AllJustified
<1>1. /\ check \in [Tracker -> TrackerCheck] /\ mark \in [Tracker -> Mark] /\ verdict \in [Tracker -> Verdict]
      /\ checkFaults \in Nat /\ check[i] \in TrackerCheck /\ mark[i] \in Mark /\ verdict[i] \in Verdict
  BY DEF CheckInv, CheckTypeOK
<1>2. Taken(i) /\ Unrivalled(i, check[i], verdict[i]) /\ Established(i, check[i])
  BY DEF CheckInv
<1>3. verdict' = verdict => verdict' = [verdict EXCEPT ![i] = verdict[i]]
  BY <1>1
<1>4. PICK b \in TrackerCheck, w \in Verdict : b = check[i] /\ w = verdict[i]
  BY <1>1
<1>5. Justified(i, w)
  BY <1>4 DEF Justified
<1>6. checkFaults + 1 # 0
  BY <1>1
<1>7. CASE StartTriage(i)
  <2>1. PICK c : c = Begin(i, "triage")
    OBVIOUS
  <2>2. c \in TrackerCheck /\ c.step = "duplicates" /\ Established(i, c)
    BY <2>1, Beginning
  <2>3. Moves(i, c, "progress", w) /\ mark[i] = "none" /\ checkFaults' = checkFaults
    BY <1>3, <1>4, <1>7, <2>1 DEF StartTriage, Moves
  <2>4. w = "now" /\ checkFaults' = 0 => Blocking(i) = {}
    BY <1>2, <1>4, <2>3 DEF Unrivalled
  <2> QED
    BY <1>5, <2>2, <2>3, <2>4, MoveKeeps DEF Passed, Mark
<1>8. CASE StartSweep(i)
  <2>1. PICK c : c = Begin(i, "sweep")
    OBVIOUS
  <2>2. c \in TrackerCheck /\ c.step = "duplicates" /\ Established(i, c)
    BY <2>1, Beginning
  <2>3. Moves(i, c, "y_stream", w) /\ mark[i] = "y_stream" /\ checkFaults' = checkFaults
    BY <1>1, <1>3, <1>4, <1>8, <2>1 DEF StartSweep, OnlyCheck, Moves
  <2>4. w = "now" /\ checkFaults' = 0 => Blocking(i) = {}
    BY <1>2, <1>4, <2>3 DEF Unrivalled
  <2> QED
    BY <1>5, <2>2, <2>3, <2>4, MoveKeeps DEF Passed, Mark
<1>9. ASSUME AfterDuplicates(i), check[i].step = "duplicates", checkFaults' \in {checkFaults, checkFaults + 1},
             checkFaults' = 0 => Blocking(i) = {}
      PROVE  CheckInv' /\ AllJustified
  <2>1. CASE About(i).stream = "y"
    <3>1. PICK s \in {"shipped", "approach"} : check' = [check EXCEPT ![i].step = s]
      BY <1>9, <2>1 DEF AfterDuplicates
    <3>2. PICK c : c = [b EXCEPT !.step = s]
      OBVIOUS
    <3>3. check' = [check EXCEPT ![i] = c] /\ UNCHANGED <<family, state, nvr, mark, verdict>>
      BY <1>4, <1>9, <2>1, <3>1, <3>2 DEF AfterDuplicates
    <3>4. c \in TrackerCheck /\ c.step = s /\ c.spared = b.spared
      BY <3>2 DEF TrackerCheck
    <3>5. Established(i, c)
      BY <1>2, <1>4, <1>9, <3>4 DEF Established
    <3> QED
      BY <1>9, <3>3, <3>4, <3>5, SearchKeeps DEF Passed
  <2>2. CASE About(i).stream # "y"
    <3>1. PICK v \in {"embargo", "now"} : Answer(i, v)
      BY <1>9, <2>2 DEF AfterDuplicates
    <3> QED
      BY <1>9, <3>1, AnswerKeeps DEF Justified, Verdict
  <2> QED
    BY <2>1, <2>2
<1>10. CASE CheckDuplicates(i)
  <2>1. check[i].step = "duplicates"
    BY <1>10 DEF CheckDuplicates, Search
  <2>2. ASSUME NEW v \in {"unset", "duplicate"}, Answered(i, v) PROVE CheckInv' /\ AllJustified
    BY <2>1, <2>2, AnswerKeeps DEF Answered, Justified, Verdict
  <2>3. CASE Blocking(i) = {} /\ AfterDuplicates(i) /\ UNCHANGED checkFaults
    BY <1>9, <2>1, <2>3
  <2>4. CASE SearchFault /\ AfterDuplicates(i)
    BY <1>6, <1>9, <2>1, <2>4 DEF SearchFault
  <2> QED
    BY <1>10, <2>2, <2>3, <2>4 DEF CheckDuplicates
<1>11. ASSUME check[i].step \in Passed, NEW v \in {"now", "wait"}, Answered(i, v) PROVE CheckInv' /\ AllJustified
  <2>1. v = "now" /\ checkFaults' = 0 => Blocking(i) = {}
    BY <1>2, <1>11 DEF Answered, Unrivalled
  <2>2. check[i].step # "idle" /\ Answer(i, v) /\ checkFaults' \in {checkFaults, checkFaults + 1} /\ v \in Verdict
    BY <1>11 DEF Answered, Passed, Verdict
  <2>3. Justified(i, v)
    BY <1>11 DEF Justified
  <2> QED
    BY <2>1, <2>2, <2>3, AnswerKeeps
<1>12. ASSUME check[i].step \in {"shipped", "approach"}, NEW t \in {"wait", "inherit"}, OnlyCheck,
              check' = [check EXCEPT ![i] = [check[i] EXCEPT !.step = "not_affected", !.then = t]],
              t = "inherit" => \E u \in Wanted(i, {"current", "upcoming"}) : nvr[u] = "cs"
       PROVE  CheckInv' /\ AllJustified
  <2>1. PICK c : c = [b EXCEPT !.step = "not_affected", !.then = t]
    OBVIOUS
  <2>2. check' = [check EXCEPT ![i] = c] /\ UNCHANGED <<family, state, nvr, mark, verdict, checkFaults>>
    BY <1>1, <1>4, <1>12, <2>1 DEF OnlyCheck
  <2>3. c \in TrackerCheck /\ c.step = "not_affected" /\ c.spared = b.spared /\ c.then = t
    BY <2>1 DEF TrackerCheck
  <2>4. Established(i, c)
    BY <1>2, <1>4, <1>12, <2>3 DEF Established
  <2>5. checkFaults' = 0 => Blocking(i) = {}
    BY <1>2, <1>12, <2>2 DEF Unrivalled, Passed
  <2> QED
    BY <1>12, <2>2, <2>3, <2>4, <2>5, SearchKeeps DEF Passed
<1>13. CASE CheckShipped(i)
  <2>1. check[i].step = "shipped" /\ check[i].step \in Passed
    BY <1>13 DEF CheckShipped, Search, Passed
  <2> QED
    BY <1>11, <1>12, <1>13, <2>1, FailureKeeps DEF CheckShipped
<1>14. CASE CheckApproach(i)
  <2>1. check[i].step = "approach" /\ check[i].step \in Passed
    BY <1>14 DEF CheckApproach, Search, Passed
  <2>2. CASE Approach(i) # "now" /\ OnlyCheck
             /\ check' = [check EXCEPT ![i] = [check[i] EXCEPT !.step = "not_affected", !.then = Approach(i)]]
    <3>1. PICK t \in {"wait", "inherit"} : t = Approach(i)
      BY <2>2, ApproachKnown
    <3> QED
      BY <1>12, <2>1, <2>2, <3>1, ApproachKnown
  <2> QED
    BY <1>11, <1>14, <2>1, <2>2, FailureKeeps DEF CheckApproach
<1>15. CASE CheckNotAffected(i)
  <2>1. check[i].step = "not_affected" /\ check[i].step \in Passed
    BY <1>15 DEF CheckNotAffected, Search, Passed
  <2>2. CASE NotAffected(i) = {} /\ CheckStep(i, "untriaged")
    <3>1. PICK c : c = [b EXCEPT !.step = "untriaged"]
      OBVIOUS
    <3>2. check' = [check EXCEPT ![i] = c] /\ UNCHANGED <<family, state, nvr, mark, verdict, checkFaults>>
      BY <1>1, <1>4, <2>2, <3>1 DEF CheckStep, OnlyCheck
    <3>3. c \in TrackerCheck /\ c.step = "untriaged" /\ c.spared = b.spared /\ c.then = b.then
      BY <3>1 DEF TrackerCheck
    <3>4. Established(i, c)
      BY <1>2, <1>4, <2>1, <2>2, <3>3 DEF Established
    <3>5. checkFaults' = 0 => Blocking(i) = {}
      BY <1>2, <2>1, <3>2 DEF Unrivalled
    <3> QED
      BY <2>1, <3>2, <3>3, <3>4, <3>5, SearchKeeps DEF Passed
  <2> QED
    BY <1>11, <1>15, <2>1, <2>2, FailureKeeps DEF CheckNotAffected
<1>16. CASE CheckUntriaged(i)
  <2>1. check[i].step = "untriaged" /\ check[i].step \in Passed
    BY <1>16 DEF CheckUntriaged, Search, Passed
  <2>2. CASE Untriaged(i) # {} /\ Answered(i, "wait")
    BY <1>11, <2>1, <2>2
  <2>3. CASE Untriaged(i) = {} /\ Answered(i, check[i].then)
    <3>1. PICK t \in {"wait", "inherit"} : t = check[i].then
      BY <1>2, <2>1 DEF Established
    <3>2. \A u \in Applicable(i) : mark[u] \notin {"none", "progress", "failed"}
      BY <2>3 DEF Untriaged
    <3>3. Justified(i, t)
      BY <1>2, <2>1, <3>1, <3>2 DEF Established, Justified
    <3> QED
      BY <2>1, <2>3, <3>1, <3>3, AnswerKeeps DEF Answered, Verdict
  <2> QED
    BY <1>16, <2>1, <2>2, <2>3, FailureKeeps DEF CheckUntriaged
<1>17. NoCheck \in TrackerCheck /\ NoCheck.step = "idle" /\ Established(i, NoCheck)
  BY DEF NoCheck, TrackerCheck, Established
<1>18. CASE Analyse(i)
  <2>1. PICK m \in {"not_affected", "fixing", "resolved"} : mark' = [mark EXCEPT ![i] = m]
    BY <1>18 DEF Analyse
  <2>2. Moves(i, NoCheck, m, w) /\ checkFaults' = checkFaults /\ check[i].step = "analysis"
    BY <1>3, <1>4, <1>18, <2>1 DEF Analyse, Search, Moves
  <2>3. w = "now" /\ checkFaults' = 0 => Blocking(i) = {}
    BY <1>2, <1>4, <2>2 DEF Unrivalled
  <2>4. mark[i] # "not_affected"
    BY <1>2, <2>2 DEF Taken
  <2> HIDE DEF NoCheck
  <2> QED
    BY <1>5, <1>17, <2>1, <2>2, <2>3, <2>4, MoveKeeps DEF Passed, Mark
<1>19. CASE FixFails(i)
  <2>1. Moves(i, b, "failed", w) /\ mark[i] = "fixing" /\ checkFaults' # 0
    BY <1>1, <1>3, <1>4, <1>6, <1>19 DEF FixFails, SearchFault, Moves
  <2>2. b.step = "idle"
    BY <1>2, <1>4, <2>1 DEF Taken
  <2> QED
    BY <1>2, <1>4, <1>5, <2>1, <2>2, MoveKeeps DEF Mark
<1>20. CASE IsBuilt(i) \/ IsClosed(i)
  <2>1. UNCHANGED <<family, mark, check, verdict, checkFaults>>
    BY <1>20 DEF IsBuilt, IsClosed
  <2>2. \A u \in Tracker : /\ state[u] = "rejected" => state'[u] = "rejected"
                           /\ nvr[u] = "cs" => nvr'[u] = "cs"
    BY <1>20 DEF IsBuilt, IsClosed, CheckInv, CheckTypeOK
  <2>3. ASSUME NEW j \in Tracker
        PROVE  Unrivalled(j, check[j], verdict[j])' /\ Established(j, check[j])'
    <3>1. PICK d, v : d = check[j] /\ v = verdict[j]
      OBVIOUS
    <3>2. Unrivalled(j, d, v) /\ Established(j, d)
      BY <3>1 DEF CheckInv, Unrivalled, Established
    <3>3. Unrivalled(j, d, v)' /\ Established(j, d)'
      BY <2>1, <2>2, <3>2, FoundStays DEF Unrivalled
    <3> QED
      BY <2>1, <3>1, <3>3 DEF Unrivalled, Established
  <2>4. state' \in [Tracker -> TrackerState] /\ nvr' \in [Tracker -> TrackerBuild]
    BY <1>20 DEF IsBuilt, IsClosed, CheckInv, CheckTypeOK, TrackerBuild
  <2>5. CheckTypeOK'
    BY <2>1, <2>4 DEF CheckInv, CheckTypeOK
  <2>6. \A j \in Tracker : Taken(j)'
    BY <2>1 DEF CheckInv, Taken
  <2>7. AllJustified
    BY <2>1 DEF AllJustified, Justified
  <2> QED
    BY <2>3, <2>5, <2>6, <2>7 DEF CheckInv
<1> QED
  BY <1>7, <1>8, <1>10, <1>13, <1>14, <1>15, <1>16, <1>18, <1>19, <1>20 DEF Ask

(***************************************************************************)
(* Whatever happens to the other trackers between the searches of a check, *)
(* a Y-stream inherits only what a Z-stream clone has in CentOS Stream,    *)
(* and of two trackers of one target one is worked on, for any family.     *)
(***************************************************************************)
THEOREM TrackersSafety == ServicesSpec => TrackersSound
<1>1. ServicesInit => CheckInv
  BY DEF ServicesInit, TrackersInit, CheckInv, CheckTypeOK, NoCheck, TrackerCheck, Mark, Verdict, TrackerState,
         TrackerBuild, Taken, Unrivalled, Established, Passed
<1>2. ASSUME CheckInv, [ServicesNext]_servicesVars PROVE CheckInv' /\ AllJustified
  <2>1. TrackersNext \/ UNCHANGED trackerVars
    BY <1>2 DEF ServicesNext, servicesVars
  <2>2. CASE UNCHANGED trackerVars
    <3>1. UNCHANGED <<family, state, nvr, mark, check, verdict, checkFaults>>
      BY <2>2 DEF trackerVars
    <3>2. AllJustified
      BY <3>1 DEF AllJustified, Justified
    <3>3. CheckInv'
      BY <1>2, <3>1 DEF CheckInv, CheckTypeOK, Taken, Unrivalled, Established, Blocking, Older, NotAffected, Applicable,
                        Wanted, Clones, About
    <3> QED
      BY <3>2, <3>3
  <2>3. CASE TrackersNext
    BY <1>2, <2>3, TrackerKeeps DEF TrackersNext
  <2> QED
    BY <2>1, <2>2, <2>3
<1>3. CheckInv /\ [ServicesNext]_servicesVars => CheckInv'
  BY <1>2
<1>4. CheckInv /\ [ServicesNext]_servicesVars =>
        [\A i \in Tracker : verdict'[i] = "inherit" /\ verdict[i] # "inherit" =>
          /\ \E u \in Wanted(i, {"current", "upcoming"}) : nvr[u] = "cs"
          /\ \A u \in Applicable(i) : mark[u] \notin {"none", "progress", "failed"}
          /\ ~check[i].spared]_trackerVars
  BY <1>2 DEF AllJustified, Justified
<1>5. CheckInv => OneOfTwins
  BY DEF CheckInv, Unrivalled, OneOfTwins, Blocking
<1> QED
  BY <1>1, <1>3, <1>4, <1>5, PTL DEF ServicesSpec, TrackersSound, InheritanceJustified

-----------------------------------------------------------------------------
(* Clean-up of merge requests. *)

(* What the variables of the job may be. *)
JobState == [pc : {"idle", "read_open", "stale", "note", "close", "label", "list_closed", "read_closed", "rejected", "keys"},
             listed : SUBSET MR, read : SUBSET MR, cleaned : SUBSET MR, closed : SUBSET NamedIssue,
             labels : SUBSET NamedIssue, skip : SUBSET NamedIssue, unread : SUBSET MR, cur : SUBSET MR,
             keys : SUBSET NamedIssue, ok : BOOLEAN]
CleanupTypeOK ==
    /\ mr \in [MR -> MRState] /\ job \in JobState
    /\ done \subseteq NamedIssue /\ tagged \subseteq NamedIssue /\ shipped \subseteq NamedIssue
    /\ cleanup \in [faults : Nat, reopened : Nat, touched : SUBSET MR]

(* The job's first phase, from its listing on, and its second, from the       *)
(* listing of merged ones on.                                                 *)
Handling    == {"note", "close", "label"}
FirstPhase  == {"read_open", "stale"} \cup Handling
SecondPhase == {"list_closed", "read_closed", "rejected", "keys"}

(* Without a failure every merge request with the job's note has its label,   *)
(* but for the one in its hands, and is left alone by later jobs.             *)
Noted ==
    /\ \A m \in MR : mr[m].again => mr[m].noted
    /\ cleanup.faults = 0 =>
         \A m \in MR : mr[m].noted => mr[m].cleaned \/ (job.pc \in {"close", "label"} /\ m \in job.cur)
    /\ cleanup.faults = 0 /\ job.pc \in FirstPhase =>
         \A m \in MR : mr[m].again => m \in cleanup.touched \cup job.cleaned

(* What the job has in its hands. *)
InHand ==
    /\ job.pc \in FirstPhase => job.closed \subseteq done
    /\ job.pc \in Handling =>
         /\ \E m \in MR : job.cur = {m}
         /\ \A m \in job.cur : /\ m \in job.listed \cap job.read /\ m \notin job.cleaned
                               /\ Names[m] # {} /\ Names[m] \subseteq job.closed
    /\ job.pc \in {"close", "label"} => \A m \in job.cur : mr[m].noted
    /\ job.pc = "label" => \A m \in job.cur : mr[m].state = "opened" => m \in cleanup.touched

(* The issues of an open or merged one are not to be labelled, unless it      *)
(* changed under the job or could not be read.                                *)
Active(m) == Names[m] \subseteq job.skip
Excused   == cleanup.touched \cup job.unread
OpenSpared ==
    /\ job.pc = "read_open" => job.unread = {}
    /\ job.pc \in {"stale"} \cup Handling => job.listed \subseteq job.read \cup job.unread
    /\ job.pc \in FirstPhase =>
         \A m \in MR \ Excused : mr[m].state = "opened" => m \in job.listed \/ Active(m)
ActiveSpared ==
    /\ job.pc \in SecondPhase =>
         \A m \in MR \ Excused : mr[m].state \in {"opened", "merged"} => Active(m)
    /\ job.pc = "keys" => job.keys \cap job.skip = {}

CleanupInv == CleanupTypeOK /\ Noted /\ InHand /\ OpenSpared /\ ActiveSpared

(* An own merge request changes, the others stay. *)
LEMMA OneMR ==
    ASSUME CleanupTypeOK, NEW m \in MR, NEW f \in MRState, SetMR(m, f)
    PROVE  mr' \in [MR -> MRState] /\ mr'[m] = f /\ \A x \in MR \ {m} : mr'[x] = mr[x]
BY DEF CleanupTypeOK, SetMR

(* A failure is counted. *)
LEMMA OneFault ==
    ASSUME CleanupTypeOK, CleanupFault
    PROVE  /\ cleanup' \in [faults : Nat, reopened : Nat, touched : SUBSET MR]
           /\ cleanup'.faults # 0 /\ cleanup'.touched = cleanup.touched
<1>1. PICK c \in [faults : Nat, reopened : Nat, touched : SUBSET MR] : c = cleanup
  BY DEF CleanupTypeOK
<1>2. PICK n : n = c.faults + 1
  OBVIOUS
<1>3. n \in Nat /\ n # 0
  BY <1>2
<1>4. cleanup' = [c EXCEPT !.faults = n]
  BY <1>1, <1>2 DEF CleanupFault
<1> QED
  BY <1>1, <1>3, <1>4

(* What people do to a merge request while a job runs excuses the job. *)
LEMMA TouchKeeps ==
    ASSUME CleanupInv, NEW m \in MR, NEW f \in MRState, NEW from \in {"absent", "opened", "closed"}, Touch(m, from, f),
           f.noted = mr[m].noted, f.cleaned = mr[m].cleaned,
           f.again => mr[m].again \/ mr[m].noted,
           shipped' \subseteq NamedIssue
    PROVE  CleanupInv'
<1>1. mr' \in [MR -> MRState] /\ mr'[m] = f /\ \A x \in MR \ {m} : mr'[x] = mr[x]
  BY OneMR DEF Touch, CleanupInv
<1>2. UNCHANGED <<done, tagged, job>>
  BY DEF Touch
<1>3. /\ cleanup' \in [faults : Nat, reopened : Nat, touched : SUBSET MR] /\ cleanup'.faults = cleanup.faults
      /\ cleanup'.touched = IF job.pc = "idle" THEN cleanup.touched ELSE cleanup.touched \cup {m}
  <2>1. PICK c \in [faults : Nat, reopened : Nat, touched : SUBSET MR] : c = cleanup
    BY DEF CleanupInv, CleanupTypeOK
  <2>2. PICK t, r : /\ t = IF job.pc = "idle" THEN c.touched ELSE c.touched \cup {m}
                    /\ r = IF from = "closed" THEN c.reopened + 1 ELSE c.reopened
    OBVIOUS
  <2>3. t \in SUBSET MR /\ r \in Nat
    BY <2>2
  <2>4. cleanup' = [c EXCEPT !.touched = t, !.reopened = r]
    BY <2>1, <2>2 DEF Touch, JobAt
  <2> QED
    BY <2>1, <2>2, <2>3, <2>4
<1>4. CleanupTypeOK'
  BY <1>1, <1>2, <1>3 DEF CleanupInv, CleanupTypeOK
<1>5. \A x \in MR : /\ mr'[x].noted = mr[x].noted /\ mr'[x].cleaned = mr[x].cleaned
                    /\ mr'[x].again => mr[x].again \/ (x = m /\ mr[x].noted)
                    /\ x # m => mr'[x] = mr[x]
  BY <1>1
<1>6. Noted'
  BY <1>2, <1>3, <1>5 DEF CleanupInv, Noted, FirstPhase, Handling
<1>7. InHand'
  BY <1>2, <1>3, <1>5 DEF CleanupInv, InHand, FirstPhase, Handling
<1>8. OpenSpared'
  BY <1>2, <1>3, <1>5 DEF CleanupInv, OpenSpared, FirstPhase, Handling, Excused, Active
<1>9. ActiveSpared'
  BY <1>2, <1>3, <1>5 DEF CleanupInv, ActiveSpared, SecondPhase, Excused, Active
<1> QED
  BY <1>4, <1>6, <1>7, <1>8, <1>9 DEF CleanupInv

(* What people do. *)
LEMMA PeopleKeep ==
    ASSUME CleanupInv, CleanupPeople
    PROVE  CleanupInv' /\ UNCHANGED <<job, tagged>>
<1>1. ASSUME NEW m \in MR, MROpened(m) \/ MRRejected(m) \/ MRMerged(m) \/ MRReopened(m)
      PROVE  CleanupInv' /\ UNCHANGED <<job, tagged>>
  <2>1. PICK b \in MRState : b = mr[m]
    BY DEF CleanupInv, CleanupTypeOK
  <2>2. PICK from \in {"absent", "opened", "closed"}, st \in {"opened", "closed", "merged"}, g \in {b.again, b.again \/ b.noted} :
          Touch(m, from, [b EXCEPT !.state = st, !.again = g])
    <3>1. b.again \in BOOLEAN /\ b.noted \in BOOLEAN
      BY DEF MRState
    <3>2. \A st : [b EXCEPT !.state = st] = [b EXCEPT !.state = st, !.again = b.again]
      BY DEF MRState
    <3>3. CASE MROpened(m)
      BY <2>1, <3>2, <3>3 DEF MROpened
    <3>4. CASE MRRejected(m)
      BY <2>1, <3>2, <3>4 DEF MRRejected
    <3>5. CASE MRMerged(m)
      BY <2>1, <3>2, <3>5 DEF MRMerged
    <3>6. CASE MRReopened(m)
      BY <2>1, <3>6 DEF MRReopened
    <3> QED
      BY <1>1, <3>3, <3>4, <3>5, <3>6
  <2>3. PICK f : f = [b EXCEPT !.state = st, !.again = g]
    OBVIOUS
  <2>4. f \in MRState /\ f.noted = b.noted /\ f.cleaned = b.cleaned /\ (f.again => b.again \/ b.noted)
    <3>1. g \in BOOLEAN /\ (g => b.again \/ b.noted)
      BY <2>2 DEF MRState
    <3> QED
      BY <2>3, <3>1 DEF MRState
  <2>5. shipped' \subseteq NamedIssue
    <3>1. Names[m] \subseteq NamedIssue
      BY DEF NamedIssue
    <3> QED
      BY <1>1, <3>1 DEF MROpened, MRRejected, MRMerged, MRReopened, CleanupInv, CleanupTypeOK
  <2>6. Touch(m, from, f)
    BY <2>2, <2>3
  <2> QED
    BY <2>1, <2>4, <2>5, <2>6, TouchKeeps DEF Touch
<1>2. ASSUME NEW i \in NamedIssue, IssueClosed(i)
      PROVE  CleanupInv' /\ UNCHANGED <<job, tagged>>
  <2>1. done' = done \cup {i} /\ UNCHANGED <<mr, tagged, shipped, job, cleanup>>
    BY <1>2 DEF IssueClosed
  <2> QED
    BY <2>1 DEF CleanupInv, CleanupTypeOK, Noted, InHand, OpenSpared, ActiveSpared, Excused, Active
<1> QED
  BY <1>1, <1>2 DEF CleanupPeople

(* No job runs. *)
LEMMA IdleKeeps ==
    ASSUME CleanupInv, job' = NoJob, job.pc \notin {"close", "label"} \/ cleanup'.faults # 0,
           UNCHANGED <<mr, done, tagged, shipped>>,
           UNCHANGED cleanup \/ CleanupFault
    PROVE  CleanupInv'
<1>1. NoJob \in JobState /\ NoJob.pc = "idle"
  BY DEF NoJob, JobState
<1>2. /\ cleanup' \in [faults : Nat, reopened : Nat, touched : SUBSET MR] /\ cleanup'.touched = cleanup.touched
      /\ cleanup'.faults = cleanup.faults \/ cleanup'.faults # 0
  BY OneFault DEF CleanupInv, CleanupTypeOK
<1> HIDE DEF NoJob
<1>3. CleanupTypeOK'
  BY <1>1, <1>2 DEF CleanupInv, CleanupTypeOK
<1> QED
  BY <1>1, <1>2, <1>3 DEF CleanupInv, Noted, InHand, OpenSpared, ActiveSpared, FirstPhase, Handling, SecondPhase

(* The job leaves a merge request alone. *)
LEMMA LeaveKeeps ==
    ASSUME CleanupInv, NEW m \in MR, job' = Leave(m), UNCHANGED <<done, tagged, shipped>>,
           \/ job.pc = "stale" /\ cleanup' = cleanup
           \/ job.pc \in Handling /\ m \in job.cur /\ CleanupFault,
           m \in job.listed,
           mr' \in [MR -> MRState], \A x \in MR : /\ mr'[x].again = mr[x].again /\ mr'[x].noted = mr[x].noted
                                                  /\ mr'[x].cleaned = mr[x].cleaned
                                                  /\ mr'[x].state = "opened" => mr[x].state = "opened"
    PROVE  CleanupInv'
<1>1. PICK j \in JobState : j = job
  BY DEF CleanupInv, CleanupTypeOK
<1>2. PICK s \in SUBSET NamedIssue : s = IF m \in j.read THEN j.skip \cup Names[m] ELSE j.skip
  BY DEF NamedIssue, JobState
<1>3. PICK l \in SUBSET MR : l = j.listed \ {m}
  BY DEF JobState
<1>4. /\ job' \in JobState /\ job'.pc = "stale" /\ job'.listed = j.listed \ {m} /\ job'.cur = {} /\ job'.skip = s
      /\ job'.read = j.read /\ job'.cleaned = j.cleaned /\ job'.closed = j.closed /\ job'.unread = j.unread
  <2>1. PICK n : n = [j EXCEPT !.pc = "stale", !.listed = l, !.cur = {}, !.skip = s]
    OBVIOUS
  <2>2. job' = n
    BY <1>1, <1>2, <1>3, <2>1 DEF Leave
  <2>3. n \in JobState
    BY <2>1 DEF JobState
  <2>4. /\ n.pc = "stale" /\ n.listed = l /\ n.cur = {} /\ n.skip = s
        /\ n.read = j.read /\ n.cleaned = j.cleaned /\ n.closed = j.closed /\ n.unread = j.unread
    BY <2>1 DEF JobState
  <2> QED
    BY <1>3, <2>2, <2>3, <2>4
<1>5. /\ cleanup' \in [faults : Nat, reopened : Nat, touched : SUBSET MR] /\ cleanup'.touched = cleanup.touched
      /\ cleanup'.faults = cleanup.faults \/ cleanup'.faults # 0
      /\ job.pc \in Handling => cleanup'.faults # 0
  BY OneFault DEF CleanupInv, CleanupTypeOK, Handling
<1>6. CleanupTypeOK'
  BY <1>4, <1>5 DEF CleanupInv, CleanupTypeOK
<1>7. Noted'
  BY <1>1, <1>4, <1>5 DEF CleanupInv, Noted, FirstPhase, Handling
<1>8. InHand'
  BY <1>1, <1>4, <1>5 DEF CleanupInv, InHand, FirstPhase, Handling
<1>9. OpenSpared'
  BY <1>1, <1>2, <1>4, <1>5 DEF CleanupInv, OpenSpared, FirstPhase, Handling, Excused, Active
<1>10. ActiveSpared'
  BY <1>4 DEF ActiveSpared, SecondPhase
<1> QED
  BY <1>6, <1>7, <1>8, <1>9, <1>10 DEF CleanupInv

(* The job works on, without a change of the merge requests or with one of    *)
(* the one in its hands.                                                      *)
LEMMA FirstKeeps ==
    ASSUME CleanupInv,
           ListOpen \/ ReadOpen \/ \E m \in MR : ProcessMR(m) \/ PostNote(m) \/ CloseMR(m) \/ LabelCleaned(m)
    PROVE  CleanupInv'
<1>1. PICK j \in JobState : j = job
  BY DEF CleanupInv, CleanupTypeOK
<1>2. cleanup' = cleanup \/ CleanupFault =>
        /\ cleanup' \in [faults : Nat, reopened : Nat, touched : SUBSET MR] /\ cleanup'.touched = cleanup.touched
        /\ cleanup'.faults = cleanup.faults \/ cleanup'.faults # 0
  BY OneFault DEF CleanupInv, CleanupTypeOK
<1>3. CASE ListOpen
  <2>1. PICK l \in SUBSET MR, c \in SUBSET MR : l = MRsIn("opened") /\ c = {m \in MR : mr[m].cleaned}
    BY DEF MRsIn
  <2>2. PICK n : n = [NoJob EXCEPT !.pc = "read_open", !.listed = l, !.cleaned = c]
    OBVIOUS
  <2>3. job' = n /\ UNCHANGED <<mr, done, tagged, shipped, cleanup>> /\ job.pc = "idle"
    BY <1>3, <2>1, <2>2 DEF ListOpen, JobOnly, JobAt
  <2>4. /\ n \in JobState /\ n.pc = "read_open" /\ n.listed = l /\ n.cleaned = c
        /\ n.closed = {} /\ n.unread = {}
    BY <2>2 DEF NoJob, JobState
  <2>5. CleanupTypeOK' /\ InHand'
    BY <2>3, <2>4 DEF CleanupInv, CleanupTypeOK, InHand, Handling
  <2>6. Noted'
    BY <2>1, <2>3, <2>4 DEF CleanupInv, Noted, FirstPhase, Handling
  <2>7. OpenSpared' /\ ActiveSpared'
    BY <2>1, <2>3, <2>4 DEF MRsIn, OpenSpared, ActiveSpared, FirstPhase, SecondPhase, Handling, Excused
  <2> QED
    BY <2>5, <2>6, <2>7 DEF CleanupInv
<1>4. CASE ReadOpen
  <2>1. PICK read \in SUBSET j.listed, cl \in {done, j.closed}, u \in SUBSET MR :
          /\ job' = [j EXCEPT !.pc = "stale", !.read = read, !.closed = cl, !.unread = u]
          /\ j.listed \subseteq read \cup u /\ j.unread \subseteq u
          /\ UNCHANGED <<mr, done, tagged, shipped>> /\ (cleanup' = cleanup \/ CleanupFault) /\ j.pc = "read_open"
    <3>1. PICK read \in SUBSET j.listed :
             \/ /\ Readable(j.listed, read)
                /\ job' = [j EXCEPT !.pc = "stale", !.read = read, !.closed = done, !.unread = j.listed \ read]
             \/ read = j.listed /\ CleanupFault /\ job' = [j EXCEPT !.pc = "stale", !.read = read]
      BY <1>1, <1>4 DEF ReadOpen
    <3>2. UNCHANGED <<mr, done, tagged, shipped>> /\ j.pc = "read_open" /\ j.unread = {} /\ j.listed \subseteq MR
      BY <1>1, <1>4 DEF ReadOpen, JobAt, CleanupInv, OpenSpared, JobState
    <3>3. CASE /\ Readable(j.listed, read)
               /\ job' = [j EXCEPT !.pc = "stale", !.read = read, !.closed = done, !.unread = j.listed \ read]
      <4>1. j.listed \ read \in SUBSET MR /\ j.listed \subseteq read \cup (j.listed \ read)
            /\ j.unread \subseteq j.listed \ read
        BY <3>2
      <4>2. cleanup' = cleanup \/ CleanupFault
        BY <3>3 DEF Readable
      <4> QED
        BY <3>2, <3>3, <4>1, <4>2
    <3>4. CASE read = j.listed /\ CleanupFault /\ job' = [j EXCEPT !.pc = "stale", !.read = read]
      <4>1. [j EXCEPT !.pc = "stale", !.read = read] =
              [j EXCEPT !.pc = "stale", !.read = read, !.closed = j.closed, !.unread = j.unread]
        BY DEF JobState
      <4> QED
        BY <3>2, <3>4, <4>1
    <3> QED
      BY <3>1, <3>3, <3>4
  <2>2. cl \subseteq done /\ cl \subseteq NamedIssue
    BY <1>1, <2>1 DEF CleanupInv, CleanupTypeOK, InHand, FirstPhase
  <2>3. PICK k \in SUBSET NamedIssue : k = cl
    BY <2>2
  <2>4. PICK n : n = [j EXCEPT !.pc = "stale", !.read = read, !.closed = k, !.unread = u]
    OBVIOUS
  <2>5. job' = n
    BY <2>1, <2>3, <2>4
  <2>6. n \in JobState
    BY <2>1, <2>3, <2>4 DEF JobState
  <2>7. /\ n.pc = "stale" /\ n.read = read /\ n.closed = cl /\ n.unread = u
        /\ n.listed = j.listed /\ n.cleaned = j.cleaned /\ n.skip = j.skip
    BY <2>3, <2>4 DEF JobState
  <2>8. CleanupTypeOK'
    BY <1>2, <2>1, <2>5, <2>6 DEF CleanupInv, CleanupTypeOK
  <2>9. InHand'
    BY <2>1, <2>2, <2>5, <2>7 DEF InHand, Handling
  <2>10. Noted'
    BY <1>1, <1>2, <2>1, <2>5, <2>7 DEF CleanupInv, Noted, FirstPhase, Handling
  <2>11. OpenSpared' /\ ActiveSpared'
    BY <1>1, <1>2, <2>1, <2>5, <2>7 DEF CleanupInv, OpenSpared, ActiveSpared, FirstPhase, SecondPhase, Handling, Excused, Active
  <2> QED
    BY <2>8, <2>9, <2>10, <2>11 DEF CleanupInv
<1>5. ASSUME NEW m \in MR, ProcessMR(m) PROVE CleanupInv'
  <2>1. CASE Unwanted(m)
    <3>1. PICK n : n = [j EXCEPT !.pc = "note", !.cur = {m}]
      OBVIOUS
    <3>2. job' = n /\ UNCHANGED <<mr, done, tagged, shipped, cleanup>> /\ job.pc = "stale" /\ m \in job.listed
      BY <1>1, <1>5, <2>1, <3>1 DEF ProcessMR, JobOnly, JobAt
    <3>3. /\ n \in JobState /\ n.pc = "note" /\ n.cur = {m} /\ n.listed = j.listed /\ n.read = j.read
          /\ n.cleaned = j.cleaned /\ n.closed = j.closed /\ n.skip = j.skip /\ n.unread = j.unread
      BY <3>1 DEF JobState
    <3>4. CleanupTypeOK' /\ Noted'
      BY <1>1, <3>2, <3>3 DEF CleanupInv, CleanupTypeOK, Noted, FirstPhase, Handling
    <3>5. InHand'
      BY <1>1, <2>1, <3>2, <3>3 DEF CleanupInv, InHand, Unwanted, FirstPhase, Handling
    <3>6. OpenSpared' /\ ActiveSpared'
      BY <1>1, <3>2, <3>3 DEF CleanupInv, OpenSpared, ActiveSpared, FirstPhase, SecondPhase, Handling, Excused, Active
    <3> QED
      BY <3>4, <3>5, <3>6 DEF CleanupInv
  <2>2. CASE ~Unwanted(m)
    <3>1. job' = Leave(m) /\ UNCHANGED <<mr, done, tagged, shipped, cleanup>> /\ job.pc = "stale" /\ m \in job.listed
      BY <1>5, <2>2 DEF ProcessMR, JobOnly, JobAt
    <3> QED
      BY <3>1, LeaveKeeps DEF CleanupInv, CleanupTypeOK
  <2> QED
    BY <2>1, <2>2
<1>6. ASSUME NEW m \in MR, job.pc \in Handling, m \in job.cur
      PROVE  job.cur = {m} /\ m \in job.listed /\ m \in job.read /\ m \notin job.cleaned
  BY <1>6 DEF CleanupInv, InHand
<1>7. ASSUME NEW m \in MR, PostNote(m) PROVE CleanupInv'
  <2>1. job.pc = "note" /\ job.pc \in Handling /\ m \in job.cur /\ UNCHANGED <<done, tagged, shipped>>
    BY <1>7 DEF PostNote, JobAt, Handling
  <2>2. CASE SetMR(m, [mr[m] EXCEPT !.noted = TRUE]) /\ JobGoes("close") /\ UNCHANGED cleanup
    <3> PICK b \in MRState : b = mr[m]
      BY DEF CleanupInv, CleanupTypeOK
    <3>1. PICK f : f = [b EXCEPT !.noted = TRUE] /\ b = mr[m]
      OBVIOUS
    <3>2. f \in MRState /\ f.noted /\ f.cleaned = b.cleaned /\ f.again = b.again /\ f.state = b.state
      BY <3>1 DEF MRState
    <3>3. mr' \in [MR -> MRState] /\ mr'[m] = f /\ \A x \in MR \ {m} : mr'[x] = mr[x]
      BY <2>2, <3>1, <3>2, OneMR DEF CleanupInv
    <3>4. PICK n : n = [j EXCEPT !.pc = "close"]
      OBVIOUS
    <3>5. job' = n
      BY <1>1, <2>2, <3>4 DEF JobGoes
    <3>6. /\ n \in JobState /\ n.pc = "close" /\ n.cur = j.cur /\ n.listed = j.listed /\ n.read = j.read
          /\ n.cleaned = j.cleaned /\ n.closed = j.closed /\ n.skip = j.skip /\ n.unread = j.unread
      BY <3>4 DEF JobState
    <3>7. CleanupTypeOK'
      BY <2>1, <2>2, <3>3, <3>5, <3>6 DEF CleanupInv, CleanupTypeOK
    <3>8. Noted'
      <4>1. \A x \in MR : /\ mr'[x].again = mr[x].again /\ mr'[x].cleaned = mr[x].cleaned
                          /\ mr[x].noted => mr'[x].noted
                          /\ x # m => mr'[x].noted = mr[x].noted
        BY <3>1, <3>2, <3>3
      <4>2. /\ job'.pc = "close" /\ job'.cur = job.cur /\ job'.cleaned = job.cleaned
            /\ cleanup' = cleanup /\ job.pc = "note" /\ m \in job.cur
        BY <1>1, <2>1, <2>2, <3>5, <3>6
      <4>3. Noted
        BY DEF CleanupInv
      <4>4. \A x \in MR : mr'[x].again => mr'[x].noted
        BY ONLY <4>1, <4>3 DEF Noted
      <4>5. ASSUME cleanup.faults = 0, NEW x \in MR, mr'[x].noted
            PROVE  mr'[x].cleaned \/ x \in job.cur
        <5>1. CASE x = m
          BY ONLY <4>2, <5>1
        <5>2. CASE x # m
          BY ONLY <4>1, <4>2, <4>3, <4>5, <5>2 DEF Noted
        <5> QED
          BY <5>1, <5>2
      <4>6. ASSUME cleanup.faults = 0, NEW x \in MR, mr'[x].again
            PROVE  x \in cleanup.touched \cup job.cleaned
        BY ONLY <4>1, <4>2, <4>3, <4>6 DEF Noted, FirstPhase, Handling
      <4> QED
        BY ONLY <4>2, <4>4, <4>5, <4>6 DEF Noted
    <3>9. InHand'
      BY <1>1, <1>6, <2>1, <2>2, <3>2, <3>3, <3>5, <3>6 DEF CleanupInv, InHand, FirstPhase, Handling
    <3>10. \A x \in MR : mr'[x].state = mr[x].state
      BY <3>1, <3>2, <3>3
    <3>11. OpenSpared' /\ ActiveSpared'
      BY <1>1, <2>1, <2>2, <3>5, <3>6, <3>10
         DEF CleanupInv, OpenSpared, ActiveSpared, FirstPhase, SecondPhase, Handling, Excused, Active
    <3> QED
      BY <3>7, <3>8, <3>9, <3>11 DEF CleanupInv
  <2>3. CASE CleanupFault /\ job' = Leave(m) /\ UNCHANGED mr
    BY <1>6, <2>1, <2>3, LeaveKeeps DEF CleanupInv, CleanupTypeOK
  <2> QED
    BY <1>7, <2>2, <2>3 DEF PostNote
<1>8. ASSUME NEW m \in MR, CloseMR(m) PROVE CleanupInv'
  <2>1. job.pc = "close" /\ job.pc \in Handling /\ m \in job.cur /\ UNCHANGED <<done, tagged, shipped>>
    BY <1>8 DEF CloseMR, JobAt, Handling
  <2>2. /\ mr' \in [MR -> MRState]
        /\ \A x \in MR : /\ mr'[x].again = mr[x].again /\ mr'[x].noted = mr[x].noted /\ mr'[x].cleaned = mr[x].cleaned
                         /\ mr'[x].state = "opened" => mr[x].state = "opened"
                         /\ x # m => mr'[x].state = mr[x].state
                         /\ mr'[x].state = "merged" => mr[x].state = "merged"
    <3>1. CASE UNCHANGED mr
      BY <3>1 DEF CleanupInv, CleanupTypeOK
    <3>2. CASE SetMR(m, IF mr[m].state = "opened" THEN [mr[m] EXCEPT !.state = "closed"] ELSE mr[m])
      <4> PICK b \in MRState : b = mr[m]
        BY DEF CleanupInv, CleanupTypeOK
      <4>1. PICK f : b = mr[m] /\ f = IF b.state = "opened" THEN [b EXCEPT !.state = "closed"] ELSE b
        OBVIOUS
      <4>2. /\ f \in MRState /\ f.noted = b.noted /\ f.cleaned = b.cleaned /\ f.again = b.again /\ f.state # "opened"
            /\ f.state = "merged" => b.state = "merged"
        BY <4>1 DEF MRState
      <4>3. mr' \in [MR -> MRState] /\ mr'[m] = f /\ \A x \in MR \ {m} : mr'[x] = mr[x]
        BY <3>2, <4>1, <4>2, OneMR DEF CleanupInv
      <4> QED
        BY <4>1, <4>2, <4>3
    <3> QED
      BY <1>8, <3>1, <3>2 DEF CloseMR
  <2>3. CASE JobGoes("label") /\ mr'[m].state # "opened" /\ UNCHANGED cleanup
    <3>1. PICK n : n = [j EXCEPT !.pc = "label"]
      OBVIOUS
    <3>2. job' = n
      BY <1>1, <2>3, <3>1 DEF JobGoes
    <3>3. /\ n \in JobState /\ n.pc = "label" /\ n.cur = j.cur /\ n.listed = j.listed /\ n.read = j.read
          /\ n.cleaned = j.cleaned /\ n.closed = j.closed /\ n.skip = j.skip /\ n.unread = j.unread
      BY <3>1 DEF JobState
    <3>4. CleanupTypeOK'
      BY <2>1, <2>2, <2>3, <3>2, <3>3 DEF CleanupInv, CleanupTypeOK
    <3>5. Noted'
      BY <1>1, <2>1, <2>2, <2>3, <3>2, <3>3 DEF CleanupInv, Noted, FirstPhase, Handling
    <3>6. InHand'
      BY <1>1, <1>6, <2>1, <2>2, <2>3, <3>2, <3>3 DEF CleanupInv, InHand, FirstPhase, Handling
    <3>7. OpenSpared' /\ ActiveSpared'
      BY <1>1, <2>1, <2>2, <2>3, <3>2, <3>3
         DEF CleanupInv, OpenSpared, ActiveSpared, FirstPhase, SecondPhase, Handling, Excused, Active
    <3> QED
      BY <3>4, <3>5, <3>6, <3>7 DEF CleanupInv
  <2>4. CASE CleanupFault /\ job' = Leave(m)
    BY <1>6, <2>1, <2>2, <2>4, LeaveKeeps
  <2> QED
    BY <1>8, <2>3, <2>4 DEF CloseMR
<1>9. ASSUME NEW m \in MR, LabelCleaned(m) PROVE CleanupInv'
  <2>1. job.pc = "label" /\ job.pc \in Handling /\ m \in job.cur /\ UNCHANGED <<done, tagged, shipped>>
    BY <1>9 DEF LabelCleaned, JobAt, Handling
  <2>2. CASE /\ SetMR(m, [mr[m] EXCEPT !.cleaned = TRUE]) /\ UNCHANGED cleanup
             /\ job' = [job EXCEPT !.pc = "stale", !.listed = job.listed \ {m}, !.cur = {}]
    <3> PICK b \in MRState : b = mr[m]
      BY DEF CleanupInv, CleanupTypeOK
    <3>1. PICK f : f = [b EXCEPT !.cleaned = TRUE] /\ b = mr[m]
      OBVIOUS
    <3>2. f \in MRState /\ f.noted = b.noted /\ f.cleaned /\ f.again = b.again /\ f.state = b.state
      BY <3>1 DEF MRState
    <3>3. mr' \in [MR -> MRState] /\ mr'[m] = f /\ \A x \in MR \ {m} : mr'[x] = mr[x]
      BY <2>2, <3>1, <3>2, OneMR DEF CleanupInv
    <3> PICK l \in SUBSET MR : l = j.listed \ {m}
      BY DEF JobState
    <3>4. PICK n : l = j.listed \ {m} /\ n = [j EXCEPT !.pc = "stale", !.listed = l, !.cur = {}]
      OBVIOUS
    <3>5. job' = n
      BY <1>1, <2>2, <3>4
    <3>6. /\ n \in JobState /\ n.pc = "stale" /\ n.cur = {} /\ n.listed = l /\ n.read = j.read
          /\ n.cleaned = j.cleaned /\ n.closed = j.closed /\ n.skip = j.skip /\ n.unread = j.unread
      BY <3>4 DEF JobState
    <3>7. CleanupTypeOK'
      BY <2>1, <2>2, <3>3, <3>5, <3>6 DEF CleanupInv, CleanupTypeOK
    <3>8. \A x \in MR : /\ mr'[x].state = mr[x].state /\ mr'[x].again = mr[x].again /\ mr'[x].noted = mr[x].noted
                         /\ mr'[x].cleaned \in BOOLEAN /\ (mr[x].cleaned \/ x = m => mr'[x].cleaned)
      BY <3>1, <3>2, <3>3 DEF MRState
    <3>9. Noted'
      BY <1>1, <1>6, <2>1, <2>2, <3>5, <3>6, <3>8 DEF CleanupInv, Noted, FirstPhase, Handling
    <3>10. InHand'
      BY <1>1, <2>1, <2>2, <3>5, <3>6 DEF CleanupInv, InHand, FirstPhase, Handling
    <3>11. OpenSpared'
      BY <1>1, <2>1, <2>2, <3>4, <3>5, <3>6, <3>8
         DEF CleanupInv, InHand, OpenSpared, FirstPhase, Handling, Excused, Active
    <3>12. ActiveSpared'
      BY <3>5, <3>6 DEF ActiveSpared, SecondPhase
    <3> QED
      BY <3>7, <3>9, <3>10, <3>11, <3>12 DEF CleanupInv
  <2>3. CASE CleanupFault /\ job' = Leave(m) /\ UNCHANGED mr
    BY <1>6, <2>1, <2>3, LeaveKeeps DEF CleanupInv, CleanupTypeOK
  <2> QED
    BY <1>9, <2>2, <2>3 DEF LabelCleaned
<1> QED
  BY <1>3, <1>4, <1>5, <1>7, <1>8, <1>9

(* The second phase leaves the merge requests as they are, but for labels. *)
LEMMA SecondStep ==
    ASSUME CleanupInv, NEW n \in JobState, job' = n, n.pc \in SecondPhase, job.pc \notin {"close", "label"},
           UNCHANGED <<done, shipped>>, tagged' \subseteq NamedIssue, cleanup' = cleanup \/ CleanupFault,
           mr' \in [MR -> MRState],
           \A x \in MR : /\ mr'[x].state = mr[x].state /\ mr'[x].again = mr[x].again
                         /\ mr'[x].noted = mr[x].noted /\ mr'[x].cleaned = mr[x].cleaned,
           \A m \in MR \ (cleanup.touched \cup n.unread) : mr[m].state \in {"opened", "merged"} => Names[m] \subseteq n.skip,
           n.pc = "keys" => n.keys \cap n.skip = {}
    PROVE  CleanupInv'
<1>1. /\ cleanup' \in [faults : Nat, reopened : Nat, touched : SUBSET MR] /\ cleanup'.touched = cleanup.touched
      /\ cleanup'.faults = cleanup.faults \/ cleanup'.faults # 0
  BY OneFault DEF CleanupInv, CleanupTypeOK
<1>2. CleanupTypeOK'
  BY <1>1 DEF CleanupInv, CleanupTypeOK
<1>3. Noted'
  BY <1>1 DEF CleanupInv, Noted, FirstPhase, SecondPhase, Handling
<1>4. InHand' /\ OpenSpared'
  BY DEF InHand, OpenSpared, FirstPhase, SecondPhase, Handling
<1>5. ActiveSpared'
  BY <1>1 DEF ActiveSpared, Excused, Active
<1> QED
  BY <1>2, <1>3, <1>4, <1>5 DEF CleanupInv

(* The second phase. *)
LEMMA SecondKeeps ==
    ASSUME CleanupInv,
           \/ ListMerged \/ ListClosed \/ ReadClosed
           \/ \E m \in MR : ProcessRejectedMR(m) \/ MarkHandled(m)
           \/ \E i \in NamedIssue : MarkJira(i)
    PROVE  CleanupInv'
<1>1. PICK j \in JobState : j = job
  BY DEF CleanupInv, CleanupTypeOK
<1>2. /\ mr \in [MR -> MRState] /\ done \subseteq NamedIssue /\ tagged \subseteq NamedIssue /\ shipped \subseteq NamedIssue
      /\ j.pc \in SecondPhase =>
           \A m \in MR \ (cleanup.touched \cup j.unread) : mr[m].state \in {"opened", "merged"} => Names[m] \subseteq j.skip
      /\ j.pc = "keys" => j.keys \cap j.skip = {}
      /\ j.skip \subseteq NamedIssue
  BY <1>1 DEF CleanupInv, CleanupTypeOK, ActiveSpared, Excused, Active, JobState
<1>3. CASE ListMerged
  <2>1. PICK read \in SUBSET MRsIn("merged") :
          /\ cleanup' = cleanup \/ CleanupFault
          /\ job' = [job EXCEPT !.pc = "list_closed", !.read = {}, !.closed = {}, !.cleaned = {},
                                !.skip = @ \cup UNION {Names[m] : m \in read},
                                !.unread = @ \cup (MRsIn("merged") \ read)]
    BY <1>3 DEF ListMerged, Readable
  <2>2. job.pc = "stale" /\ job.listed = {} /\ UNCHANGED <<mr, done, tagged, shipped>> /\ MRsIn("merged") \subseteq MR
    BY <1>3 DEF ListMerged, JobAt, MRsIn
  <2>3. PICK s \in SUBSET NamedIssue : s = j.skip \cup UNION {Names[m] : m \in read}
    <3>1. UNION {Names[m] : m \in read} \subseteq NamedIssue
      BY <2>2 DEF NamedIssue
    <3> QED
      BY <1>2, <3>1
  <2>4. PICK u \in SUBSET MR : u = j.unread \cup (MRsIn("merged") \ read)
    BY <2>2 DEF JobState
  <2>5. PICK n : n = [j EXCEPT !.pc = "list_closed", !.read = {}, !.closed = {}, !.cleaned = {}, !.skip = s, !.unread = u]
    OBVIOUS
  <2>6. job' = n
    BY <1>1, <2>1, <2>3, <2>4, <2>5
  <2>7. n \in JobState /\ n.pc = "list_closed" /\ n.skip = s /\ n.unread = u
    BY <2>5 DEF JobState
  <2>8. ASSUME NEW m \in MR \ (cleanup.touched \cup u), mr[m].state \in {"opened", "merged"} PROVE Names[m] \subseteq s
    <3>1. CASE mr[m].state = "merged"
      <4>1. m \in read
        BY <2>4, <2>8, <3>1 DEF MRsIn
      <4> QED
        BY <2>3, <4>1
    <3>2. CASE mr[m].state = "opened"
      <4>1. Names[m] \subseteq j.skip
        BY <1>1, <2>2, <2>4, <2>8, <3>2 DEF CleanupInv, OpenSpared, FirstPhase, Excused, Active
      <4> QED
        BY <2>3, <4>1
    <3> QED
      BY <2>8, <3>1, <3>2
  <2> QED
    BY <1>2, <2>1, <2>2, <2>6, <2>7, <2>8, SecondStep DEF SecondPhase
<1>4. CASE ListClosed
  <2>1. PICK l \in SUBSET MR : l = {m \in MRsIn("closed") : ~mr[m].handled}
    BY DEF MRsIn
  <2>2. PICK n : n = [j EXCEPT !.pc = "read_closed", !.listed = l]
    OBVIOUS
  <2>3. job' = n /\ UNCHANGED <<mr, done, tagged, shipped, cleanup>> /\ job.pc = "list_closed"
    BY <1>1, <1>4, <2>1, <2>2 DEF ListClosed, JobOnly, JobAt
  <2>4. n \in JobState /\ n.pc = "read_closed" /\ n.skip = j.skip /\ n.unread = j.unread
    BY <2>2 DEF JobState
  <2> QED
    BY <1>1, <1>2, <2>3, <2>4, SecondStep DEF SecondPhase
<1>5. CASE ReadClosed
  <2>1. PICK read \in SUBSET MR, lb \in SUBSET NamedIssue, cl \in SUBSET NamedIssue :
          /\ job' = [j EXCEPT !.pc = "rejected", !.read = read, !.labels = lb, !.closed = cl]
          /\ cleanup' = cleanup \/ CleanupFault
    <3>1. PICK read \in SUBSET MR :
             /\ \/ job' = [j EXCEPT !.pc = "rejected", !.read = read, !.labels = NamedIssue, !.closed = tagged \cup shipped]
                \/ job' = [j EXCEPT !.pc = "rejected", !.read = read, !.labels = {}, !.closed = {}]
             /\ cleanup' = cleanup \/ CleanupFault
      BY <1>1, <1>5 DEF ReadClosed, Readable, JobState
    <3>2. tagged \cup shipped \in SUBSET NamedIssue /\ {} \in SUBSET NamedIssue /\ NamedIssue \in SUBSET NamedIssue
      BY <1>2
    <3> QED
      BY <3>1, <3>2
  <2>2. UNCHANGED <<mr, done, tagged, shipped>> /\ job.pc = "read_closed"
    BY <1>5 DEF ReadClosed, JobAt
  <2>3. PICK n : n = [j EXCEPT !.pc = "rejected", !.read = read, !.labels = lb, !.closed = cl]
    OBVIOUS
  <2>4. n \in JobState /\ n.pc = "rejected" /\ n.skip = j.skip /\ n.unread = j.unread
    BY <2>3 DEF JobState
  <2> QED
    BY <1>1, <1>2, <2>1, <2>2, <2>3, <2>4, SecondStep DEF SecondPhase
<1>6. ASSUME NEW m \in MR, ProcessRejectedMR(m) PROVE CleanupInv'
  <2>1. UNCHANGED <<mr, done, tagged, shipped, cleanup>> /\ job.pc = "rejected"
    BY <1>6 DEF ProcessRejectedMR, JobOnly, JobAt
  <2>2. PICK l \in SUBSET MR : l = j.listed \ {m}
    BY DEF JobState
  <2>3. CASE m \in j.read
    <3>1. PICK ks \in SUBSET NamedIssue, o \in BOOLEAN :
            /\ ks = (Names[m] \ j.skip) \cap (j.labels \ j.closed)
            /\ o = (Names[m] \ j.skip \subseteq j.labels)
      <4>1. (Names[m] \ j.skip) \cap (j.labels \ j.closed) \in SUBSET NamedIssue
        BY DEF JobState
      <4>2. (Names[m] \ j.skip \subseteq j.labels) \in BOOLEAN
        OBVIOUS
      <4> QED
        BY <4>1, <4>2
    <3>2. PICK n : n = [j EXCEPT !.pc = "keys", !.cur = {m}, !.listed = l, !.keys = ks, !.ok = o]
      OBVIOUS
    <3>3. job' = n
      BY <1>1, <1>6, <2>2, <2>3, <3>1, <3>2 DEF ProcessRejectedMR
    <3>4. n \in JobState
      BY <3>2 DEF JobState
    <3>5. n.pc = "keys" /\ n.skip = j.skip /\ n.unread = j.unread /\ n.keys = ks
      BY <3>2 DEF JobState
    <3> QED
      BY <1>1, <1>2, <2>1, <3>1, <3>3, <3>4, <3>5, SecondStep DEF SecondPhase
  <2>4. CASE m \notin j.read
    <3>1. PICK n : n = [j EXCEPT !.listed = l]
      OBVIOUS
    <3>2. job' = n
      BY <1>1, <1>6, <2>2, <2>4, <3>1 DEF ProcessRejectedMR
    <3>3. n \in JobState /\ n.pc = j.pc /\ n.skip = j.skip /\ n.unread = j.unread
      BY <3>1 DEF JobState
    <3> QED
      BY <1>1, <1>2, <2>1, <3>2, <3>3, SecondStep DEF SecondPhase
  <2> QED
    BY <2>3, <2>4
<1>7. ASSUME NEW i \in NamedIssue, MarkJira(i) PROVE CleanupInv'
  <2>1. UNCHANGED <<mr, done, shipped>> /\ job.pc = "keys" /\ i \in job.keys
    BY <1>7 DEF MarkJira, JobAt
  <2>2. PICK ks \in SUBSET NamedIssue : ks = j.keys \ {i}
    BY DEF JobState
  <2>3. PICK s \in SUBSET NamedIssue : s = j.skip \cup {i}
    BY DEF JobState
  <2>4. CASE tagged' = tagged \cup {i} /\ UNCHANGED cleanup /\ job' = [job EXCEPT !.keys = @ \ {i}, !.skip = @ \cup {i}]
    <3>1. PICK n : n = [j EXCEPT !.keys = ks, !.skip = s]
      OBVIOUS
    <3>2. job' = n
      BY <1>1, <2>2, <2>3, <2>4, <3>1
    <3>3. n \in JobState /\ n.pc = j.pc /\ n.skip = s /\ n.unread = j.unread /\ n.keys = ks
      BY <3>1 DEF JobState
    <3>4. /\ n.keys \cap n.skip = {} /\ tagged' \subseteq NamedIssue
          /\ \A m \in MR \ (cleanup.touched \cup n.unread) : mr[m].state \in {"opened", "merged"} => Names[m] \subseteq n.skip
      BY <1>1, <1>2, <2>1, <2>2, <2>3, <2>4, <3>3 DEF SecondPhase
    <3> QED
      BY <1>1, <1>2, <2>1, <2>4, <3>2, <3>3, <3>4, SecondStep DEF SecondPhase
  <2>5. CASE CleanupFault /\ job' = [job EXCEPT !.keys = @ \ {i}, !.ok = FALSE] /\ UNCHANGED tagged
    <3>1. PICK n : n = [j EXCEPT !.keys = ks, !.ok = FALSE]
      OBVIOUS
    <3>2. job' = n
      BY <1>1, <2>2, <2>5, <3>1
    <3>3. n \in JobState /\ n.pc = j.pc /\ n.skip = j.skip /\ n.unread = j.unread /\ n.keys = ks
      BY <3>1 DEF JobState
    <3> QED
      BY <1>1, <1>2, <2>1, <2>2, <2>5, <3>2, <3>3, SecondStep DEF SecondPhase
  <2> QED
    BY <1>7, <2>4, <2>5 DEF MarkJira
<1>8. ASSUME NEW m \in MR, MarkHandled(m) PROVE CleanupInv'
  <2>1. PICK n : n = [j EXCEPT !.pc = "rejected", !.cur = {}]
    OBVIOUS
  <2>2. job' = n /\ UNCHANGED <<done, tagged, shipped>> /\ job.pc = "keys" /\ (cleanup' = cleanup \/ CleanupFault)
    BY <1>1, <1>8, <2>1 DEF MarkHandled, JobAt
  <2>3. n \in JobState /\ n.pc = "rejected" /\ n.skip = j.skip /\ n.unread = j.unread
    BY <2>1 DEF JobState
  <2>4. /\ mr' \in [MR -> MRState]
        /\ \A x \in MR : /\ mr'[x].state = mr[x].state /\ mr'[x].again = mr[x].again
                         /\ mr'[x].noted = mr[x].noted /\ mr'[x].cleaned = mr[x].cleaned
    <3>1. CASE UNCHANGED mr
      BY <1>2, <3>1
    <3>2. CASE SetMR(m, [mr[m] EXCEPT !.handled = TRUE])
      <4>1. PICK b \in MRState : b = mr[m]
        BY <1>2
      <4>2. PICK f : f = [b EXCEPT !.handled = TRUE]
        OBVIOUS
      <4>3. f \in MRState /\ f.noted = b.noted /\ f.cleaned = b.cleaned /\ f.again = b.again /\ f.state = b.state
        BY <4>2 DEF MRState
      <4>4. mr' \in [MR -> MRState] /\ mr'[m] = f /\ \A x \in MR \ {m} : mr'[x] = mr[x]
        BY <3>2, <4>1, <4>2, <4>3, OneMR DEF CleanupInv
      <4> QED
        BY <4>1, <4>3, <4>4
    <3> QED
      BY <1>8, <3>1, <3>2 DEF MarkHandled
  <2> QED
    BY <1>1, <1>2, <2>2, <2>3, <2>4, SecondStep DEF SecondPhase
<1> QED
  BY <1>3, <1>4, <1>5, <1>6, <1>7, <1>8

(* What the job may close and label. *)
Explained ==
    \A m \in MR : job' # job /\ mr'[m].state = "closed" /\ mr[m].state = "opened" =>
        /\ mr[m].noted /\ Names[m] # {} /\ Names[m] \subseteq done
        /\ mr[m].again /\ m \notin cleanup.touched => cleanup.faults > 0
Honest ==
    \A i \in tagged' \ tagged : \A m \in MR :
        i \in Names[m] /\ mr[m].state \in {"opened", "merged"} => m \in cleanup.touched \cup job.unread

(* It only closes the one in its hands. *)
LEMMA Closes ==
    ASSUME CleanupInv, NEW m \in MR, CloseMR(m)
    PROVE  Explained
<1>1. job.pc = "close" /\ m \in job.cur /\ mr \in [MR -> MRState] /\ cleanup.faults \in Nat
  BY DEF CloseMR, JobAt, CleanupInv, CleanupTypeOK
<1>2. \A x \in MR \ {m} : mr'[x] = mr[x]
  BY <1>1 DEF CloseMR, SetMR
<1>3. mr[m].noted /\ Names[m] # {} /\ Names[m] \subseteq done /\ m \notin job.cleaned
  BY <1>1 DEF CleanupInv, InHand, FirstPhase, Handling
<1>4. mr[m].again /\ m \notin cleanup.touched => cleanup.faults > 0
  <2>1. mr[m].again /\ m \notin cleanup.touched => cleanup.faults # 0
    BY <1>1, <1>3 DEF CleanupInv, Noted, FirstPhase, Handling
  <2> QED
    BY <1>1, <2>1
<1> QED
  BY <1>2, <1>3, <1>4 DEF Explained

(* Every step of the clean-up. *)
LEMMA CleanupKeeps ==
    ASSUME CleanupInv, CleanupNext
    PROVE  CleanupInv' /\ Explained /\ Honest
<1>1. mr \in [MR -> MRState]
  BY DEF CleanupInv, CleanupTypeOK
<1>2. UNCHANGED mr => Explained
  BY DEF Explained
<1>3. UNCHANGED tagged => Honest
  BY DEF Honest
<1>4. CASE CleanupPeople
  BY <1>3, <1>4, PeopleKeep DEF Explained
<1>5. CASE ListOpen \/ ReadOpen
  BY <1>2, <1>3, <1>5, FirstKeeps DEF ListOpen, ReadOpen, JobOnly
<1>6. ASSUME NEW m \in MR, ProcessMR(m) PROVE CleanupInv' /\ Explained /\ Honest
  BY <1>2, <1>3, <1>6, FirstKeeps DEF ProcessMR, JobOnly
<1>7. ASSUME NEW m \in MR, CloseMR(m) PROVE CleanupInv' /\ Explained /\ Honest
  BY <1>3, <1>7, FirstKeeps, Closes DEF CloseMR
<1>8. ASSUME NEW m \in MR, PostNote(m) \/ LabelCleaned(m) \/ MarkHandled(m)
      PROVE  CleanupInv' /\ Explained /\ Honest
  <2>1. CleanupInv'
    BY <1>8, FirstKeeps, SecondKeeps
  <2>2. PICK b \in MRState : b = mr[m]
    BY <1>1
  <2>3. PICK f : mr' = [mr EXCEPT ![m] = f] /\ f.state = b.state
    <3>1. CASE UNCHANGED mr
      <4>1. mr' = [mr EXCEPT ![m] = b]
        BY <1>1, <2>2, <3>1
      <4> QED
        BY <4>1
    <3>2. ASSUME NEW f, f \in {[b EXCEPT !.noted = TRUE], [b EXCEPT !.cleaned = TRUE], [b EXCEPT !.handled = TRUE]}
          PROVE  f.state = b.state
      BY <3>2 DEF MRState
    <3>3. CASE UNCHANGED mr \/ \E f \in {[b EXCEPT !.noted = TRUE], [b EXCEPT !.cleaned = TRUE], [b EXCEPT !.handled = TRUE]} :
                                 mr' = [mr EXCEPT ![m] = f]
      BY <3>1, <3>2, <3>3
    <3> QED
      BY <1>8, <2>2, <3>3 DEF PostNote, LabelCleaned, MarkHandled, SetMR
  <2>4. \A x \in MR : mr'[x].state = mr[x].state
    BY <1>1, <2>2, <2>3
  <2>5. Explained
    BY <2>4 DEF Explained
  <2>6. UNCHANGED tagged
    BY <1>8 DEF PostNote, LabelCleaned, MarkHandled
  <2> QED
    BY <1>3, <2>1, <2>5, <2>6
<1>9. CASE ListMerged \/ ListClosed \/ ReadClosed
  BY <1>2, <1>3, <1>9, SecondKeeps DEF ListMerged, ListClosed, ReadClosed, JobOnly
<1>10. ASSUME NEW m \in MR, ProcessRejectedMR(m) PROVE CleanupInv' /\ Explained /\ Honest
  BY <1>2, <1>3, <1>10, SecondKeeps DEF ProcessRejectedMR, JobOnly
<1>11. ASSUME NEW i \in NamedIssue, MarkJira(i) PROVE CleanupInv' /\ Explained /\ Honest
  <2>1. Honest
    <3>1. tagged' \ tagged \subseteq {i} /\ i \in job.keys /\ job.pc = "keys"
      BY <1>11 DEF MarkJira, JobAt
    <3> QED
      BY <3>1 DEF Honest, CleanupInv, ActiveSpared, SecondPhase, Excused, Active
  <2> QED
    BY <1>2, <1>11, <2>1, SecondKeeps DEF MarkJira
<1>12. CASE JobEnds \/ JobDies
  <2>1. job' = NoJob /\ UNCHANGED <<mr, done, tagged, shipped>>
    BY <1>12 DEF JobEnds, JobDies, JobOnly
  <2>2. CleanupInv'
    BY <1>12, <2>1, IdleKeeps, OneFault DEF JobEnds, JobDies, JobOnly, JobAt, CleanupInv
  <2> QED
    BY <1>2, <1>3, <2>1, <2>2
<1> QED
  BY <1>4, <1>5, <1>6, <1>7, <1>8, <1>9, <1>10, <1>11, <1>12 DEF CleanupNext, CleanupStep

(***************************************************************************)
(* However calls fail, the job is killed and people go on meanwhile, the   *)
(* clean-up closes only what nobody waits for, leaves alone what was       *)
(* reopened, and labels no issue that an open or merged merge request      *)
(* names, for any merge requests, issues and numbers of failures.          *)
(***************************************************************************)
THEOREM CleanupSafety == ServicesSpec => CleanupHonest
<1>1. ServicesInit => CleanupInv
  <2> SUFFICES ASSUME CleanupInit PROVE CleanupInv
    BY DEF ServicesInit
  <2>1. NoJob \in JobState /\ NoJob.pc = "idle"
    BY DEF NoJob, JobState
  <2>2. job = NoJob
    BY DEF CleanupInit
  <2>3. \A m \in MR : mr[m].state = "absent" /\ mr[m].again = FALSE /\ mr[m].noted = FALSE
    BY DEF CleanupInit
  <2>4. mr \in [MR -> MRState] /\ done = {} /\ tagged = {} /\ shipped = {}
    BY DEF CleanupInit, MRState
  <2>5. cleanup \in [faults : Nat, reopened : Nat, touched : SUBSET MR]
    BY DEF CleanupInit
  <2> HIDE DEF NoJob
  <2>6. CleanupTypeOK
    BY <2>1, <2>2, <2>4, <2>5 DEF CleanupTypeOK
  <2> QED
    BY <2>1, <2>2, <2>3, <2>6
       DEF CleanupInv, Noted, InHand, OpenSpared, ActiveSpared, FirstPhase, SecondPhase, Handling
<1>2. ASSUME CleanupInv, [ServicesNext]_servicesVars PROVE CleanupInv' /\ (UNCHANGED cleanupVars \/ (Explained /\ Honest))
  <2>1. CleanupNext \/ UNCHANGED cleanupVars
    BY <1>2 DEF ServicesNext, servicesVars
  <2>2. CASE UNCHANGED cleanupVars
    <3>1. UNCHANGED <<mr, done, tagged, shipped, job, cleanup>>
      BY <2>2 DEF cleanupVars
    <3>2. CleanupTypeOK'
      BY <1>2, <3>1 DEF CleanupInv, CleanupTypeOK
    <3>3. Noted' /\ InHand'
      BY <1>2, <3>1 DEF CleanupInv, Noted, InHand
    <3>4. OpenSpared' /\ ActiveSpared'
      BY <1>2, <3>1 DEF CleanupInv, OpenSpared, ActiveSpared, Excused, Active
    <3> QED
      BY <2>2, <3>2, <3>3, <3>4 DEF CleanupInv
  <2> QED
    BY <1>2, <2>1, <2>2, CleanupKeeps
<1>3. CleanupInv /\ [ServicesNext]_servicesVars => CleanupInv'
  BY <1>2
<1>4. CleanupInv /\ [ServicesNext]_servicesVars =>
        [\A m \in MR : job' # job /\ mr'[m].state = "closed" /\ mr[m].state = "opened" =>
          /\ mr[m].noted /\ Names[m] # {} /\ Names[m] \subseteq done
          /\ mr[m].again /\ m \notin cleanup.touched => cleanup.faults > 0]_cleanupVars
  BY <1>2 DEF Explained
<1>5. CleanupInv /\ [ServicesNext]_servicesVars =>
        [\A i \in tagged' \ tagged : \A m \in MR :
          i \in Names[m] /\ mr[m].state \in {"opened", "merged"} =>
              m \in cleanup.touched \cup job.unread]_cleanupVars
  BY <1>2 DEF Honest
<1> QED
  BY <1>1, <1>3, <1>4, <1>5, PTL DEF ServicesSpec, CleanupHonest, ClosureExplained, RejectionHonest

-----------------------------------------------------------------------------
(* Canonical titles. *)

(* What the variables of the titles may be. *)
AuthorState == [step : {"idle", "look", "get", "publish", "get_again", "swap", "done"}, read : 0..MaxEdits,
                cached : Title \cup {NoTitle}, attempts : Nat, title : Title \cup {NoTitle}]
TitleTypeOK ==
    /\ summary \in [Titled -> 0..MaxEdits]
    /\ record \in Title \cup {NoTitle}
    /\ author \in [Author -> AuthorState]
    /\ expiries \in Nat

(* Who is about to replace a record read one that its own issue outdates. *)
Outdates(a) == author[a].step \in {"publish", "swap"} => ~Reusable(a, author[a].cached)

(* Before a record expires every title in use was the record once: it is the  *)
(* present one, or of an older summary of the same issue.                     *)
Recorded(t) ==
    expiries = 0 /\ t # NoTitle =>
        /\ record # NoTitle /\ t.source = record.source /\ t.edit <= record.edit
        /\ t.edit = record.edit => t = record

(* A record is only replaced by a newer one of its issue, so that titles of   *)
(* one summary are one title.                                                 *)
TitleInv ==
    /\ TitleTypeOK
    /\ \A a \in Author : Outdates(a) /\ Recorded(author[a].title)
    /\ FamilyAgrees

(* No title is the absent one. *)
LEMMA TitleEdits ==
    /\ NoTitle \notin Title
    /\ \A t \in Title : t.edit \in Int /\ t.edit >= 0
<1>1. MaxEdits \in Nat
  BY TitleAssumption
<1>2. \A t \in Title : t.edit \in 0..MaxEdits
  BY DEF Title
<1>3. NoTitle.edit = -1
  BY DEF NoTitle
<1> QED
  BY <1>1, <1>2, <1>3

(* An author's own title. *)
LEMMA OwnTitle ==
    ASSUME TitleInv, NEW a \in Author
    PROVE  /\ NewTitle(a) \in Title /\ NewTitle(a).source = Own(a) /\ NewTitle(a).edit = author[a].read
           /\ author[a].read \in 0..MaxEdits
<1>1. author[a] \in AuthorState
  BY DEF TitleInv, TitleTypeOK
<1>2. author[a].read \in 0..MaxEdits
  BY <1>1 DEF AuthorState
<1>3. Own(a) \in Titled
  BY DEF Own, Titled
<1>4. (IF generated THEN a ELSE "jira") \in Author \cup {"jira"}
  OBVIOUS
<1> QED
  BY <1>2, <1>3, <1>4 DEF NewTitle, Title

(* A step of an author: the record stays, or becomes a newer one; the author  *)
(* gets the record as its title, or none.                                     *)
LEMMA AuthorStep ==
    ASSUME TitleInv, NEW a \in Author, NEW new \in AuthorState, Becomes(a, new),
           record' \in Title \cup {NoTitle},
           \/ UNCHANGED record
           \/ record' \in Title /\ (record = NoTitle \/ (record'.source = record.source /\ record.edit < record'.edit)),
           new.step \in {"publish", "swap"} => ~Reusable(a, new.cached)',
           new.title \in {author[a].title, record', NoTitle}
    PROVE  TitleInv'
<1>1. author' = [author EXCEPT ![a] = new] /\ UNCHANGED <<generated, summary, expiries>>
  BY DEF Becomes
<1>2. author \in [Author -> AuthorState] /\ record \in Title \cup {NoTitle}
  BY DEF TitleInv, TitleTypeOK
<1>3. author'[a] = new /\ \A b \in Author \ {a} : author'[b] = author[b]
  BY <1>1, <1>2
<1>4. TitleTypeOK'
  BY <1>1, <1>2 DEF TitleInv, TitleTypeOK
<1>5. \A b \in Author : Outdates(b)'
  <2> SUFFICES ASSUME NEW b \in Author PROVE Outdates(b)'
    OBVIOUS
  <2>1. CASE b = a
    BY <1>3, <2>1 DEF Outdates
  <2>2. CASE b # a
    BY <1>3, <2>2 DEF TitleInv, Outdates, Reusable
  <2> QED
    BY <2>1, <2>2
<1>6. \A b \in Author : author[b].title \in Title \cup {NoTitle} /\ author'[b].title \in Title \cup {NoTitle}
  BY <1>2, <1>3 DEF AuthorState
<1>7. \A t \in Title \cup {NoTitle} : Recorded(t) => Recorded(t)'
  <2> SUFFICES ASSUME NEW t \in Title, Recorded(t), expiries = 0
               PROVE  /\ record' # NoTitle /\ t.source = record'.source /\ t.edit <= record'.edit
                      /\ t.edit = record'.edit => t = record'
    BY <1>1 DEF Recorded
  <2>1. /\ record \in Title /\ t.source = record.source /\ t.edit <= record.edit
        /\ t.edit = record.edit => t = record
    BY <1>2, TitleEdits DEF Recorded
  <2>2. CASE UNCHANGED record
    BY <2>1, <2>2, TitleEdits
  <2>3. CASE record' \in Title /\ record'.source = record.source /\ record.edit < record'.edit
    <3>1. t.edit \in Int /\ record.edit \in Int /\ record'.edit \in Int
      BY <2>1, <2>3, TitleEdits
    <3>2. t.edit < record'.edit
      BY <2>1, <2>3, <3>1
    <3> QED
      BY <2>1, <2>3, <3>1, <3>2, TitleEdits
  <2> QED
    BY <2>1, <2>2, <2>3, TitleEdits
<1>8. \A t \in Title \cup {NoTitle} : t = record' \/ t = NoTitle => Recorded(t)'
  <2> SUFFICES ASSUME NEW t \in Title, t = record' PROVE Recorded(t)'
    BY DEF Recorded
  <2>1. t.edit \in Int /\ t # NoTitle
    BY TitleEdits
  <2> QED
    BY <2>1 DEF Recorded
<1>9. \A b \in Author : Recorded(author[b].title)'
  <2> SUFFICES ASSUME NEW b \in Author PROVE Recorded(author[b].title)'
    OBVIOUS
  <2>1. PICK t \in Title \cup {NoTitle} : t = author'[b].title
    BY <1>6
  <2>2. t \in {author[b].title, record', NoTitle}
    BY <1>3, <2>1
  <2>3. Recorded(author[b].title)
    BY DEF TitleInv
  <2>4. Recorded(t)'
    <3>1. CASE t = author[b].title
      <4>1. Recorded(t)
        BY <2>3, <3>1 DEF Recorded
      <4> QED
        BY <1>7, <4>1
    <3>2. CASE t = record' \/ t = NoTitle
      BY <1>8, <3>2
    <3> QED
      BY <2>2, <3>1, <3>2
  <2> QED
    BY <2>1, <2>4 DEF Recorded
<1>10. FamilyAgrees'
  <2> SUFFICES ASSUME NEW b \in Author, NEW c \in Author, expiries = 0,
                      author'[b].title # NoTitle, author'[c].title # NoTitle
               PROVE  /\ author'[b].title.source = author'[c].title.source
                      /\ author'[b].title.edit = author'[c].title.edit => author'[b].title = author'[c].title
    BY <1>1 DEF FamilyAgrees
  <2>1. PICK s \in Title, t \in Title : s = author'[b].title /\ t = author'[c].title
    BY <1>6
  <2>2. \A x \in {s, t} :
           /\ record' # NoTitle /\ x.source = record'.source
           /\ x.edit = record'.edit => x = record'
    BY <1>1, <1>9, <2>1 DEF Recorded
  <2>3. CASE s = record' \/ t = record'
    BY <2>1, <2>2, <2>3
  <2>4. CASE s # record' /\ t # record'
    <3>1. s = author[b].title /\ t = author[c].title
      BY <1>3, <2>1, <2>4
    <3> QED
      BY <2>1, <3>1 DEF TitleInv, FamilyAgrees
  <2> QED
    BY <2>3, <2>4
<1> QED
  BY <1>4, <1>5, <1>9, <1>10 DEF TitleInv

(* The way on with another step. *)
LEMMA AuthorGoesOn ==
    ASSUME NEW x \in AuthorState, NEW s \in {"look", "get", "publish", "get_again", "swap", "done"},
           NEW new, new = [x EXCEPT !.step = s]
    PROVE  new \in AuthorState /\ new.step = s /\ new.title = x.title
BY DEF AuthorState

(* Every step of an author keeps the invariant, and the record only gets newer. *)
LEMMA AuthorKeeps ==
    ASSUME TitleInv, NEW a \in Author, Resolves(a)
    PROVE  /\ TitleInv'
           /\ \/ UNCHANGED record
              \/ record = NoTitle \/ (record'.source = record.source /\ record'.edit > record.edit)
<1> DEFINE x == author[a]
<1>1. x \in AuthorState /\ record \in Title \cup {NoTitle} /\ x.cached \in Title \cup {NoTitle}
      /\ summary \in [Titled -> 0..MaxEdits]
  BY DEF TitleInv, TitleTypeOK, AuthorState
<1>2. ASSUME NEW t, t \in {record, NoTitle}, UNCHANGED record, Ends(a, t)
      PROVE  TitleInv'
  <2>1. PICK new : new = [x EXCEPT !.step = "done", !.title = t]
    OBVIOUS
  <2>2. Becomes(a, new)
    BY <1>2, <2>1 DEF Ends
  <2>3. t \in Title \cup {NoTitle}
    BY <1>1, <1>2
  <2>4. new \in AuthorState /\ new.step = "done" /\ new.title = t
    <3> HIDE DEF x
    <3> QED
      BY <1>1, <2>1, <2>3 DEF AuthorState
  <2> QED
    BY <1>1, <1>2, <2>2, <2>4, AuthorStep
<1>3. ASSUME NEW s \in {"look", "get", "get_again"}, UNCHANGED record, NEW new \in AuthorState, Becomes(a, new),
             new.step = s, new.title = x.title
      PROVE  TitleInv'
  BY <1>1, <1>3, AuthorStep
<1>4. ASSUME NEW s \in {"publish", "swap"}, UNCHANGED record, ~Reusable(a, record),
             Becomes(a, [x EXCEPT !.step = s, !.cached = record])
      PROVE  TitleInv'
  <2>1. PICK t \in Title \cup {NoTitle} : t = record
    BY <1>1
  <2>2. PICK new : new = [x EXCEPT !.step = s, !.cached = t]
    OBVIOUS
  <2>3. new \in AuthorState /\ new.step = s /\ new.title = x.title /\ new.cached = t /\ new.read = x.read
    <3> HIDE DEF x
    <3> QED
      BY <1>1, <2>2 DEF AuthorState
  <2>4. Becomes(a, new)
    BY <1>4, <2>1, <2>2
  <2>5. author'[a] = new
    BY <2>4 DEF Becomes, TitleInv, TitleTypeOK
  <2>6. ~Reusable(a, new.cached)'
    BY <1>4, <2>1, <2>3, <2>5 DEF Reusable
  <2> QED
    BY <1>1, <1>4, <2>3, <2>4, <2>6, AuthorStep
<1>5. ASSUME x.step \in {"publish", "swap"}, record = x.cached, record' = NewTitle(a), Ends(a, NewTitle(a))
      PROVE  /\ TitleInv'
             /\ record = NoTitle \/ (record'.source = record.source /\ record'.edit > record.edit)
  <2>1. /\ record' \in Title /\ record'.source = Own(a) /\ record'.edit = x.read /\ x.read \in 0..MaxEdits
    BY <1>5, OwnTitle
  <2>2. record = NoTitle \/ (record.source = Own(a) /\ ~(record.edit >= x.read))
    BY <1>5 DEF TitleInv, Outdates, Reusable
  <2>3. record # NoTitle => record.edit \in Int
    BY <1>1, TitleEdits
  <2>4. record = NoTitle \/ (record'.source = record.source /\ record'.edit > record.edit /\ record.edit < record'.edit)
    <3>1. x.read \in Int
      BY <2>1
    <3> HIDE DEF x
    <3> QED
      BY <2>1, <2>2, <2>3, <3>1
  <2>5. PICK t : t = NewTitle(a)
    OBVIOUS
  <2>6. PICK new : new = [x EXCEPT !.step = "done", !.title = t]
    OBVIOUS
  <2>7. Becomes(a, new)
    BY <1>5, <2>5, <2>6 DEF Ends
  <2>8. t \in Title /\ record' = t
    BY <1>5, <2>1, <2>5
  <2>9. new \in AuthorState /\ new.step = "done" /\ new.title = t
    <3> HIDE DEF x
    <3> QED
      BY <1>1, <2>6, <2>8 DEF AuthorState
  <2>10. new.title \in {author[a].title, record', NoTitle} /\ ~(new.step \in {"publish", "swap"})
    BY <2>8, <2>9
  <2>11. record' \in Title \cup {NoTitle}
    BY <2>1
  <2>12. TitleInv'
    BY <2>1, <2>4, <2>7, <2>9, <2>10, <2>11, AuthorStep
  <2> QED
    BY <2>4, <2>12
<1>6. CASE FetchSummary(a)
  <2> DEFINE n   == summary[Own(a)]
             new == [x EXCEPT !.step = "look", !.read = n]
  <2>1. Becomes(a, new) /\ UNCHANGED record
    BY <1>6 DEF FetchSummary
  <2>2. n \in 0..MaxEdits
    BY <1>1 DEF Own, Titled
  <2> HIDE DEF x, n
  <2>3. new \in AuthorState /\ new.step = "look" /\ new.title = x.title
    BY <1>1, <2>2 DEF AuthorState
  <2> HIDE DEF new
  <2> QED
    BY <1>3, <2>1, <2>3
<1>7. CASE LookFirst(a)
  <2>1. CASE Reusable(a, record)
    BY <1>2, <1>7, <2>1 DEF LookFirst
  <2>2. CASE ~Reusable(a, record)
    <3>1. PICK new : new = [x EXCEPT !.step = "get"]
      OBVIOUS
    <3>2. Becomes(a, new) /\ UNCHANGED record
      BY <1>7, <2>2, <3>1 DEF LookFirst
    <3>3. new \in AuthorState /\ new.step = "get" /\ new.title = x.title
      <4> HIDE DEF x
      <4> QED
        BY <1>1, <3>1, AuthorGoesOn
    <3> QED
      BY <1>3, <3>2, <3>3
  <2> QED
    BY <1>7, <2>1, <2>2 DEF LookFirst
<1>8. CASE GetRecord(a)
  BY <1>2, <1>4, <1>8 DEF GetRecord
<1>9. ASSUME TryAgainOrFail(a), UNCHANGED record PROVE TitleInv'
  <2>1. CASE x.attempts < MaxReplacements
    <3> DEFINE n   == x.attempts + 1
               new == [x EXCEPT !.step = "get", !.cached = NoTitle, !.attempts = n]
    <3>1. Becomes(a, new)
      BY <1>9, <2>1 DEF TryAgainOrFail
    <3>2. n \in Nat
      <4>1. x.attempts \in Nat
        BY <1>1 DEF AuthorState
      <4> QED
        BY <4>1
    <3> HIDE DEF x, n
    <3>3. new \in AuthorState /\ new.step = "get" /\ new.title = x.title
      BY <1>1, <3>2 DEF AuthorState
    <3> HIDE DEF new
    <3> QED
      BY <1>3, <1>9, <3>1, <3>3
  <2>2. CASE ~(x.attempts < MaxReplacements)
    BY <1>2, <1>9, <2>2 DEF TryAgainOrFail
  <2> QED
    BY <2>1, <2>2
<1>10. CASE Publish(a)
  <2>1. CASE record = x.cached /\ record' = NewTitle(a) /\ Ends(a, NewTitle(a))
    BY <1>5, <1>10, <2>1 DEF Publish, AuthorAt
  <2>2. CASE Becomes(a, [x EXCEPT !.step = "get_again"]) /\ UNCHANGED record
    <3> DEFINE new == [x EXCEPT !.step = "get_again"]
    <3>1. new \in AuthorState /\ new.step = "get_again" /\ new.title = x.title
      <4> HIDE DEF x
      <4> QED
        BY <1>1, AuthorGoesOn
    <3>2. Becomes(a, new)
      BY <2>2
    <3> HIDE DEF new
    <3> QED
      BY <1>3, <2>2, <3>1, <3>2
  <2> QED
    BY <1>10, <2>1, <2>2 DEF Publish
<1>11. CASE GetAgain(a)
  BY <1>2, <1>4, <1>9, <1>11 DEF GetAgain
<1>12. CASE Swap(a)
  <2>1. CASE record = x.cached
    BY <1>5, <1>12, <2>1 DEF Swap, AuthorAt
  <2>2. CASE record # x.cached
    BY <1>9, <1>12, <2>2 DEF Swap
  <2> QED
    BY <2>1, <2>2
<1> QED
  BY <1>6, <1>7, <1>8, <1>10, <1>11, <1>12 DEF Resolves, FetchSummary, LookFirst, GetRecord, GetAgain

(***************************************************************************)
(* Until a record expires the merge requests of a family bear one title or *)
(* titles of two summaries of one issue, and a record is only replaced by  *)
(* a newer one, for any number of agents, issues and edits.                *)
(***************************************************************************)
THEOREM TitleSafety == ServicesSpec => TitleAgreed
<1>1. ServicesInit => TitleInv
  <2> SUFFICES ASSUME TitleInit PROVE TitleInv
    BY DEF ServicesInit
  <2>1. 0 \in 0..MaxEdits
    BY TitleAssumption
  <2>2. TitleTypeOK
    BY <2>1 DEF TitleInit, TitleTypeOK, AuthorState, NewAuthor
  <2>3. \A a \in Author : author[a].step = "idle" /\ author[a].title = NoTitle
    BY DEF TitleInit, NewAuthor
  <2> QED
    BY <2>2, <2>3 DEF TitleInv, Outdates, Recorded, FamilyAgrees
<1>2. ASSUME TitleInv, [ServicesNext]_servicesVars
      PROVE  /\ TitleInv'
             /\ \/ record' \in {record, NoTitle} \/ record = NoTitle
                \/ record'.source = record.source /\ record'.edit > record.edit
  <2>1. TitleNext \/ UNCHANGED titleVars
    BY <1>2 DEF ServicesNext, servicesVars
  <2>2. CASE UNCHANGED titleVars
    BY <1>2, <2>2 DEF titleVars, TitleInv, TitleTypeOK, Outdates, Reusable, Recorded, FamilyAgrees
  <2>3. CASE \E a \in Author : Resolves(a)
    BY <1>2, <2>3, AuthorKeeps
  <2>4. CASE \E i \in Titled : EditSummary(i)
    <3>1. PICK i \in Titled : EditSummary(i)
      BY <2>4
    <3>2. summary[i] + 1 \in 0..MaxEdits
      <4>1. summary[i] \in 0..MaxEdits /\ summary[i] < MaxEdits
        BY <1>2, <3>1 DEF EditSummary, TitleInv, TitleTypeOK
      <4> QED
        BY <4>1, TitleAssumption
    <3>3. UNCHANGED <<generated, record, author, expiries>> /\ summary' \in [Titled -> 0..MaxEdits]
      BY <1>2, <3>1, <3>2 DEF EditSummary, TitleInv, TitleTypeOK
    <3> QED
      BY <1>2, <3>3 DEF TitleInv, TitleTypeOK, Outdates, Reusable, Recorded, FamilyAgrees
  <2>5. CASE Expires
    <3>1. record' = NoTitle /\ expiries' = expiries + 1 /\ expiries \in Nat /\ UNCHANGED <<generated, summary, author>>
      BY <1>2, <2>5 DEF Expires, TitleInv, TitleTypeOK
    <3>2. expiries' \in Nat /\ expiries' # 0
      BY <3>1
    <3>3. TitleTypeOK'
      BY <1>2, <3>1, <3>2 DEF TitleInv, TitleTypeOK
    <3> QED
      BY <1>2, <3>1, <3>2, <3>3 DEF TitleInv, Outdates, Reusable, Recorded, FamilyAgrees
  <2> QED
    BY <2>1, <2>2, <2>3, <2>4, <2>5 DEF TitleNext
<1>3. TitleInv /\ [ServicesNext]_servicesVars => TitleInv'
  BY <1>2
<1>4. TitleInv /\ [ServicesNext]_servicesVars =>
        [NoTitle \notin {record, record'} /\ record' # record =>
            record'.source = record.source /\ record'.edit > record.edit]_titleVars
  BY <1>2
<1>5. TitleInv => FamilyAgrees
  BY DEF TitleInv
<1> QED
  BY <1>1, <1>3, <1>4, <1>5, PTL DEF ServicesSpec, TitleAgreed, TitleNotOlder

-----------------------------------------------------------------------------
(* Branches and merge requests. *)

(* A set of natural numbers has a least one. *)
LEMMA LeastNat ==
    ASSUME NEW T, T \subseteq Nat, T # {}
    PROVE  \E x \in T : \A y \in T : x <= y
<1> DEFINE R == OpToRel(<, Nat)
<1>1. IsWellFoundedOn(R, Nat)
  BY NatLessThanWellFounded
<1>2. PICK x \in T : \A y \in T : <<y, x>> \notin R
  <2> HIDE DEF R
  <2> QED
  BY <1>1, WFMin
<1>3. \A y \in T : ~(y < x)
  BY <1>2 DEF OpToRel
<1> QED
  BY <1>3

(* A bounded set of natural numbers has a greatest one. *)
LEMMA Greatest ==
    ASSUME NEW S, NEW top \in Nat, S \subseteq 0..top, S # {}
    PROVE  Max(S) \in S /\ \A x \in S : x <= Max(S)
<1> DEFINE T == {n \in 0..top : top - n \in S}
<1>1. T \subseteq Nat /\ T # {}
  <2>1. PICK c \in S : c \in 0..top
    OBVIOUS
  <2>2. PICK n \in 0..top : top - n = c
    <3>1. top - c \in 0..top /\ top - (top - c) = c
      BY <2>1
    <3> QED
      BY <3>1
  <2>3. n \in T
    BY <2>2
  <2>4. T \subseteq Nat
    OBVIOUS
  <2> QED
    BY <2>3, <2>4
<1> HIDE DEF T
<1>2. PICK m \in T : \A y \in T : m <= y
  BY <1>1, LeastNat
<1>3. PICK x \in S : \A y \in S : x >= y
  <2>1. m \in 0..top /\ top - m \in S
    BY <1>2 DEF T
  <2>2. ASSUME NEW y \in S PROVE top - m >= y
    <3>1. y \in 0..top
      OBVIOUS
    <3>2. top - y \in 0..top /\ top - (top - y) = y
      BY <3>1
    <3>3. top - y \in T
      BY <3>2 DEF T
    <3>4. m <= top - y
      BY <1>2, <3>3
    <3> QED
      BY <2>1, <3>1, <3>4
  <2> QED
    BY <2>1, <2>2
<1> QED
  BY <1>3 DEF Max

(* What the variables of the remotes may be. *)
Branch     == [base : Nat, merged : Nat]
FixerState == [pc : {"fork", "create fork", "wait for fork", "check", "clone dist-git", "pick", "push branch",
                     "wait for mirror", "clone", "push", "create mr", "list", "describe", "entitle", "done", "failed"},
               attempt : Nat, seen : Nat, ref : Nat, mr : Nat, new : BOOLEAN]
MRRecord   == [by : Fixer, state : {"open", "merged", "closed"}, attempt : Nat, text : Nat, title : Nat]
RemoteTypeOK ==
    /\ distgit \in [main : Nat, builds : SUBSET Nat, branch : Branch, fromMain : BOOLEAN]
    /\ fork \in [state : {"absent", "importing", "ready", "failed"}, heads : [Fixer -> Nat]]
    /\ mrs \in Seq(MRRecord) /\ fixer \in [Fixer -> FixerState]

(* The stream has a latest build. *)
Latest == \E b \in distgit.builds : \A c \in distgit.builds : b >= c

(* A commit has the NVR of a build. *)
OfBuild(ref) == \E b \in distgit.builds : b <= ref /\ \A c \in b..ref : Versions[c] = Versions[b]

(* What an agent a in state f may rely on: the commit it is about to push,    *)
(* its own push, that no merge request is of this attempt before it says so,  *)
(* and the one it describes.                                                  *)
Relies(a, f) ==
    /\ f.pc = "push branch" => OfBuild(f.ref)
    /\ f.pc \in {"create mr", "list", "describe", "entitle"} => fork.heads[a] = f.attempt
    /\ \A m \in DOMAIN mrs : mrs[m].by = a =>
          mrs[m].attempt <= f.attempt /\ (f.pc \notin {"done", "failed"} => mrs[m].attempt < f.attempt)
    /\ f.pc \in {"describe", "entitle"} => f.mr \in DOMAIN mrs /\ mrs[f.mr].by = a
    /\ f.pc = "entitle" => mrs[f.mr].text = f.attempt
    /\ f.pc # "done" => ~f.new

RemoteInv == RemoteTypeOK /\ Latest /\ BranchOfBuild /\ \A a \in Fixer : Relies(a, fixer[a])

(* What an agent relies on stays while builds are added, its own head and     *)
(* merge requests stay as they are, and it opens none.                        *)
LEMMA RelianceStays ==
    ASSUME RemoteTypeOK, NEW a \in Fixer, NEW f, Relies(a, f),
           distgit.builds \subseteq distgit'.builds,
           fork'.heads[a] = fork.heads[a],
           DOMAIN mrs \subseteq DOMAIN mrs',
           \A m \in DOMAIN mrs : /\ mrs'[m].by = mrs[m].by /\ mrs'[m].attempt = mrs[m].attempt
                                 /\ mrs[m].by = a => mrs'[m].text = mrs[m].text,
           \A m \in DOMAIN mrs' \ DOMAIN mrs : mrs'[m].by # a
    PROVE  Relies(a, f)'
<1>1. f.pc = "push branch" => OfBuild(f.ref)'
  BY DEF Relies, OfBuild
<1>2. \A m \in DOMAIN mrs' : mrs'[m].by = a => m \in DOMAIN mrs
  OBVIOUS
<1> QED
  BY <1>1, <1>2 DEF Relies

(* An agent goes on, and only the fork may change with it. *)
LEMMA FixerKeeps ==
    ASSUME RemoteInv, NEW a \in Fixer, NEW f \in FixerState, fixer' = [fixer EXCEPT ![a] = f],
           distgit' \in [main : Nat, builds : SUBSET Nat, branch : Branch, fromMain : BOOLEAN],
           distgit.builds = distgit'.builds, BranchOfBuild',
           fork' \in [state : {"absent", "importing", "ready", "failed"}, heads : [Fixer -> Nat]],
           \A b \in Fixer \ {a} : fork'.heads[b] = fork.heads[b],
           UNCHANGED mrs, Relies(a, f)'
    PROVE  RemoteInv'
<1>1. fixer' \in [Fixer -> FixerState] /\ fixer'[a] = f /\ \A b \in Fixer \ {a} : fixer'[b] = fixer[b]
  BY DEF RemoteInv, RemoteTypeOK
<1>2. RemoteTypeOK'
  BY <1>1 DEF RemoteInv, RemoteTypeOK
<1>3. Latest'
  BY DEF RemoteInv, Latest
<1>4. ASSUME NEW b \in Fixer PROVE Relies(b, fixer[b])'
  <2>1. CASE b = a
    BY <1>1, <2>1 DEF Relies
  <2>2. CASE b # a
    <3>1. PICK g : g = fixer[b]
      OBVIOUS
    <3>2. Relies(b, g)
      BY <3>1 DEF RemoteInv, Relies
    <3>3. Relies(b, g)'
      BY <2>2, <3>2, RelianceStays DEF RemoteInv
    <3> QED
      BY <1>1, <2>2, <3>1, <3>3 DEF Relies
  <2> QED
    BY <2>1, <2>2
<1> QED
  BY <1>2, <1>3, <1>4 DEF RemoteInv

(* Nothing but the agent's own state changes. *)
LEMMA FixerAlone ==
    ASSUME RemoteInv, NEW a \in Fixer, NEW f \in FixerState, fixer' = [fixer EXCEPT ![a] = f], RemotesSame, Relies(a, f)
    PROVE  RemoteInv'
<1>1. UNCHANGED <<distgit, fork, mrs>>
  BY DEF RemotesSame
<1>2. BranchOfBuild'
  BY <1>1 DEF RemoteInv, BranchOfBuild
<1>3. Relies(a, f)'
  BY <1>1, RelianceStays DEF RemoteInv
<1> QED
  BY <1>1, <1>2, <1>3, FixerKeeps DEF RemoteInv, RemoteTypeOK


(* What was merged stays, and what is reported is right. *)
Kept == distgit'.branch.merged >= distgit.branch.merged /\ distgit'.branch.base >= distgit.branch.base
Reported ==
    \A a \in Fixer : fixer[a].pc # "done" /\ fixer'[a].pc = "done" =>
        LET m == mrs'[fixer'[a].mr] IN
        /\ {m.text, m.title, fork'.heads[a]} = {fixer[a].attempt}
        /\ fixer'[a].new = (m.attempt = fixer[a].attempt)
StillRight == RemoteInv' /\ Kept /\ Reported

(* Nothing is reported by one that goes on. *)
LEMMA NoneReported ==
    ASSUME RemoteInv, NEW a \in Fixer, NEW f, fixer' = [fixer EXCEPT ![a] = f], f.pc # "done"
    PROVE  Reported
<1>1. fixer'[a] = f /\ \A b \in Fixer \ {a} : fixer'[b] = fixer[b]
  BY DEF RemoteInv, RemoteTypeOK
<1> QED
  BY <1>1 DEF Reported

(* The branch as it is. *)
LEMMA SameKept ==
    ASSUME RemoteInv, distgit'.branch = distgit.branch
    PROVE  Kept
<1>1. distgit.branch.merged \in Nat /\ distgit.branch.base \in Nat
  BY DEF RemoteInv, RemoteTypeOK, Branch
<1> QED
  BY <1>1 DEF Kept

(* Dist-git and people do their part. *)
LEMMA OutsideKeeps ==
    ASSUME RemoteInv, UNCHANGED fixer, RemoteTypeOK', Latest', BranchOfBuild', distgit.builds \subseteq distgit'.builds,
           fork'.heads = fork.heads, DOMAIN mrs' = DOMAIN mrs,
           \A m \in DOMAIN mrs : mrs'[m].by = mrs[m].by /\ mrs'[m].attempt = mrs[m].attempt /\ mrs'[m].text = mrs[m].text
    PROVE  RemoteInv' /\ Reported
<1>1. ASSUME NEW a \in Fixer PROVE Relies(a, fixer[a])'
  <2>1. PICK f : f = fixer[a]
    OBVIOUS
  <2>2. Relies(a, f)
    BY <2>1 DEF RemoteInv, Relies
  <2>3. Relies(a, f)'
    BY <2>2, RelianceStays DEF RemoteInv
  <2> QED
    BY <2>1, <2>3 DEF Relies
<1>2. Reported
  BY DEF Reported
<1> QED
  BY <1>1, <1>2 DEF RemoteInv

(* A merge request changes but for whose it is. *)
LEMMA MRChanges ==
    ASSUME RemoteInv, NEW m \in DOMAIN mrs, NEW r \in MRRecord, mrs' = [mrs EXCEPT ![m] = r],
           r.by = mrs[m].by, r.attempt = mrs[m].attempt
    PROVE  /\ mrs' \in Seq(MRRecord) /\ DOMAIN mrs' = DOMAIN mrs /\ mrs'[m] = r
           /\ \A x \in DOMAIN mrs : mrs'[x].by = mrs[x].by /\ mrs'[x].attempt = mrs[x].attempt
           /\ \A x \in DOMAIN mrs \ {m} : mrs'[x] = mrs[x]
<1>1. mrs \in Seq(MRRecord) /\ m \in 1..Len(mrs)
  BY DEF RemoteInv, RemoteTypeOK
<1>2. PICK s \in Seq(MRRecord) : s = mrs /\ m \in 1..Len(s)
  BY <1>1
<1>3. mrs' = [s EXCEPT ![m] = r]
  BY <1>2
<1>4. [s EXCEPT ![m] = r] \in Seq(MRRecord) /\ Len([s EXCEPT ![m] = r]) = Len(s)
  BY <1>2, ExceptSeq
<1> QED
  BY <1>2, <1>3, <1>4

(* What is on a branch of a build stays so as builds are added. *)
LEMMA OutsideSteps ==
    ASSUME RemoteInv,
           ForkImported \/ MainAdvances \/ StreamBuilt \/ Mirrored \/ \E m \in DOMAIN mrs : PeopleMerge(m) \/ PeopleClose(m)
    PROVE  StillRight
<1>1. PICK d \in [main : Nat, builds : SUBSET Nat, branch : Branch, fromMain : BOOLEAN],
           k \in [state : {"absent", "importing", "ready", "failed"}, heads : [Fixer -> Nat]] :
        d = distgit /\ k = fork
  BY DEF RemoteInv, RemoteTypeOK
<1>2. CASE ForkImported
  <2>1. PICK st \in {"ready", "failed"} : fork' = [k EXCEPT !.state = st]
    BY <1>1, <1>2 DEF ForkImported
  <2>2. UNCHANGED <<distgit, mirror, mrs, fixer>>
    BY <1>2 DEF ForkImported
  <2>3. fork' \in [state : {"absent", "importing", "ready", "failed"}, heads : [Fixer -> Nat]] /\ fork'.heads = fork.heads
    BY <1>1, <2>1
  <2>4. RemoteTypeOK' /\ Latest' /\ BranchOfBuild'
    BY <2>2, <2>3 DEF RemoteInv, RemoteTypeOK, Latest, BranchOfBuild
  <2> QED
    BY <2>2, <2>3, <2>4, OutsideKeeps, SameKept DEF StillRight
<1>3. CASE MainAdvances
  <2>1. PICK n \in Nat : n = d.main + 1
    OBVIOUS
  <2>2. distgit' = [d EXCEPT !.main = n] /\ UNCHANGED <<mirror, fork, mrs, fixer>>
    BY <1>1, <1>3, <2>1 DEF MainAdvances
  <2>3. /\ distgit' \in [main : Nat, builds : SUBSET Nat, branch : Branch, fromMain : BOOLEAN]
        /\ distgit'.builds = d.builds /\ distgit'.branch = d.branch
    BY <2>2
  <2>4. RemoteTypeOK' /\ Latest' /\ BranchOfBuild'
    BY <1>1, <2>2, <2>3 DEF RemoteInv, RemoteTypeOK, Latest, BranchOfBuild
  <2> QED
    BY <1>1, <2>2, <2>3, <2>4, OutsideKeeps, SameKept DEF StillRight
<1>4. CASE StreamBuilt
  <2>1. PICK c \in 1..d.main : c > Max(d.builds) /\ distgit' = [d EXCEPT !.builds = d.builds \cup {c}]
    BY <1>1, <1>4 DEF StreamBuilt
  <2>2. UNCHANGED <<mirror, fork, mrs, fixer>> /\ c \in Nat
    BY <1>4 DEF StreamBuilt
  <2>3. PICK bs \in SUBSET Nat : bs = d.builds \cup {c}
    BY <2>2
  <2>4. /\ distgit' \in [main : Nat, builds : SUBSET Nat, branch : Branch, fromMain : BOOLEAN]
        /\ distgit'.builds = bs /\ distgit'.branch = d.branch
    BY <2>1, <2>3
  <2>5. PICK l \in d.builds : l = Max(d.builds) /\ \A x \in d.builds : l >= x
    BY <1>1 DEF RemoteInv, Latest, Max
  <2>6. \A x \in bs : c >= x
    <3>1. l \in Nat /\ c \in Nat /\ c > l
      BY <2>1, <2>2, <2>5
    <3>2. \A x \in d.builds : x \in Nat /\ l >= x
      BY <2>5
    <3> QED
      BY <2>3, <3>1, <3>2
  <2>7. Latest'
    BY <2>3, <2>4, <2>6 DEF Latest
  <2>8. RemoteTypeOK' /\ BranchOfBuild'
    BY <1>1, <2>2, <2>3, <2>4 DEF RemoteInv, RemoteTypeOK, BranchOfBuild
  <2>9. distgit.builds \subseteq distgit'.builds
    BY <1>1, <2>3, <2>4
  <2> QED
    BY <1>1, <2>2, <2>4, <2>7, <2>8, <2>9, OutsideKeeps, SameKept DEF StillRight
<1>5. CASE Mirrored
  <2>1. UNCHANGED <<distgit, fork, mrs, fixer>>
    BY <1>5 DEF Mirrored
  <2>2. RemoteTypeOK' /\ Latest' /\ BranchOfBuild'
    BY <2>1 DEF RemoteInv, RemoteTypeOK, Latest, BranchOfBuild
  <2> QED
    BY <2>1, <2>2, OutsideKeeps, SameKept DEF StillRight
<1>6. ASSUME NEW m \in DOMAIN mrs, PeopleMerge(m) \/ PeopleClose(m) PROVE StillRight
  <2>1. PICK r \in MRRecord : r = mrs[m]
    BY DEF RemoteInv, RemoteTypeOK
  <2>2. PICK q : q \in {[r EXCEPT !.state = "merged"], [r EXCEPT !.state = "closed"]} /\ mrs' = [mrs EXCEPT ![m] = q]
    BY <1>6, <2>1 DEF PeopleMerge, PeopleClose
  <2>3. q \in MRRecord /\ q.by = r.by /\ q.attempt = r.attempt /\ q.text = r.text
    BY <2>2 DEF MRRecord
  <2>4. /\ mrs' \in Seq(MRRecord) /\ DOMAIN mrs' = DOMAIN mrs
        /\ \A x \in DOMAIN mrs : mrs'[x].by = mrs[x].by /\ mrs'[x].attempt = mrs[x].attempt
        /\ \A x \in DOMAIN mrs \ {m} : mrs'[x] = mrs[x]
        /\ mrs'[m] = q
    BY <2>1, <2>2, <2>3, MRChanges
  <2>5. \A x \in DOMAIN mrs : mrs'[x].text = mrs[x].text
    BY <2>1, <2>3, <2>4
  <2>6. UNCHANGED <<fork, fixer>>
    BY <1>6 DEF PeopleMerge, PeopleClose
  <2>7. CASE PeopleClose(m)
    <3>1. UNCHANGED distgit
      BY <2>7 DEF PeopleClose
    <3>2. RemoteTypeOK' /\ Latest' /\ BranchOfBuild'
      BY <2>4, <2>6, <3>1 DEF RemoteInv, RemoteTypeOK, Latest, BranchOfBuild
    <3> QED
      BY <2>4, <2>5, <2>6, <3>1, <3>2, OutsideKeeps, SameKept DEF StillRight
  <2>8. CASE PeopleMerge(m)
    <3>1. PICK o \in Branch : o = d.branch
      OBVIOUS
    <3>2. PICK n \in Nat : n = o.merged + 1
      BY DEF Branch
    <3>3. PICK w : w = [o EXCEPT !.merged = n]
      OBVIOUS
    <3>4. w \in Branch /\ w.base = o.base /\ w.merged = n
      BY <3>3 DEF Branch
    <3>5. distgit' = [d EXCEPT !.branch = w] /\ distgit.branch # NoBranch
      BY <1>1, <2>8, <3>1, <3>2, <3>3 DEF PeopleMerge
    <3>6. /\ distgit' \in [main : Nat, builds : SUBSET Nat, branch : Branch, fromMain : BOOLEAN]
          /\ distgit'.builds = d.builds /\ distgit'.branch = w
      BY <3>4, <3>5
    <3>7. RemoteTypeOK' /\ Latest'
      BY <1>1, <2>4, <2>6, <3>6 DEF RemoteInv, RemoteTypeOK, Latest
    <3>8. BranchOfBuild'
      BY <1>1, <3>1, <3>4, <3>5, <3>6 DEF RemoteInv, BranchOfBuild
    <3>9. Kept
      <4>1. o.merged \in Nat /\ o.base \in Nat
        BY DEF Branch
      <4> QED
        BY <1>1, <3>1, <3>2, <3>4, <3>6, <4>1 DEF Kept
    <3> QED
      BY <1>1, <2>4, <2>5, <2>6, <3>6, <3>7, <3>8, <3>9, OutsideKeeps DEF StillRight
  <2> QED
    BY <1>6, <2>7, <2>8
<1> QED
  BY <1>2, <1>3, <1>4, <1>5, <1>6

(* An agent that changes nothing but its own state. *)
LEMMA AloneRight ==
    ASSUME RemoteInv, NEW a \in Fixer, NEW f \in FixerState, fixer' = [fixer EXCEPT ![a] = f], RemotesSame,
           Relies(a, f), f.pc # "done"
    PROVE  StillRight
BY FixerAlone, NoneReported, SameKept DEF StillRight, RemotesSame

(* The latest commit with a build's NVR. *)
LEMMA SameNVR ==
    ASSUME NEW ref \in Nat, NEW seen \in Nat, ref <= seen
    PROVE  /\ LatestSameNVR(ref, seen) \in Nat /\ ref <= LatestSameNVR(ref, seen)
           /\ \A c \in ref..LatestSameNVR(ref, seen) : Versions[c] = Versions[ref]
<1> DEFINE S == {c \in ref..seen : \A d \in ref..c : Versions[d] = Versions[ref]}
<1>1. S \subseteq 0..seen
  OBVIOUS
<1>2. ref \in S
  OBVIOUS
<1>3. Max(S) \in S
  <2> HIDE DEF S
  <2> QED
    BY <1>1, <1>2, Greatest
<1>4. LatestSameNVR(ref, seen) = Max(S)
  BY DEF LatestSameNVR
<1>5. PICK l : l = Max(S)
  OBVIOUS
<1>6. l \in S
  BY <1>3, <1>5
<1> QED
  BY <1>4, <1>5, <1>6

(* Steps of an agent until it works in its clone. *)
LEMMA PreparationSteps ==
    ASSUME RemoteInv, NEW a \in Fixer,
           \/ CallFails(a) \/ Retry(a) \/ FindFork(a) \/ ForkReady(a) \/ CheckMirror(a)
           \/ CloneDistGit(a) \/ PickRef(a) \/ MirrorSeen(a) \/ CloneAndWork(a) \/ ListMRs(a)
    PROVE  StillRight
<1>1. PICK b \in FixerState : b = fixer[a]
  BY DEF RemoteInv, RemoteTypeOK
<1>2. Relies(a, b)
  BY <1>1 DEF RemoteInv, Relies
<1>3. ASSUME NEW pc \in {"create fork", "wait for fork", "check", "clone dist-git", "clone", "push", "failed"},
             FixerGoes(a, pc), RemotesSame, fixer[a].pc \notin {"done", "failed"}
      PROVE  StillRight
  <2>1. PICK f : f = [b EXCEPT !.pc = pc]
    OBVIOUS
  <2>2. fixer' = [fixer EXCEPT ![a] = f]
    BY <1>1, <1>3, <2>1 DEF FixerGoes
  <2>3. f \in FixerState /\ f.pc = pc /\ f.attempt = b.attempt /\ f.new = b.new
    BY <2>1 DEF FixerState
  <2>4. Relies(a, f)
    BY <1>1, <1>2, <1>3, <2>3 DEF Relies
  <2> QED
    BY <1>3, <2>2, <2>3, <2>4, AloneRight
<1>4. CASE CallFails(a) \/ FindFork(a) \/ ForkReady(a) \/ CheckMirror(a) \/ CloneAndWork(a)
  BY <1>3, <1>4 DEF CallFails, FindFork, ForkReady, CheckMirror, CloneAndWork, FixerAt
<1>5. CASE Retry(a)
  <2>1. PICK n \in Nat : n = b.attempt + 1
    <3>1. b.attempt \in Nat
      BY DEF FixerState
    <3> QED
      BY <3>1
  <2>2. PICK f : f = [NewFixer EXCEPT !.attempt = n]
    OBVIOUS
  <2>3. fixer' = [fixer EXCEPT ![a] = f] /\ RemotesSame /\ b.pc = "failed"
    BY <1>1, <1>5, <2>1, <2>2 DEF Retry, FixerAt
  <2>4. f \in FixerState /\ f.pc = "fork" /\ f.attempt = n /\ f.new = FALSE
    BY <2>2 DEF NewFixer, NoMR, FixerState
  <2>5. ASSUME NEW m \in DOMAIN mrs, mrs[m].by = a PROVE mrs[m].attempt < n /\ mrs[m].attempt <= n
    <3>1. mrs[m] \in MRRecord
      BY DEF RemoteInv, RemoteTypeOK
    <3>2. mrs[m].attempt \in Nat /\ b.attempt \in Nat
      BY <3>1 DEF MRRecord, FixerState
    <3>3. mrs[m].attempt <= b.attempt
      BY <1>2, <2>5 DEF Relies
    <3> QED
      BY <2>1, <3>2, <3>3
  <2>6. Relies(a, f)
    BY <2>4, <2>5 DEF Relies
  <2> QED
    BY <2>3, <2>4, <2>6, AloneRight
<1>6. CASE CloneDistGit(a)
  <2>1. PICK pc \in {"pick", "wait for mirror"}, main \in Nat :
           main = distgit.main /\ fixer' = [fixer EXCEPT ![a] = [fixer[a] EXCEPT !.pc = pc, !.seen = main]]
    BY <1>6 DEF CloneDistGit, RemoteInv, RemoteTypeOK
  <2>2. PICK f : f = [b EXCEPT !.pc = pc, !.seen = main]
    OBVIOUS
  <2>3. fixer' = [fixer EXCEPT ![a] = f] /\ RemotesSame /\ b.pc = "clone dist-git"
    BY <1>1, <1>6, <2>1, <2>2 DEF CloneDistGit, FixerAt, RemoteInv, RemoteTypeOK
  <2>4. f \in FixerState /\ f.pc = pc /\ f.attempt = b.attempt /\ f.new = b.new
    BY <2>2 DEF FixerState
  <2>5. Relies(a, f)
    BY <1>2, <2>3, <2>4 DEF Relies
  <2> QED
    BY <2>1, <2>3, <2>4, <2>5, AloneRight
<1>7. CASE PickRef(a)
  <2>1. PICK latest \in distgit.builds : latest = Max(distgit.builds) /\ latest \in Nat
    BY DEF RemoteInv, RemoteTypeOK, Latest, Max
  <2>2. CASE latest > b.seen
    BY <1>1, <1>3, <1>7, <2>1, <2>2 DEF PickRef, FixerAt
  <2>3. CASE ~(latest > b.seen)
    <3>1. b.seen \in Nat
      BY DEF FixerState
    <3>2. latest <= b.seen
      BY <2>1, <2>3, <3>1
    <3>3. PICK r : r = IF distgit.fromMain THEN LatestSameNVR(latest, b.seen) ELSE latest
      OBVIOUS
    <3>4. r \in Nat /\ latest <= r /\ \A c \in latest..r : Versions[c] = Versions[latest]
      <4>1. CASE distgit.fromMain
        BY <2>1, <3>1, <3>2, <3>3, <4>1, SameNVR
      <4>2. CASE ~distgit.fromMain
        BY <2>1, <3>3, <4>2
      <4> QED
        BY <4>1, <4>2
    <3>5. OfBuild(r)
      BY <2>1, <3>4 DEF OfBuild
    <3>6. PICK f : f = [b EXCEPT !.pc = "push branch", !.seen = 0, !.ref = r]
      OBVIOUS
    <3>7. fixer' = [fixer EXCEPT ![a] = f] /\ RemotesSame /\ b.pc = "pick"
      BY <1>1, <1>7, <2>1, <2>3, <3>3, <3>6 DEF PickRef, FixerAt, RemoteInv, RemoteTypeOK
    <3>8. f \in FixerState /\ f.pc = "push branch" /\ f.ref = r /\ f.attempt = b.attempt /\ f.new = b.new
      BY <3>4, <3>6 DEF FixerState
    <3>9. Relies(a, f)
      BY <1>2, <3>5, <3>7, <3>8 DEF Relies
    <3> QED
      BY <3>7, <3>8, <3>9, AloneRight
  <2> QED
    BY <2>2, <2>3
<1>8. CASE MirrorSeen(a)
  <2>1. PICK f : f = [b EXCEPT !.pc = "clone", !.seen = 0, !.ref = 0]
    OBVIOUS
  <2>2. fixer' = [fixer EXCEPT ![a] = f] /\ RemotesSame /\ b.pc = "wait for mirror"
    BY <1>1, <1>8, <2>1 DEF MirrorSeen, FixerAt, RemoteInv, RemoteTypeOK
  <2>3. f \in FixerState /\ f.pc = "clone" /\ f.attempt = b.attempt /\ f.new = b.new
    BY <2>1 DEF FixerState
  <2>4. Relies(a, f)
    BY <1>2, <2>2, <2>3 DEF Relies
  <2> QED
    BY <2>2, <2>3, <2>4, AloneRight
<1>9. CASE ListMRs(a)
  <2>1. RemotesSame /\ b.pc = "list"
    BY <1>1, <1>9 DEF ListMRs, FixerAt
  <2>2. CASE FixerGoes(a, "failed")
    BY <1>1, <1>3, <2>1, <2>2
  <2>3. ASSUME NEW m \in OpenMRs(a), fixer' = [fixer EXCEPT ![a] = [fixer[a] EXCEPT !.pc = "describe", !.mr = m]] PROVE StillRight
    <3>1. m \in DOMAIN mrs /\ mrs[m].by = a /\ m \in Nat
      BY <2>3 DEF OpenMRs, RemoteInv, RemoteTypeOK
    <3>2. PICK f : f = [b EXCEPT !.pc = "describe", !.mr = m]
      OBVIOUS
    <3>3. fixer' = [fixer EXCEPT ![a] = f]
      BY <1>1, <2>3, <3>2 DEF RemoteInv, RemoteTypeOK
    <3>4. f \in FixerState /\ f.pc = "describe" /\ f.mr = m /\ f.attempt = b.attempt /\ f.new = b.new
      BY <3>1, <3>2 DEF FixerState
    <3>5. Relies(a, f)
      BY <1>2, <2>1, <3>1, <3>4 DEF Relies
    <3> QED
      BY <2>1, <3>3, <3>4, <3>5, AloneRight
  <2> QED
    BY <1>9, <2>2, <2>3 DEF ListMRs
<1> QED
  BY <1>4, <1>5, <1>6, <1>7, <1>8, <1>9

(* A push forward before anything was merged. *)
LEMMA PushKept ==
    ASSUME NEW x \in Nat, NEW y \in Nat, x >= y, distgit.branch.base = y, distgit'.branch.base = x,
           distgit.branch.merged = 0, distgit'.branch.merged = 0
    PROVE  Kept
BY DEF Kept

(* Steps of an agent on the fork and the branch. *)
LEMMA PushSteps ==
    ASSUME RemoteInv, NEW a \in Fixer, CreateFork(a) \/ PushBranch(a) \/ Push(a)
    PROVE  StillRight
<1>1. PICK b \in FixerState : b = fixer[a]
  BY DEF RemoteInv, RemoteTypeOK
<1>2. Relies(a, b) /\ fixer \in [Fixer -> FixerState]
  BY <1>1 DEF RemoteInv, RemoteTypeOK, Relies
<1>3. PICK d \in [main : Nat, builds : SUBSET Nat, branch : Branch, fromMain : BOOLEAN],
           k \in [state : {"absent", "importing", "ready", "failed"}, heads : [Fixer -> Nat]] :
        d = distgit /\ k = fork
  BY DEF RemoteInv, RemoteTypeOK
<1>4. CASE CreateFork(a)
  <2>1. PICK f : f = [b EXCEPT !.pc = "wait for fork"]
    OBVIOUS
  <2>2. fixer' = [fixer EXCEPT ![a] = f] /\ UNCHANGED <<distgit, mirror, mrs>> /\ b.pc = "create fork"
    BY <1>1, <1>4, <2>1 DEF CreateFork, FixerGoes, FixerAt
  <2>3. f \in FixerState /\ f.pc = "wait for fork" /\ f.attempt = b.attempt /\ f.new = b.new
    BY <2>1 DEF FixerState
  <2>4. PICK st \in {"absent", "importing", "ready", "failed"} : fork' = [k EXCEPT !.state = st]
    <3>1. PICK st : st = IF k.state = "absent" THEN "importing" ELSE k.state
      OBVIOUS
    <3>2. st \in {"absent", "importing", "ready", "failed"}
      BY <3>1
    <3>3. fork' = [k EXCEPT !.state = st]
      BY <1>3, <1>4, <3>1 DEF CreateFork
    <3> QED
      BY <3>2, <3>3
  <2>5. fork' \in [state : {"absent", "importing", "ready", "failed"}, heads : [Fixer -> Nat]] /\ fork'.heads = fork.heads
    BY <1>3, <2>4
  <2>6. BranchOfBuild'
    BY <2>2 DEF RemoteInv, BranchOfBuild
  <2>7. Relies(a, f)
    BY <1>2, <2>2, <2>3 DEF Relies
  <2>8. Relies(a, f)'
    BY <2>2, <2>5, <2>7, RelianceStays DEF RemoteInv
  <2>9. RemoteInv'
    BY <1>3, <2>2, <2>3, <2>5, <2>6, <2>8, FixerKeeps
  <2> QED
    BY <2>2, <2>3, <2>9, NoneReported, SameKept DEF StillRight
<1>5. CASE PushBranch(a)
  <2>1. UNCHANGED <<mirror, fork, mrs>> /\ b.pc = "push branch"
    BY <1>1, <1>5 DEF PushBranch, FixerAt
  <2>2. PICK pc \in {"push branch", "wait for mirror", "failed"} : fixer' = [fixer EXCEPT ![a] = [b EXCEPT !.pc = pc]]
    <3>1. CASE UNCHANGED fixer
      <4>1. [b EXCEPT !.pc = "push branch"] = b
        BY <2>1 DEF FixerState
      <4>2. PICK n : n = [b EXCEPT !.pc = "push branch"]
        OBVIOUS
      <4>3. fixer' = [fixer EXCEPT ![a] = n]
        <5>1. n = fixer[a] /\ fixer \in [Fixer -> FixerState]
          BY <1>1, <1>2, <4>1, <4>2
        <5> QED
          BY ONLY <3>1, <5>1
      <4> QED
        BY <4>2, <4>3
    <3>2. CASE FixerGoes(a, "wait for mirror") \/ FixerGoes(a, "failed")
      BY <1>1, <3>2 DEF FixerGoes
    <3> QED
      BY <1>5, <3>1, <3>2 DEF PushBranch
  <2>3. PICK f : f = [b EXCEPT !.pc = pc]
    OBVIOUS
  <2>4. f \in FixerState /\ f.pc = pc /\ f.attempt = b.attempt /\ f.new = b.new /\ f.ref = b.ref
    BY <2>3 DEF FixerState
  <2>5. Relies(a, f)
    BY <1>2, <2>1, <2>4 DEF Relies
  <2>6. CASE UNCHANGED distgit
    <3>1. BranchOfBuild'
      BY <2>6 DEF RemoteInv, BranchOfBuild
    <3>2. Relies(a, f)'
      BY <2>1, <2>5, <2>6, RelianceStays DEF RemoteInv
    <3>3. RemoteInv'
      BY <1>3, <2>1, <2>2, <2>3, <2>4, <2>6, <3>1, <3>2, FixerKeeps
    <3> QED
      BY <2>2, <2>3, <2>4, <2>6, <3>3, NoneReported, SameKept DEF StillRight
  <2>7. CASE ~UNCHANGED distgit
    <3>1. /\ distgit.branch.merged = 0 /\ b.ref >= distgit.branch.base
          /\ distgit' = [distgit EXCEPT !.branch = [base |-> b.ref, merged |-> 0]]
      BY <1>1, <1>5, <2>7 DEF PushBranch
    <3>2. PICK w \in Branch : w = [base |-> b.ref, merged |-> 0]
      BY DEF Branch, FixerState
    <3>3. w.base = b.ref /\ w.merged = 0
      BY <3>2
    <3>4. distgit' = [d EXCEPT !.branch = w]
      BY <1>3, <3>1, <3>2
    <3>5. /\ distgit' \in [main : Nat, builds : SUBSET Nat, branch : Branch, fromMain : BOOLEAN]
          /\ distgit'.builds = d.builds /\ distgit'.branch = w
      BY <3>4
    <3>6. BranchOfBuild'
      BY <1>2, <1>3, <2>1, <3>3, <3>5 DEF Relies, OfBuild, BranchOfBuild
    <3>7. Kept
      <4>1. PICK x \in Nat, y \in Nat : x = b.ref /\ y = distgit.branch.base
        BY <1>3 DEF FixerState, Branch
      <4>2. x >= y
        BY <3>1, <4>1
      <4>3. distgit'.branch.base = x /\ distgit'.branch.merged = 0 /\ distgit.branch.merged = 0
        BY <3>1, <3>3, <3>5, <4>1
      <4> QED
        BY <4>1, <4>2, <4>3, PushKept
    <3>8. Relies(a, f)'
      BY <1>3, <2>1, <2>5, <3>5, RelianceStays DEF RemoteInv
    <3>9. RemoteInv'
      BY <1>3, <2>1, <2>2, <2>3, <2>4, <3>5, <3>6, <3>8, FixerKeeps
    <3> QED
      BY <2>2, <2>3, <2>4, <3>7, <3>9, NoneReported DEF StillRight
  <2> QED
    BY <2>6, <2>7
<1>6. CASE Push(a)
  <2>1. UNCHANGED <<distgit, mirror, mrs>> /\ b.pc = "push"
    BY <1>1, <1>6 DEF Push, FixerAt
  <2>2. PICK pc \in {"create mr", "failed"} : FixerGoes(a, pc) /\ (pc = "create mr" => fork.state = "ready")
    BY <1>6 DEF Push
  <2>3. PICK h \in [Fixer -> Nat] : h = [k.heads EXCEPT ![a] = b.attempt]
    BY DEF FixerState
  <2>4. /\ fork' = k \/ fork' = [k EXCEPT !.heads = h]
        /\ pc = "create mr" => fork' = [k EXCEPT !.heads = h]
    BY <1>1, <1>2, <1>3, <1>6, <2>2, <2>3 DEF Push, FixerGoes
  <2>5. /\ fork' \in [state : {"absent", "importing", "ready", "failed"}, heads : [Fixer -> Nat]]
        /\ \A c \in Fixer \ {a} : fork'.heads[c] = fork.heads[c]
        /\ pc = "create mr" => fork'.heads[a] = b.attempt
    <3>1. fork = k /\ k \in [state : {"absent", "importing", "ready", "failed"}, heads : [Fixer -> Nat]]
      BY <1>3
    <3>2. h[a] = b.attempt /\ \A c \in Fixer \ {a} : h[c] = k.heads[c]
      BY ONLY <2>3, <3>1, a \in Fixer
    <3>3. PICK g : g = [k EXCEPT !.heads = h]
      OBVIOUS
    <3>4. g \in [state : {"absent", "importing", "ready", "failed"}, heads : [Fixer -> Nat]] /\ g.heads = h
      BY ONLY <3>1, <3>3, h \in [Fixer -> Nat]
    <3>5. (fork' = k \/ fork' = g) /\ (pc = "create mr" => fork' = g)
      BY <2>4, <3>3
    <3> QED
      BY ONLY <3>1, <3>2, <3>4, <3>5
  <2>6. PICK f : f = [b EXCEPT !.pc = pc]
    OBVIOUS
  <2>7. fixer' = [fixer EXCEPT ![a] = f]
    BY <1>1, <2>2, <2>6 DEF FixerGoes
  <2>8. f \in FixerState /\ f.pc = pc /\ f.attempt = b.attempt /\ f.new = b.new
    BY <2>6 DEF FixerState
  <2>9. Relies(a, f)'
    BY <1>2, <2>1, <2>5, <2>8 DEF Relies
  <2>10. BranchOfBuild'
    BY <2>1 DEF RemoteInv, BranchOfBuild
  <2>11. RemoteInv'
    BY <1>3, <2>1, <2>5, <2>7, <2>8, <2>9, <2>10, FixerKeeps
  <2> QED
    BY <2>1, <2>7, <2>8, <2>11, NoneReported, SameKept DEF StillRight
<1> QED
  BY <1>4, <1>5, <1>6

(* An agent goes on with its merge requests, and the others keep theirs. *)
LEMMA MRStep ==
    ASSUME RemoteInv, NEW a \in Fixer, NEW f \in FixerState, fixer' = [fixer EXCEPT ![a] = f],
           UNCHANGED <<distgit, fork>>, mrs' \in Seq(MRRecord), DOMAIN mrs \subseteq DOMAIN mrs',
           \A m \in DOMAIN mrs : /\ mrs'[m].by = mrs[m].by /\ mrs'[m].attempt = mrs[m].attempt
                                 /\ mrs[m].by # a => mrs'[m] = mrs[m],
           \A m \in DOMAIN mrs' \ DOMAIN mrs : mrs'[m].by = a,
           Relies(a, f)'
    PROVE  RemoteInv' /\ Kept
<1>1. fixer' \in [Fixer -> FixerState] /\ fixer'[a] = f /\ \A b \in Fixer \ {a} : fixer'[b] = fixer[b]
  BY DEF RemoteInv, RemoteTypeOK
<1>2. RemoteTypeOK' /\ Latest' /\ BranchOfBuild'
  BY <1>1 DEF RemoteInv, RemoteTypeOK, Latest, BranchOfBuild
<1>3. ASSUME NEW b \in Fixer PROVE Relies(b, fixer[b])'
  <2>1. CASE b = a
    BY <1>1, <2>1 DEF Relies
  <2>2. CASE b # a
    <3>1. PICK g : g = fixer[b]
      OBVIOUS
    <3>2. Relies(b, g)
      BY <3>1 DEF RemoteInv, Relies
    <3>3. \A m \in DOMAIN mrs : mrs[m].by = b => mrs'[m].text = mrs[m].text
      BY <2>2
    <3>4. Relies(b, g)'
      BY <2>2, <3>2, <3>3, RelianceStays DEF RemoteInv
    <3> QED
      BY <1>1, <2>2, <3>1, <3>4 DEF Relies
  <2> QED
    BY <2>1, <2>2
<1> QED
  BY <1>2, <1>3, SameKept DEF RemoteInv

(* Steps of an agent on its merge requests. *)
LEMMA RequestSteps ==
    ASSUME RemoteInv, NEW a \in Fixer, CreateMR(a) \/ Describe(a) \/ Entitle(a)
    PROVE  StillRight
<1>1. PICK b \in FixerState : b = fixer[a]
  BY DEF RemoteInv, RemoteTypeOK
<1>2. Relies(a, b) /\ fixer \in [Fixer -> FixerState] /\ mrs \in Seq(MRRecord)
  BY <1>1 DEF RemoteInv, RemoteTypeOK, Relies
<1>3. b.attempt \in Nat /\ b.mr \in Nat
  BY DEF FixerState
<1>4. \A m \in DOMAIN mrs : mrs[m].by = a /\ b.pc \notin {"done", "failed"} => mrs[m].attempt < b.attempt /\ mrs[m].attempt \in Nat
  <2>1. \A m \in DOMAIN mrs : mrs[m] \in MRRecord
    BY <1>2
  <2> QED
    BY <1>2, <2>1 DEF Relies, MRRecord
<1>5. CASE CreateMR(a)
  <2>1. UNCHANGED <<distgit, mirror, fork>> /\ b.pc = "create mr" /\ fork.heads[a] = b.attempt
    BY <1>1, <1>2, <1>5 DEF CreateMR, FixerAt, Relies
  <2>2. CASE FixerGoes(a, "list") /\ UNCHANGED mrs
    <3>1. PICK f : f = [b EXCEPT !.pc = "list"]
      OBVIOUS
    <3>2. fixer' = [fixer EXCEPT ![a] = f] /\ RemotesSame
      BY <1>1, <2>1, <2>2, <3>1 DEF FixerGoes, RemotesSame
    <3>3. f \in FixerState /\ f.pc = "list" /\ f.attempt = b.attempt /\ f.new = b.new
      BY <3>1 DEF FixerState
    <3>4. Relies(a, f)
      BY <1>2, <2>1, <3>3 DEF Relies
    <3> QED
      BY <3>2, <3>3, <3>4, AloneRight
  <2>3. CASE mrs' = Append(mrs, NewMR(a))
    <3>1. PICK r \in MRRecord : r = NewMR(a) /\ r.by = a /\ r.attempt = b.attempt /\ r.text = b.attempt /\ r.title = b.attempt
      <4>1. PICK n : n = b.attempt /\ n \in Nat
        BY <1>3
      <4>2. PICK r : r = [by |-> a, state |-> "open", attempt |-> n, text |-> n, title |-> n]
        OBVIOUS
      <4>3. r \in MRRecord /\ r.by = a /\ r.attempt = n /\ r.text = n /\ r.title = n
        BY <4>1, <4>2 DEF MRRecord
      <4>4. r = NewMR(a)
        BY <1>1, <4>1, <4>2 DEF NewMR
      <4> QED
        BY <4>1, <4>3, <4>4
    <3>2. PICK n \in Nat : n = Len(mrs) + 1 /\ DOMAIN mrs = 1..Len(mrs) /\ Len(mrs) \in Nat
      BY <1>2
    <3>3. PICK s \in Seq(MRRecord) : s = mrs
      BY <1>2
    <3>4. mrs' = Append(s, r)
      BY <2>3, <3>1, <3>3
    <3>5. /\ mrs' \in Seq(MRRecord) /\ Len(mrs') = n /\ mrs'[n] = r
          /\ \A m \in DOMAIN mrs : mrs'[m] = mrs[m]
      BY <3>2, <3>3, <3>4, AppendProperties
    <3>6. DOMAIN mrs' = 1..n
      BY <3>5
    <3>7. DOMAIN mrs' = DOMAIN mrs \cup {n} /\ n \in DOMAIN mrs' /\ n \notin DOMAIN mrs
      BY <3>2, <3>6
    <3>8. \A m \in DOMAIN mrs' \ DOMAIN mrs : mrs'[m] = r
      BY <3>5, <3>7
    <3>9. PICK f : /\ fixer' = [fixer EXCEPT ![a] = f]
                   /\ f = [b EXCEPT !.pc = "done", !.mr = n, !.new = TRUE] \/ f = [b EXCEPT !.pc = "failed"]
      <4>1. CASE fixer' = [fixer EXCEPT ![a] = [fixer[a] EXCEPT !.pc = "done", !.mr = Len(mrs'), !.new = TRUE]]
        BY <1>1, <1>2, <3>5, <4>1
      <4>2. CASE FixerGoes(a, "failed")
        BY <1>1, <4>2 DEF FixerGoes
      <4>3. mrs' # mrs
        BY <3>2, <3>5
      <4> QED
        BY <1>5, <4>1, <4>2, <4>3 DEF CreateMR
    <3>10. /\ f \in FixerState /\ f.attempt = b.attempt /\ f.pc \in {"done", "failed"}
           /\ f.pc = "done" => f.mr = n /\ f.new
           /\ f.pc = "failed" => f.new = b.new
      BY <3>2, <3>9 DEF FixerState
    <3>11. \A m \in DOMAIN mrs' : mrs'[m].by = a => mrs'[m].attempt <= b.attempt
      <4> SUFFICES ASSUME NEW m \in DOMAIN mrs', mrs'[m].by = a PROVE mrs'[m].attempt <= b.attempt
        OBVIOUS
      <4>1. CASE m = n
        BY <1>3, <3>1, <3>5, <4>1
      <4>2. CASE m \in DOMAIN mrs
        BY <1>2, <3>5, <4>2 DEF Relies
      <4> QED
        BY <3>7, <4>1, <4>2
    <3>12. Relies(a, f)'
      BY <1>2, <2>1, <3>10, <3>11 DEF Relies
    <3>13. RemoteInv' /\ Kept
      BY <2>1, <3>1, <3>5, <3>7, <3>8, <3>9, <3>10, <3>12, MRStep
    <3>14. Reported
      <4>1. fixer'[a] = f /\ \A c \in Fixer \ {a} : fixer'[c] = fixer[c]
        BY <1>2, <3>9
      <4> SUFFICES ASSUME f.pc = "done"
                   PROVE  /\ {mrs'[f.mr].text, mrs'[f.mr].title, fork'.heads[a]} = {b.attempt}
                          /\ f.new = (mrs'[f.mr].attempt = b.attempt)
        BY <1>1, <4>1 DEF Reported
      <4>2. mrs'[f.mr] = r /\ fork'.heads[a] = b.attempt
        BY <2>1, <3>5, <3>10
      <4>3. f.new = TRUE
        BY <3>9, <3>10 DEF FixerState
      <4> QED
        BY <3>1, <4>2, <4>3
    <3> QED
      BY <3>13, <3>14 DEF StillRight
  <2> QED
    BY <1>5, <2>2, <2>3 DEF CreateMR
<1>6. ASSUME NEW pc \in {"describe", "entitle"}, b.pc = pc
      PROVE  /\ b.mr \in DOMAIN mrs /\ mrs[b.mr].by = a /\ mrs[b.mr] \in MRRecord
             /\ fork.heads[a] = b.attempt /\ b.new = FALSE
  <2>1. b.mr \in DOMAIN mrs /\ mrs[b.mr].by = a /\ fork.heads[a] = b.attempt /\ ~b.new
    BY <1>2, <1>6 DEF Relies
  <2>2. b.new \in BOOLEAN
    BY DEF FixerState
  <2>3. mrs[b.mr] \in MRRecord
    BY <1>2, <2>1
  <2> QED
    BY <2>1, <2>2, <2>3
<1>7. CASE Describe(a)
  <2>1. UNCHANGED <<distgit, mirror, fork>> /\ b.pc = "describe"
    BY <1>1, <1>7 DEF Describe, FixerAt
  <2>2. PICK o \in MRRecord : o = mrs[b.mr] /\ o.by = a
    BY <1>6, <2>1
  <2>3. PICK r : r = [o EXCEPT !.text = b.attempt]
    OBVIOUS
  <2>4. r \in MRRecord /\ r.by = o.by /\ r.attempt = o.attempt /\ r.text = b.attempt
    BY <1>3, <2>3 DEF MRRecord
  <2>5. mrs' = [mrs EXCEPT ![b.mr] = r]
    BY <1>1, <1>7, <2>2, <2>3 DEF Describe
  <2>6. /\ mrs' \in Seq(MRRecord) /\ DOMAIN mrs' = DOMAIN mrs /\ mrs'[b.mr] = r
        /\ \A x \in DOMAIN mrs : mrs'[x].by = mrs[x].by /\ mrs'[x].attempt = mrs[x].attempt
        /\ \A x \in DOMAIN mrs \ {b.mr} : mrs'[x] = mrs[x]
    BY <1>6, <2>1, <2>2, <2>4, <2>5, MRChanges
  <2>7. PICK f : f = [b EXCEPT !.pc = "entitle"]
    OBVIOUS
  <2>8. fixer' = [fixer EXCEPT ![a] = f]
    BY <1>1, <1>7, <2>7 DEF Describe, FixerGoes
  <2>9. f \in FixerState /\ f.pc = "entitle" /\ f.attempt = b.attempt /\ f.new = b.new /\ f.mr = b.mr
    BY <2>7 DEF FixerState
  <2>10. Relies(a, f)'
    BY <1>2, <1>6, <2>1, <2>4, <2>6, <2>9 DEF Relies
  <2>11. \A m \in DOMAIN mrs : mrs[m].by # a => mrs'[m] = mrs[m]
    BY <2>2, <2>6
  <2>12. RemoteInv' /\ Kept
    BY <2>1, <2>6, <2>8, <2>9, <2>10, <2>11, MRStep
  <2> QED
    BY <2>8, <2>9, <2>12, NoneReported DEF StillRight
<1>8. CASE Entitle(a)
  <2>1. UNCHANGED <<distgit, mirror, fork>> /\ b.pc = "entitle"
    BY <1>1, <1>8 DEF Entitle, FixerAt
  <2>2. PICK o \in MRRecord : o = mrs[b.mr] /\ o.by = a /\ o.text = b.attempt /\ o.attempt # b.attempt
    BY <1>2, <1>3, <1>4, <1>6, <2>1 DEF Relies
  <2>3. PICK r : r = [o EXCEPT !.title = b.attempt]
    OBVIOUS
  <2>4. r \in MRRecord /\ r.by = o.by /\ r.attempt = o.attempt /\ r.text = b.attempt /\ r.title = b.attempt
    BY <1>3, <2>2, <2>3 DEF MRRecord
  <2>5. mrs' = [mrs EXCEPT ![b.mr] = r]
    BY <1>1, <1>8, <2>2, <2>3 DEF Entitle
  <2>6. /\ mrs' \in Seq(MRRecord) /\ DOMAIN mrs' = DOMAIN mrs /\ mrs'[b.mr] = r
        /\ \A x \in DOMAIN mrs : mrs'[x].by = mrs[x].by /\ mrs'[x].attempt = mrs[x].attempt
        /\ \A x \in DOMAIN mrs \ {b.mr} : mrs'[x] = mrs[x]
    BY <1>6, <2>1, <2>2, <2>4, <2>5, MRChanges
  <2>7. PICK f : f = [b EXCEPT !.pc = "done"]
    OBVIOUS
  <2>8. fixer' = [fixer EXCEPT ![a] = f]
    BY <1>1, <1>8, <2>7 DEF Entitle, FixerGoes
  <2>9. f \in FixerState /\ f.pc = "done" /\ f.attempt = b.attempt /\ f.new = b.new /\ f.mr = b.mr
    BY <2>7 DEF FixerState
  <2>10. Relies(a, f)'
    BY <1>2, <2>6, <2>9 DEF Relies
  <2>11. \A m \in DOMAIN mrs : mrs[m].by # a => mrs'[m] = mrs[m]
    BY <2>2, <2>6
  <2>12. RemoteInv' /\ Kept
    BY <2>1, <2>6, <2>8, <2>9, <2>10, <2>11, MRStep
  <2>13. Reported
    <3>1. fixer'[a] = f /\ \A c \in Fixer \ {a} : fixer'[c] = fixer[c]
      BY <1>2, <2>8
    <3>2. fork'.heads[a] = b.attempt /\ f.new = FALSE
      BY <1>6, <2>1, <2>9
    <3>3. mrs'[f.mr] = r
      BY <2>6, <2>9
    <3>4. ASSUME NEW c \in Fixer, fixer[c].pc # "done", fixer'[c].pc = "done" PROVE c = a
      BY <3>1, <3>4
    <3>5. /\ {mrs'[f.mr].text, mrs'[f.mr].title, fork'.heads[a]} = {b.attempt}
          /\ f.new = (mrs'[f.mr].attempt = b.attempt)
      BY <2>2, <2>4, <3>2, <3>3
    <3> QED
      BY <1>1, <3>1, <3>4, <3>5 DEF Reported
  <2> QED
    BY <2>12, <2>13 DEF StillRight
<1> QED
  BY <1>5, <1>7, <1>8

(***************************************************************************)
(* The branch of a stream starts at a build or its NVR, nothing that was   *)
(* merged is taken back, and a merge request is reported with what the     *)
(* reporting attempt made, for any agents, commits, faults and retries.    *)
(***************************************************************************)
THEOREM RemotesSafety == ServicesSpec => RemotesSound
<1>1. ServicesInit => RemoteInv
  <2> SUFFICES ASSUME RemoteInit PROVE RemoteInv
    BY DEF ServicesInit
  <2>1. /\ distgit.main = 2 /\ distgit.builds = {1} /\ distgit.branch = NoBranch /\ distgit.fromMain \in BOOLEAN
        /\ distgit \in [main : {2}, builds : {{1}}, branch : {NoBranch}, fromMain : BOOLEAN]
    BY DEF RemoteInit
  <2>2. NoBranch \in Branch
    BY DEF NoBranch, Branch
  <2>3. distgit \in [main : Nat, builds : SUBSET Nat, branch : Branch, fromMain : BOOLEAN]
    BY <2>1, <2>2
  <2>4. NewFixer \in FixerState /\ NewFixer.pc = "fork" /\ NewFixer.new = FALSE
    BY DEF NewFixer, NoMR, FixerState
  <2>5. fixer \in [Fixer -> FixerState] /\ \A a \in Fixer : fixer[a] = NewFixer
    BY <2>4 DEF RemoteInit
  <2>6. mrs = <<>> /\ mrs \in Seq(MRRecord) /\ DOMAIN mrs = {}
    BY DEF RemoteInit
  <2>7. fork \in [state : {"absent", "importing", "ready", "failed"}, heads : [Fixer -> Nat]]
    BY DEF RemoteInit
  <2>8. RemoteTypeOK
    BY <2>3, <2>5, <2>6, <2>7 DEF RemoteTypeOK
  <2>9. Latest /\ BranchOfBuild
    BY <2>1 DEF Latest, BranchOfBuild
  <2> HIDE DEF NewFixer
  <2>10. \A a \in Fixer : Relies(a, fixer[a])
    BY <2>4, <2>5, <2>6 DEF Relies
  <2> QED
    BY <2>8, <2>9, <2>10 DEF RemoteInv
<1>2. ASSUME RemoteInv, [ServicesNext]_servicesVars PROVE RemoteInv' /\ (UNCHANGED remoteVars \/ (Kept /\ Reported))
  <2>1. RemoteNext \/ UNCHANGED remoteVars
    BY <1>2 DEF ServicesNext, servicesVars
  <2>2. CASE UNCHANGED remoteVars
    <3>1. UNCHANGED <<distgit, mirror, fork, mrs, fixer>>
      BY <2>2 DEF remoteVars
    <3>2. RemoteTypeOK' /\ Latest' /\ BranchOfBuild'
      BY <1>2, <3>1 DEF RemoteInv, RemoteTypeOK, Latest, BranchOfBuild
    <3>3. RemoteInv'
      BY <1>2, <3>1, <3>2, OutsideKeeps
    <3> QED
      BY <2>2, <3>3
  <2>3. CASE RemoteNext
    BY <1>2, <2>3, OutsideSteps, PreparationSteps, PushSteps, RequestSteps DEF RemoteNext, StillRight
  <2> QED
    BY <2>1, <2>2, <2>3
<1>3. RemoteInv /\ [ServicesNext]_servicesVars => RemoteInv'
  BY <1>2
<1>4. RemoteInv /\ [ServicesNext]_servicesVars =>
        [distgit'.branch.merged >= distgit.branch.merged
                 /\ distgit'.branch.base >= distgit.branch.base]_remoteVars
  BY <1>2 DEF Kept
<1>5. RemoteInv /\ [ServicesNext]_servicesVars =>
        [\A a \in Fixer : fixer[a].pc # "done" /\ fixer'[a].pc = "done" =>
          LET m == mrs'[fixer'[a].mr] IN
          /\ {m.text, m.title, fork'.heads[a]} = {fixer[a].attempt}
          /\ fixer'[a].new = (m.attempt = fixer[a].attempt)]_remoteVars
  BY <1>2 DEF Reported
<1>6. RemoteInv => BranchOfBuild
  BY DEF RemoteInv
<1> QED
  BY <1>1, <1>3, <1>4, <1>5, <1>6, PTL DEF ServicesSpec, RemotesSound, MergedKept, ReportedMR
=============================================================================
