---------------------------- MODULE Reservations ----------------------------
(***************************************************************************)
(* Testing Farm machines and the gateway's tools that reserve them, look   *)
(* for their hosts, run commands there and cancel them                     *)
(* (ymir/tools/privileged/testing_farm.py), with the list of hosts that    *)
(* the jobs of an issue may use, and the middleware that cancels what an   *)
(* agent leaves behind (ymir/agents/tf_cleanup_middleware.py).  An agent   *)
(* may call several tools at once; hosts are used again.  Composes, keys,  *)
(* the scope of local paths and the output of commands are left out.       *)
(***************************************************************************)
EXTENDS Integers, FiniteSets

CONSTANTS
    Machine,        \* reservation requests
    Holder,         \* Holder[r]: the issue whose job makes r
    Host,           \* addresses of machines
    NoHost,
    MaxFarmFaults   \* failing calls, lost answers and restarts of the gateway

ASSUME FarmAssumption == MaxFarmFaults \in Nat /\ NoHost \notin Host

VARIABLES
    machine,    \* machine[r]: what Testing Farm knows of r
    call,       \* call[r]: the tool calls about r, and what the agent knows
    allowed,    \* _allowed_ssh_hosts: by issue
    overlapped, \* reservations looked at while they were cancelled
    farmFaults
farmVars == <<machine, call, allowed, overlapped, farmFaults>>

Job == {Holder[r] : r \in Machine}
(* "known": in _reserved; "gone": in _cancelled. *)
FarmInit ==
    /\ machine = [r \in Machine |-> [state |-> "none", host |-> NoHost]]
    /\ call = [r \in Machine |-> [look |-> "no", cancel |-> "no", known |-> FALSE, gone |-> FALSE, on |-> NoHost]]
    /\ allowed = [i \in Job |-> {}]
    /\ overlapped = {} /\ farmFaults = 0

-----------------------------------------------------------------------------
FarmFault  == farmFaults < MaxFarmFaults /\ farmFaults' = farmFaults + 1
SetCall(r, new) == call' = [call EXCEPT ![r] = new]
Live       == {r \in Machine : machine[r].state \in {"new", "running"}}

(* reserve_testing_farm_machine; the answer may get lost. *)
Reserve(r) ==
    /\ machine[r].state = "none"
    /\ machine' = [machine EXCEPT ![r].state = "new"]
    /\ \/ SetCall(r, [call[r] EXCEPT !.known = TRUE]) /\ UNCHANGED farmFaults
       \/ FarmFault /\ UNCHANGED call
    /\ UNCHANGED <<allowed, overlapped>>

(* get_testing_farm_reservation_details: polls, then reads the log, then      *)
(* registers the host; it gives up on a terminal state or after its attempts. *)
Look(r) ==
    /\ call[r].known /\ ~call[r].gone /\ call[r].look = "no"
    /\ SetCall(r, [call[r] EXCEPT !.look = "polling"])
    /\ overlapped' = IF call[r].cancel = "no" THEN overlapped ELSE overlapped \cup {r}
    /\ UNCHANGED <<machine, allowed, farmFaults>>
SeeRunning(r) ==
    /\ call[r].look = "polling" /\ machine[r].state = "running"
    /\ SetCall(r, [call[r] EXCEPT !.look = "ready"])
    /\ UNCHANGED <<machine, allowed, overlapped, farmFaults>>
Register(r) ==
    /\ call[r].look = "ready"
    /\ allowed' = [allowed EXCEPT ![Holder[r]] = @ \cup {machine[r].host}]
    /\ SetCall(r, [call[r] EXCEPT !.look = "no"])
    /\ UNCHANGED <<machine, overlapped, farmFaults>>
GiveUpLooking(r) ==
    /\ call[r].look # "no" /\ SetCall(r, [call[r] EXCEPT !.look = "no"])
    /\ UNCHANGED <<machine, allowed, overlapped, farmFaults>>

(* run_remote_command and copy_files_to_remote; r stands for the call. *)
Run(r, h) ==
    /\ call[r].on = NoHost /\ h \in allowed[Holder[r]]
    /\ SetCall(r, [call[r] EXCEPT !.on = h])
    /\ UNCHANGED <<machine, allowed, overlapped, farmFaults>>
RunDone(r) ==
    /\ call[r].on # NoHost /\ SetCall(r, [call[r] EXCEPT !.on = NoHost])
    /\ UNCHANGED <<machine, allowed, overlapped, farmFaults>>

(* cancel_testing_farm_request, called by the agent or by the clean-up of the *)
(* middleware: the request is deleted, then all hosts of the issue forgotten. *)
Cancel(r) ==
    /\ call[r].known /\ ~call[r].gone /\ call[r].cancel = "no"
    /\ SetCall(r, [call[r] EXCEPT !.cancel = "sent"])
    /\ overlapped' = IF call[r].look = "no" THEN overlapped ELSE overlapped \cup {r}
    /\ UNCHANGED <<machine, allowed, farmFaults>>
Deleted(r) ==
    /\ call[r].cancel = "sent"
    /\ \/ /\ machine' = [machine EXCEPT ![r].state = IF r \in Live THEN "canceled" ELSE @]
          /\ SetCall(r, [call[r] EXCEPT !.cancel = "deleted"]) /\ UNCHANGED farmFaults
       \/ /\ FarmFault /\ SetCall(r, [call[r] EXCEPT !.cancel = "no"])
          /\ machine' \in {machine, [machine EXCEPT ![r].state = IF r \in Live THEN "canceled" ELSE @]}
    /\ UNCHANGED <<allowed, overlapped>>
(* Mutant: the hosts stay on the list. *)
ForgetNot(r) ==
    /\ call[r].cancel = "deleted"
    /\ SetCall(r, [call[r] EXCEPT !.cancel = "no", !.gone = TRUE])
    /\ UNCHANGED <<machine, allowed, overlapped, farmFaults>>

Forget(r) ==
    /\ call[r].cancel = "deleted"
    /\ allowed' = [allowed EXCEPT ![Holder[r]] = {}]
    /\ SetCall(r, [call[r] EXCEPT !.cancel = "no", !.gone = TRUE])
    /\ UNCHANGED <<machine, overlapped, farmFaults>>

(* The gateway restarts: what was under way and the list are gone. *)
GatewayRestarts ==
    /\ FarmFault /\ allowed' = [i \in Job |-> {}]
    /\ call' = [r \in Machine |-> [call[r] EXCEPT !.look = "no", !.cancel = "no", !.on = NoHost]]
    /\ UNCHANGED <<machine, overlapped>>

(* Testing Farm: a free host is given out; after half an hour it is taken     *)
(* back.                                                                      *)
Provision(r) ==
    /\ machine[r].state = "new"
    /\ \E h \in Host \ {machine[x].host : x \in {y \in Live : machine[y].state = "running"}} :
          machine' = [machine EXCEPT ![r] = [state |-> "running", host |-> h]]
    /\ UNCHANGED <<call, allowed, overlapped, farmFaults>>
Expire(r) ==
    /\ machine[r].state = "running" /\ machine' = [machine EXCEPT ![r].state = "complete"]
    /\ UNCHANGED <<call, allowed, overlapped, farmFaults>>

FarmNext ==
    \/ GatewayRestarts
    \/ \E r \in Machine :
          \/ Reserve(r) \/ Look(r) \/ SeeRunning(r) \/ Register(r) \/ GiveUpLooking(r)
          \/ Cancel(r) \/ Deleted(r) \/ Forget(r) \/ Provision(r) \/ Expire(r) \/ RunDone(r)
          \/ \E h \in Host : Run(r, h)

-----------------------------------------------------------------------------
(* A command never starts on a machine that another issue's job has meanwhile *)
(* got, unless the issue's own reservation of that address ran out without    *)
(* being cancelled, its cancellation was not confirmed, or it was looked at   *)
(* and cancelled at the same time.                                            *)
NoForeignMachine ==
    [][\A r \in Machine : call[r].on = NoHost /\ call'[r].on # NoHost =>
          LET own == {x \in Machine : Holder[x] = Holder[r] /\ machine[x].host = call'[r].on}
          IN  \E x \in own : machine[x].state \in {"running", "complete"} \/ x \in overlapped \/ ~call[x].gone]_farmVars
=============================================================================
