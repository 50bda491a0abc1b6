--------------------------------- MODULE Infra ---------------------------------
(***************************************************************************)
(* The AWS resources of one orchestrator run: what LaunchPlan::launch      *)
(* creates, what InfraDetail::cleanup deletes, and what is left when the   *)
(* orchestrator returns or panics on the way (src/ec2_utils.rs, ec2_utils/,*)
(* orchestrator::run).                                                     *)
(*                                                                         *)
(* The orchestrator is sequential; EC2 boots and terminates instances in   *)
(* its own time.  Every call it makes may fail, and then has no effect.    *)
(* Of the netbench run itself (modules Ssm and Russula) only two things    *)
(* matter here: it may panic, and in the Full mode it first schedules the  *)
(* shutdown of every host.                                                 *)
(***************************************************************************)
EXTENDS Integers, FiniteSets

CONSTANTS
  Count,      \* [{"server", "client"} -> Nat]: hosts configured
  A,          \* number of availability zones, numbered as placement_map lists them
  Placement,  \* [Hosts -> 0..A]: zone whose placement group a host is in, or 0
  MaxRetries, \* bound: further attempts to delete a group
  Faults      \* bound: what may fail, a subset of FaultKinds

Groups == {"server", "client"}
Hosts  == UNION {{g} \X (1..Count[g]) : g \in Groups}
Zones  == 1..A

(* "create", "launch", "describe", "routing", "terminate", "delete": a call*)
(* of that kind fails; "boot": an instance ends before it was running;     *)
(* "no_ip": it runs without a usable address; "run": netbench panics.      *)
FaultKinds == {"create", "launch", "describe", "routing", "terminate", "delete",
               "boot", "no_ip", "run"}

ASSUME InfraAssumption ==
  /\ Count \in [Groups -> Nat]
  /\ A \in Nat \ {0}
  /\ Placement \in [Hosts -> 0..A]
  /\ MaxRetries \in Nat
  /\ Faults \subseteq FaultKinds

VARIABLES
  mode,    \* RunMode: "TestInfra" or "Full"
  pc,      \* where the orchestrator is
  batch,   \* Groups: the hosts being launched
  next,    \* Nat: the zone or the host of the batch being worked on
  failed,  \* BOOLEAN: a launch_instances of this batch failed
  tracked, \* SUBSET Hosts: infra.servers and infra.clients
  retries, \* Nat: attempts left to delete a group
  sg,      \* the security group: "none", "exists" or "deleted"
  group,   \* [Zones -> ...]: the placement groups, likewise
  inst,    \* [Hosts -> ...]: the instances, as EC2 sees them
  armed    \* SUBSET Hosts: hosts that will shut down by themselves

orchVars  == <<mode, pc, batch, next, failed, tracked, retries>>
cloudVars == <<sg, group, inst, armed>>
vars      == <<orchVars, cloudVars>>

Init ==
  /\ mode \in {"TestInfra", "Full"}
  /\ pc = "create_sg" /\ batch = "server" /\ next = 1 /\ failed = FALSE
  /\ tracked = {} /\ retries = 0
  /\ sg = "none"
  /\ group = [z \in Zones |-> "none"]
  /\ inst = [h \in Hosts |-> "none"]
  /\ armed = {}

Halted == pc \in {"ok", "err", "panicked"}
Gone(h) == inst[h] \in {"none", "terminated"}
Live(h) == inst[h] \in {"pending", "running"}

Goto(label)    == pc' = label /\ UNCHANGED <<mode, batch, next, failed, tracked, retries>>
Restart(label) == pc' = label /\ next' = 1 /\ UNCHANGED <<mode, batch, failed, tracked, retries>>
NextOne        == next' = next + 1 /\ UNCHANGED <<mode, pc, batch, failed, tracked, retries>>

--------------------------------------------------------------------------------
(* LaunchPlan::launch.  An error before the hosts are launched, or while   *)
(* they are polled, is returned without any cleanup; the one of            *)
(* create_security_group is unwrapped.                                     *)
CreateSecurityGroup ==
  /\ pc = "create_sg"
  /\ \/ sg' = "exists" /\ Goto("create_groups")
     \/ "create" \in Faults /\ UNCHANGED sg /\ Goto("panicked")
  /\ UNCHANGED <<group, inst, armed>>

CreatePlacementGroup ==
  /\ pc = "create_groups"
  /\ \/ next \in Zones /\ group' = [group EXCEPT ![next] = "exists"] /\ NextOne
     \/ next \in Zones /\ "create" \in Faults /\ UNCHANGED group /\ Goto("err")
     \/ next > A /\ UNCHANGED group /\ Restart("launch")
  /\ UNCHANGED <<sg, inst, armed>>

Host == <<batch, next>>

(* launch_instances for each host of the batch, also after one has failed. *)
LaunchInstance ==
  /\ pc = "launch" /\ next <= Count[batch]
  /\ \/ inst' = [inst EXCEPT ![Host] = "pending"] /\ UNCHANGED failed
     \/ "launch" \in Faults /\ failed' = TRUE /\ UNCHANGED inst
  /\ next' = next + 1
  /\ UNCHANGED <<mode, pc, batch, tracked, retries, sg, group, armed>>

(* All of them succeeded, or infra is cleaned up as it is: without the     *)
(* hosts of this batch.                                                    *)
BatchLaunched ==
  /\ pc = "launch" /\ next > Count[batch]
  /\ Restart(IF failed THEN "terminate" ELSE "poll")
  /\ UNCHANGED cloudVars

(* Faulty: an instance is tracked when it has been asked about once.       *)
PollRunningOnce ==
  /\ pc = "poll" /\ next <= Count[batch]
  /\ tracked' = tracked \cup {Host}
  /\ next' = next + 1
  /\ UNCHANGED <<mode, pc, batch, failed, retries, cloudVars>>

(* poll_running, then push: asks until the instance is running, for ever if*)
(* it never will be.                                                       *)
PollRunning ==
  /\ pc = "poll" /\ next <= Count[batch]
  /\ IF inst[Host] = "running"
     THEN tracked' = tracked \cup {Host} /\ next' = next + 1
     ELSE UNCHANGED <<tracked, next>>
  /\ UNCHANGED <<mode, pc, batch, failed, retries, cloudVars>>

(* The call is unwrapped; the error for a missing address is returned.     *)
PollRunningFails ==
  /\ pc = "poll" /\ next <= Count[batch]
  /\ \/ "describe" \in Faults /\ Goto("panicked")
     \/ "no_ip" \in Faults /\ inst[Host] = "running" /\ Goto("err")
  /\ UNCHANGED cloudVars

(* The servers are running: the clients are next, and then the routing.    *)
BatchRunning ==
  /\ pc = "poll" /\ next > Count[batch]
  /\ pc' = IF batch = "server" THEN "launch" ELSE "routing"
  /\ batch' = "client" /\ next' = 1
  /\ UNCHANGED <<mode, failed, tracked, retries, cloudVars>>

(* set_routing_permissions, whose error is returned, and the two updates of*)
(* the dashboard, whose uploads are unwrapped.                             *)
SetRouting ==
  /\ pc = "routing"
  /\ Goto("run") \/ ("routing" \in Faults /\ \E end \in {"err", "panicked"} : Goto(end))
  /\ UNCHANGED cloudVars

--------------------------------------------------------------------------------
(* The run on the hosts.  Step Configure schedules the shutdown of a host, *)
(* and no run gets past it while a host is not configured (module Ssm,     *)
(* StepsInOrder).  TestInfra skips the run.  SSM rejects a command that    *)
(* names no instance: a group without hosts ends the run, the servers first.*)
EmptyGroup == \E g \in Groups : Count[g] = 0

Configure(h) ==
  /\ pc = "run" /\ mode = "Full" /\ Count["server"] > 0
  /\ h \in tracked \ armed /\ inst[h] = "running"
  /\ armed' = armed \cup {h}
  /\ UNCHANGED <<orchVars, sg, group, inst>>

RunEnds ==
  /\ pc = "run"
  /\ mode = "Full" => tracked \subseteq armed /\ ~EmptyGroup
  /\ Goto("terminate")
  /\ UNCHANGED cloudVars

RunPanics ==
  /\ pc = "run" /\ mode = "Full" /\ ("run" \in Faults \/ EmptyGroup)
  /\ Goto("panicked")
  /\ UNCHANGED cloudVars

--------------------------------------------------------------------------------
(* InfraDetail::cleanup.  After a failed launch its outcome is ignored and *)
(* the launch error returned; run unwraps it.                              *)
CleanupEnds(ok) == Goto(IF failed THEN "err" ELSE IF ok THEN "ok" ELSE "panicked")

StartDelete(label) ==
  /\ pc' = label /\ next' = 1 /\ retries' = MaxRetries
  /\ UNCHANGED <<mode, batch, failed, tracked>>

(* Faulty: only the clients are chained in.                                *)
DeleteInstancesOfClients ==
  /\ pc = "terminate" /\ tracked # {}
  /\ inst' = [h \in Hosts |-> IF h \in tracked /\ h[1] = "client" /\ Live(h)
                              THEN "terminating" ELSE inst[h]]
  /\ StartDelete("delete_groups")
  /\ UNCHANGED <<sg, group, armed>>

DeleteInstances ==
  /\ pc = "terminate" /\ tracked # {}
  /\ inst' = [h \in Hosts |-> IF h \in tracked /\ Live(h) THEN "terminating" ELSE inst[h]]
  /\ StartDelete("delete_groups")
  /\ UNCHANGED <<sg, group, armed>>

(* EC2 rejects a call that names no instance at all.                       *)
DeleteInstancesFails ==
  /\ pc = "terminate"
  /\ tracked = {} \/ "terminate" \in Faults
  /\ CleanupEnds(FALSE)
  /\ UNCHANGED cloudVars

(* EC2 keeps a group while an instance uses it.                            *)
GroupInUse(z) == \E h \in Hosts : Placement[h] = z /\ ~Gone(h)
SgInUse       == \E h \in Hosts : ~Gone(h)

(* The error of the last attempt is dropped.                               *)
DeletePlacementGroup ==
  /\ pc = "delete_groups" /\ next \in Zones
  /\ \/ /\ ~GroupInUse(next)
        /\ group' = [group EXCEPT ![next] = "deleted"]
        /\ next' = next + 1 /\ retries' = MaxRetries
     \/ /\ GroupInUse(next) \/ "delete" \in Faults
        /\ UNCHANGED group
        /\ IF retries > 0 THEN retries' = retries - 1 /\ UNCHANGED next
                          ELSE next' = next + 1 /\ retries' = MaxRetries
  /\ UNCHANGED <<mode, pc, batch, failed, tracked, sg, inst, armed>>

PlacementGroupsDone ==
  /\ pc = "delete_groups" /\ next > A
  /\ StartDelete("delete_sg")
  /\ UNCHANGED cloudVars

DeleteSecurityGroup ==
  /\ pc = "delete_sg" /\ ~SgInUse
  /\ sg' = "deleted"
  /\ CleanupEnds(TRUE)
  /\ UNCHANGED <<group, inst, armed>>

(* Faulty: the error of the last attempt is dropped here as well.          *)
DeleteSecurityGroupFailsQuietly ==
  /\ pc = "delete_sg" /\ (SgInUse \/ "delete" \in Faults)
  /\ IF retries > 0
     THEN retries' = retries - 1 /\ UNCHANGED <<mode, pc, batch, next, failed, tracked>>
     ELSE CleanupEnds(TRUE)
  /\ UNCHANGED cloudVars

(* Faulty: the attempts are not counted.                                   *)
DeleteSecurityGroupFailsAgain ==
  /\ pc = "delete_sg" /\ (SgInUse \/ "delete" \in Faults)
  /\ UNCHANGED vars

(* Faulty: one attempt too many.                                           *)
DeleteSecurityGroupFailsLate ==
  /\ pc = "delete_sg" /\ (SgInUse \/ "delete" \in Faults)
  /\ IF retries >= 0
     THEN retries' = retries - 1 /\ UNCHANGED <<mode, pc, batch, next, failed, tracked>>
     ELSE CleanupEnds(FALSE)
  /\ UNCHANGED cloudVars

DeleteSecurityGroupFails ==
  /\ pc = "delete_sg" /\ (SgInUse \/ "delete" \in Faults)
  /\ IF retries > 0
     THEN retries' = retries - 1 /\ UNCHANGED <<mode, pc, batch, next, failed, tracked>>
     ELSE CleanupEnds(FALSE)
  /\ UNCHANGED cloudVars

--------------------------------------------------------------------------------
(* EC2.  An instance boots, or ends before it was running; one that is     *)
(* terminating comes to its end.                                           *)
Boot(h) ==
  /\ inst[h] = "pending"
  /\ \/ inst' = [inst EXCEPT ![h] = "running"]
     \/ "boot" \in Faults /\ inst' = [inst EXCEPT ![h] = "terminated"]
  /\ UNCHANGED <<orchVars, sg, group, armed>>

Terminate(h) ==
  /\ inst[h] = "terminating"
  /\ inst' = [inst EXCEPT ![h] = "terminated"]
  /\ UNCHANGED <<orchVars, sg, group, armed>>

(* Faulty: a host that shuts down stops, and can be started again.         *)
ShutDownToStop(h) ==
  /\ h \in armed /\ inst[h] = "running"
  /\ inst' = [inst EXCEPT ![h] = "stopped"]
  /\ UNCHANGED <<orchVars, sg, group, armed>>

(* shutdown -P, on an instance whose shutdown behaviour is Terminate.      *)
ShutDown(h) ==
  /\ h \in armed /\ inst[h] = "running"
  /\ inst' = [inst EXCEPT ![h] = "terminating"]
  /\ UNCHANGED <<orchVars, sg, group, armed>>

Terminating == Halted /\ UNCHANGED vars

--------------------------------------------------------------------------------
Launch ==
  \/ CreateSecurityGroup \/ CreatePlacementGroup \/ LaunchInstance \/ BatchLaunched
  \/ PollRunning \/ PollRunningFails \/ BatchRunning \/ SetRouting

Cleanup ==
  \/ DeleteInstances \/ DeleteInstancesFails \/ DeletePlacementGroup
  \/ PlacementGroupsDone \/ DeleteSecurityGroup \/ DeleteSecurityGroupFails

Orchestrate == Launch \/ RunEnds \/ RunPanics \/ Cleanup
Ec2(h)      == Boot(h) \/ ShutDown(h) \/ Terminate(h)

Next ==
  \/ Orchestrate
  \/ \E h \in Hosts : Configure(h) \/ Ec2(h)
  \/ Terminating

(* The orchestrator goes on, every host it can reach gets configured, and  *)
(* EC2 boots, shuts down and terminates what it was asked to.              *)
Spec == /\ Init /\ [][Next]_vars
        /\ WF_vars(Orchestrate)
        /\ \A h \in Hosts : WF_vars(Configure(h)) /\ WF_vars(Ec2(h))

--------------------------------------------------------------------------------
(* PROPERTIES                                                              *)

(* Types of the variables, and bounds of the counters.                     *)
TypeOK ==
  /\ mode \in {"TestInfra", "Full"}
  /\ Halted \/ pc \in {"create_sg", "create_groups", "launch", "poll", "routing", "run",
                       "terminate", "delete_groups", "delete_sg"}
  /\ batch \in Groups
  /\ next \in Nat
  /\ pc \in {"launch", "poll"} => next <= Count[batch] + 1
  /\ failed \in BOOLEAN
  /\ tracked \subseteq Hosts
  /\ retries \in 0..MaxRetries
  /\ sg \in {"none", "exists", "deleted"}
  /\ group \in [Zones -> {"none", "exists", "deleted"}]
  /\ inst \in [Hosts -> {"none", "pending", "running", "terminating", "terminated"}]
  /\ armed \subseteq Hosts

(* When the run begins, infra lists every host that was asked for, all of  *)
(* them are running, or were until they shut themselves down, and the      *)
(* groups they use exist: launch returns Ok for nothing less.              *)
ReadyToRun ==
  pc = "run" =>
    /\ tracked = Hosts
    /\ \A h \in Hosts \ armed : inst[h] = "running"
    /\ sg = "exists" /\ \A z \in Zones : group[z] = "exists"

(* Once terminate_instances has gone through, an instance may be left only *)
(* of the batch whose launch failed: no host of a batch that was running   *)
(* is forgotten, neither after a run nor after a failed launch.            *)
LeavesOnlyFailedBatch ==
  pc \in {"delete_groups", "delete_sg", "ok"} =>
    \A h \in Hosts : Live(h) => failed /\ h[1] = batch

(* run returns Ok only when every instance is terminated and the security  *)
(* group is gone, however the retries of the cleanup went.  (Placement     *)
(* groups may be left: their errors are dropped.)                          *)
OkMeansReleased ==
  pc = "ok" => sg = "deleted" /\ \A h \in Hosts : inst[h] = "terminated"

(* Once a full run has begun, every host ends, even if the run panics and  *)
(* there is no cleanup, or the cleanup fails at once: the shutdown that    *)
(* Configure schedules is the second line.  Only a panic before a host was *)
(* configured may leave it running.                                        *)
HostsReleased ==
  (pc = "run" /\ mode = "Full")
    ~> (\A h \in Hosts : inst[h] = "terminated" \/ (pc = "panicked" /\ h \notin armed))

(* The orchestrator returns or panics, unless it is polling an instance    *)
(* that ended before it ever was running.  (That the netbench run ends is  *)
(* assumed here; Russula!EveryoneHalts says when it does.)                 *)
ReturnsUnlessBootFails ==
  <>(Halted \/ (pc = "poll" /\ next <= Count[batch] /\ inst[Host] = "terminated"))

(* launch_plan.rs:111, 154: "cleanup instances if a launch failed".        *)
FailedLaunchCleansUp ==
  pc = "err" /\ failed => \A h \in Hosts : ~Live(h)
================================================================================
