------------------------------ MODULE InfraProofs ------------------------------
(***************************************************************************)
(* Safety of module Infra for any number of hosts and zones, any placement *)
(* and any faults: what the run finds when it begins, and what a cleanup   *)
(* leaves behind.  The last part is about module Config, and it alone uses *)
(* ConfigAssumption: whatever request the checks there let through, its    *)
(* plan is one that module Infra is about.                                 *)
(***************************************************************************)
EXTENDS Config, FunctionTheorems, FiniteSetTheorems, TLAPS

ServerHosts == {h \in Hosts : h[1] = "server"}

(* The hosts of the batches before the current one.                        *)
Earlier == IF batch = "server" THEN {} ELSE ServerHosts

(* The hosts of the current batch whose number is below next.              *)
Below == {h \in Hosts : h[1] = batch /\ h[2] < next}

Setup      == pc \in {"create_sg", "create_groups"}
Launching  == pc \in {"launch", "poll"}
Prepared   == pc \in {"routing", "run"}
Cleaning   == pc \in {"terminate", "delete_groups", "delete_sg"}
Terminated == pc \in {"delete_groups", "delete_sg", "ok"}

(* Which groups exist.                                                     *)
GroupsHere ==
  /\ pc = "create_sg" => next = 1
  /\ pc \in {"create_groups", "launch", "poll", "routing", "run"} => sg = "exists"
  /\ pc = "create_groups" => \A z \in Zones : z < next => group[z] = "exists"
  /\ Launching \/ Prepared => \A z \in Zones : group[z] = "exists"
  /\ pc = "ok" => sg = "deleted"

(* Which hosts infra lists.                                                *)
TrackedHere ==
  /\ Setup => tracked = {} /\ batch = "server"
  /\ pc = "launch" => tracked = Earlier
  /\ pc = "poll" => tracked = Earlier \cup Below
  /\ Prepared => tracked = Hosts
  /\ Cleaning \/ pc = "ok" => tracked = IF failed THEN Earlier ELSE Hosts
  /\ failed => pc \in {"launch", "err"} \/ Cleaning
  /\ armed \subseteq tracked
  /\ Setup \/ Launching \/ pc = "routing" => armed = {}

(* What is known of the instances: a host is listed only when it has been  *)
(* running, a host of a later batch does not exist yet, and terminating    *)
(* spares no listed host.                                                  *)
InstancesHere ==
  /\ \A h \in tracked : inst[h] # "none"
  /\ Launching \/ Prepared => \A h \in tracked \ armed : inst[h] = "running"
  /\ batch = "server" => \A h \in Hosts : h[1] = "client" => inst[h] = "none"
  /\ pc = "launch" /\ ~failed => \A h \in Below : inst[h] # "none"
  /\ pc = "poll" => \A h \in Hosts : h[1] = batch => inst[h] # "none"
  /\ Terminated => \A h \in tracked : ~Live(h)
  /\ pc = "ok" => ~failed /\ \A h \in Hosts : Gone(h)

(* TypeOK has no bound on next elsewhere; only its lower one is missing.   *)
IInv == TypeOK /\ next >= 1 /\ GroupsHere /\ TrackedHere /\ InstancesHere

--------------------------------------------------------------------------------
(* A host is a group and a number, and Hosts has all of them.              *)
LEMMA HostFacts ==
  /\ \A h \in Hosts : h[1] \in Groups /\ h[2] \in 1..Count[h[1]] /\ h = <<h[1], h[2]>>
  /\ \A g \in Groups : \A n \in 1..Count[g] : <<g, n>> \in Hosts
  BY DEF Hosts, Groups

(* The bounds are natural numbers.                                         *)
LEMMA Bounds ==
  MaxRetries \in Nat /\ A \in Nat /\ \A g \in Groups : Count[g] \in Nat
  BY InfraAssumption DEF InfraAssumption

(* The sets of labels are abbreviations, expanded everywhere.              *)
USE DEF Halted, Setup, Launching, Prepared, Cleaning, Terminated

(* The first states satisfy the invariant.                                 *)
LEMMA InitIInv == Init => IInv
<1> SUFFICES ASSUME Init PROVE IInv
  OBVIOUS
<1>1. 0 <= MaxRetries /\ retries \in 0..MaxRetries
  BY Bounds DEF Init
<1>2. TypeOK /\ next >= 1
  <2>1. inst \in [Hosts -> {"none", "pending", "running", "terminating", "terminated"}]
    BY DEF Init
  <2>2. group \in [Zones -> {"none", "exists", "deleted"}]
    BY DEF Init
  <2>3. /\ mode \in {"TestInfra", "Full"} /\ pc = "create_sg" /\ batch \in Groups
        /\ next = 1 /\ failed \in BOOLEAN /\ tracked = {} /\ armed = {} /\ sg = "none"
    BY DEF Init, Groups
  <2> QED BY <1>1, <2>1, <2>2, <2>3 DEF TypeOK
<1>3. GroupsHere /\ TrackedHere
  BY DEF Init, GroupsHere, TrackedHere
<1>4. InstancesHere
  BY DEF Init, InstancesHere
<1> QED BY <1>2, <1>3, <1>4 DEF IInv

(* What EC2 does by itself keeps the invariant.                            *)
LEMMA Ec2Step ==
  ASSUME IInv, NEW h \in Hosts, Ec2(h)
  PROVE  IInv'
<1> USE DEF IInv, Ec2, Boot, ShutDown, Terminate, orchVars
<1>1. TypeOK' /\ (next >= 1)'
  BY DEF TypeOK
<1>2. GroupsHere'
  BY DEF GroupsHere
<1>3. TrackedHere'
  BY DEF TrackedHere, Earlier, Below, ServerHosts
<1>4. ASSUME NEW k \in Hosts
      PROVE  /\ inst'[k] # "none" <=> inst[k] # "none"
             /\ k \notin armed /\ inst[k] = "running" => inst'[k] = "running"
             /\ ~Live(k) => ~Live(k)'
             /\ Gone(k) => Gone(k)'
  BY DEF TypeOK, Live, Gone
<1>5. UNCHANGED <<pc, batch, next, failed, tracked, armed>> /\ tracked \subseteq Hosts
  BY DEF TypeOK
<1> QED
  <2> HIDE DEF Ec2
  <2>1. InstancesHere'
    BY <1>4, <1>5 DEF InstancesHere, Below
  <2> QED BY <1>1, <1>2, <1>3, <2>1

--------------------------------------------------------------------------------
(* The instances are as before, for an action that leaves them alone.      *)
LEMMA SameInstances ==
  ASSUME UNCHANGED inst, NEW h \in Hosts
  PROVE  Live(h)' = Live(h) /\ Gone(h)' = Gone(h)
  BY DEF Live, Gone

(* Creating the groups keeps the invariant.                                *)
LEMMA CreateStep ==
  ASSUME IInv, CreateSecurityGroup \/ CreatePlacementGroup
  PROVE  IInv'
<1> USE DEF IInv, CreateSecurityGroup, CreatePlacementGroup, Goto, Restart, NextOne
<1>1. TypeOK' /\ (next >= 1)'
  BY Bounds DEF TypeOK, Groups
<1>2. GroupsHere'
  <2>1. \A z \in Zones : z < next' => z < next \/ z = next \/ pc' = "launch"
    BY Bounds DEF Zones, TypeOK
  <2>2. pc' = "launch" => pc = "create_groups" /\ \A z \in Zones : z < next
    BY Bounds DEF Zones, TypeOK
  <2>3. \A z \in Zones : group'[z] = group[z] \/ (z = next /\ group'[z] = "exists")
    BY DEF TypeOK
  <2>4. pc = "create_groups" /\ next \in Zones /\ next' = next + 1 => group'[next] = "exists"
    BY DEF TypeOK
  <2>5. pc = "create_sg" => \A z \in Zones : ~(z < next)
    BY DEF GroupsHere, Zones
  <2> QED BY <2>1, <2>2, <2>3, <2>4, <2>5 DEF GroupsHere
<1>3. TrackedHere'
  BY DEF TrackedHere, Earlier
<1>4. InstancesHere'
  <2>1. UNCHANGED inst /\ tracked = {} /\ tracked' = {} /\ batch' = batch
    BY DEF TrackedHere
  <2>2. pc' = "launch" => next' = 1
    BY DEF TypeOK
  <2>3. pc' = "launch" => Below' = {}
    BY <2>1, <2>2, HostFacts, Bounds DEF Below
  <2> QED BY <2>1, <2>3 DEF InstancesHere
<1> QED BY <1>1, <1>2, <1>3, <1>4

(* So does launching a host.                                               *)
LEMMA LaunchInstanceStep ==
  ASSUME IInv, LaunchInstance
  PROVE  IInv'
<1> USE DEF IInv, LaunchInstance
<1>1. Host \in Hosts /\ batch \in Groups /\ next \in 1..Count[batch]
  BY HostFacts, Bounds DEF Host, TypeOK
<1>2. TypeOK' /\ (next >= 1)'
  <2>1. inst' \in [Hosts -> {"none", "pending", "running", "terminating", "terminated"}]
    BY <1>1 DEF TypeOK
  <2>2. next' \in Nat /\ next' >= 1 /\ next' <= Count[batch] + 1
    BY <1>1, Bounds
  <2> QED BY <2>1, <2>2 DEF TypeOK
<1>3. GroupsHere'
  BY DEF GroupsHere
<1>4. TrackedHere'
  BY DEF TrackedHere, Earlier
<1>5. \A h \in Hosts : inst'[h] = inst[h] \/ (h = Host /\ inst'[h] = "pending")
  BY DEF TypeOK
<1>6. tracked \subseteq ServerHosts /\ (batch = "server" => tracked = {}) /\ armed = {}
  BY DEF TrackedHere, Earlier
<1>7. InstancesHere'
  <2>1. \A h \in tracked : h # Host /\ inst'[h] = inst[h] /\ h \in Hosts
    BY <1>5, <1>6 DEF ServerHosts, Host, Groups
  <2>2. \A h \in Hosts : h[1] = "client" /\ batch = "server" => inst'[h] = inst[h]
    BY <1>5 DEF Host
  <2>3. ~failed' => inst'[Host] # "none"
    BY <1>1 DEF TypeOK
  <2>4. \A h \in Below' : h \in Below \/ h = Host
    BY <1>1, HostFacts, Bounds DEF Below, Host
  <2>5. ~failed' => \A h \in Below' : inst'[h] # "none"
    BY <1>5, <2>3, <2>4 DEF InstancesHere, Below, TypeOK
  <2> QED BY <2>1, <2>2, <2>5 DEF InstancesHere
<1> QED BY <1>2, <1>3, <1>4, <1>7

(* So does what follows the launch of a batch, up to the run.              *)
LEMMA PollStep ==
  ASSUME IInv, BatchLaunched \/ PollRunning \/ PollRunningFails \/ SetRouting
  PROVE  IInv'
<1> USE DEF IInv, cloudVars
<1>1. CASE BatchLaunched
  BY <1>1, Bounds, HostFacts DEF BatchLaunched, Restart, TypeOK, GroupsHere, TrackedHere,
     InstancesHere, Below, Earlier
<1>2. CASE PollRunning
  BY <1>2, Bounds, HostFacts DEF PollRunning, TypeOK, Host, GroupsHere, TrackedHere,
     InstancesHere, Below, Earlier, ServerHosts
<1>3. CASE PollRunningFails
  BY <1>3 DEF PollRunningFails, Goto, TypeOK, GroupsHere, TrackedHere, InstancesHere
<1>4. CASE SetRouting
  BY <1>4 DEF SetRouting, Goto, TypeOK, GroupsHere, TrackedHere, InstancesHere
<1> QED BY <1>1, <1>2, <1>3, <1>4

(* So does going on from the servers to the clients, and from these to the *)
(* routing: infra then lists the whole batch.                              *)
LEMMA BatchRunningStep ==
  ASSUME IInv, BatchRunning
  PROVE  IInv'
<1> USE DEF IInv, BatchRunning, cloudVars
<1>1. Below = {h \in Hosts : h[1] = batch}
  BY HostFacts, Bounds DEF Below, TypeOK
<1>2. \A h \in Hosts : h[1] = "server" \/ h[1] = "client"
  BY HostFacts DEF Groups
<1>3. tracked = IF batch = "server" THEN ServerHosts ELSE Hosts
  BY <1>1, <1>2 DEF TrackedHere, Earlier, ServerHosts, TypeOK, Groups
<1>4. TypeOK' /\ (next >= 1)'
  BY Bounds DEF TypeOK, Groups
<1>5. GroupsHere'
  BY DEF GroupsHere
<1>6. TrackedHere'
  BY <1>3 DEF TrackedHere, Earlier, ServerHosts, TypeOK, Groups
<1>7. Below' = {}
  BY HostFacts, Bounds DEF Below
<1>8. InstancesHere'
  BY <1>7 DEF InstancesHere, TrackedHere
<1> QED BY <1>4, <1>5, <1>6, <1>8

--------------------------------------------------------------------------------
(* The run on the hosts keeps the invariant.                               *)
LEMMA RunStep ==
  ASSUME IInv, RunEnds \/ RunPanics \/ \E h \in Hosts : Configure(h)
  PROVE  IInv'
<1> USE DEF IInv, cloudVars, orchVars, RunEnds, RunPanics, Configure, Goto
<1>1. TypeOK' /\ (next >= 1)'
  BY DEF TypeOK
<1>2. GroupsHere'
  BY DEF GroupsHere
<1>3. TrackedHere'
  BY DEF TrackedHere, Earlier, ServerHosts
<1>4. InstancesHere'
  BY DEF InstancesHere
<1> QED BY <1>1, <1>2, <1>3, <1>4

(* Terminating the instances keeps the invariant.                          *)
LEMMA DeleteInstancesStep ==
  ASSUME IInv, DeleteInstances
  PROVE  IInv'
<1> USE DEF IInv, DeleteInstances, StartDelete
<1>1. TypeOK' /\ (next >= 1)'
  BY Bounds DEF TypeOK
<1>2. GroupsHere' /\ TrackedHere'
  BY DEF GroupsHere, TrackedHere, Earlier, ServerHosts
<1>3. \A h \in Hosts : inst'[h] = IF h \in tracked /\ Live(h) THEN "terminating" ELSE inst[h]
  OBVIOUS
<1>4. \A h \in Hosts : inst'[h] # "none" <=> inst[h] # "none"
  BY <1>3 DEF Live
<1>5. \A h \in tracked : ~Live(h)' /\ h \in Hosts
  BY <1>3 DEF Live, TypeOK
<1>6. InstancesHere'
  BY <1>4, <1>5 DEF InstancesHere
<1> QED BY <1>1, <1>2, <1>6

(* So does the rest of the cleanup.  It returns Ok only when nothing uses  *)
(* the security group any more.                                            *)
LEMMA CleanupStep ==
  ASSUME IInv, \/ DeleteInstancesFails \/ DeletePlacementGroup \/ PlacementGroupsDone
               \/ DeleteSecurityGroup \/ DeleteSecurityGroupFails
  PROVE  IInv'
<1> USE DEF IInv, DeleteInstancesFails, DeletePlacementGroup, PlacementGroupsDone,
            DeleteSecurityGroup, DeleteSecurityGroupFails, StartDelete, CleanupEnds, Goto,
            cloudVars
<1>1. TypeOK' /\ (next >= 1)'
  BY Bounds DEF TypeOK
<1>2. GroupsHere'
  BY DEF GroupsHere
<1>3. TrackedHere'
  BY DEF TrackedHere, Earlier, ServerHosts
<1>4. UNCHANGED <<inst, batch, tracked>> /\ tracked \subseteq Hosts /\ pc' # "launch"
  BY DEF TypeOK
<1>5. pc' = "ok" => ~failed' /\ ~SgInUse
  OBVIOUS
<1>6. Terminated' => Terminated
  OBVIOUS
<1>7. InstancesHere'
  BY <1>4, <1>5, <1>6, SameInstances DEF InstancesHere, SgInUse
<1> QED BY <1>1, <1>2, <1>3, <1>7

(* A step that changes nothing keeps the invariant, also the one of the    *)
(* halted orchestrator.                                                    *)
LEMMA Quiet ==
  ASSUME IInv, UNCHANGED vars \/ Terminating
  PROVE  IInv'
<1>1. UNCHANGED <<mode, pc, batch, next, failed, tracked, retries, sg, group, inst, armed>>
  BY DEF Terminating, vars, orchVars, cloudVars
<1> QED BY <1>1 DEF IInv, TypeOK, GroupsHere, TrackedHere, InstancesHere, Below, Earlier,
                    ServerHosts, Live, Gone

(* The invariant holds in every reachable state.                           *)
THEOREM Inductive == Spec => []IInv
<1>1. Init => IInv
  BY InitIInv
<1>2. IInv /\ [Next]_vars => IInv'
  <2> SUFFICES ASSUME IInv, [Next]_vars PROVE IInv'
    OBVIOUS
  <2>1. CASE Next
    BY <2>1, Ec2Step, CreateStep, LaunchInstanceStep, PollStep, BatchRunningStep, RunStep,
       DeleteInstancesStep, CleanupStep, Quiet
       DEF Next, Orchestrate, Launch, Cleanup
  <2>2. CASE UNCHANGED vars
    BY <2>2, Quiet
  <2> QED BY <2>1, <2>2
<1> QED BY <1>1, <1>2, PTL DEF Spec

--------------------------------------------------------------------------------
(* What the orchestrator knows and what EC2 has agree in type.             *)
THEOREM TypeCorrect == Spec => []TypeOK
<1>1. IInv => TypeOK
  BY DEF IInv
<1> QED BY <1>1, Inductive, PTL

(* ec2_utils.rs LaunchPlan::launch: the run begins with every host listed  *)
(* and running and with every group in place.                              *)
THEOREM RunHasItsHosts == Spec => []ReadyToRun
<1>1. IInv => ReadyToRun
  BY DEF IInv, TypeOK, GroupsHere, TrackedHere, InstancesHere, ReadyToRun
<1> QED BY <1>1, Inductive, PTL

(* ec2_utils.rs InfraDetail::cleanup: what a cleanup forgets belongs to the*)
(* batch whose launch failed.                                              *)
THEOREM CleanupForgetsOnlyFailedBatch == Spec => []LeavesOnlyFailedBatch
<1>1. IInv => LeavesOnlyFailedBatch
  <2> SUFFICES ASSUME IInv, Terminated, NEW h \in Hosts, Live(h)
               PROVE  failed /\ h[1] = batch
    BY DEF LeavesOnlyFailedBatch
  <2>1. h \notin tracked
    BY DEF IInv, InstancesHere
  <2>2. failed /\ h \notin Earlier
    BY <2>1 DEF IInv, TrackedHere
  <2>3. h[1] # batch => batch = "server" /\ h[1] = "client"
    BY <2>2, HostFacts DEF IInv, TypeOK, Earlier, ServerHosts, Groups
  <2>4. h[1] # batch => ~Live(h)
    BY <2>3 DEF IInv, InstancesHere, Live
  <2> QED BY <2>2, <2>4
<1> QED BY <1>1, Inductive, PTL

(* orchestrator::run: Ok means that every instance is terminated and the   *)
(* security group deleted.                                                 *)
THEOREM OkReleasesEverything == Spec => []OkMeansReleased
<1>1. IInv => OkMeansReleased
  BY DEF IInv, GroupsHere, TrackedHere, InstancesHere, Gone, OkMeansReleased
<1> QED BY <1>1, Inductive, PTL

--------------------------------------------------------------------------------
(* placement_map has a group for each zone with a subnet.                  *)
LEMMA PlacementMapFacts ==
  ASSUME NEW subnets \in SUBSET InRegion
  PROVE  /\ IsFiniteSet(subnets) /\ Cardinality(subnets) \in Nat
         /\ PlacementMap(subnets) \in [subnets -> 1..Cardinality(subnets)]
<1> DEFINE n == Cardinality(subnets)
<1>1. IsFiniteSet(subnets)
  BY ConfigAssumption, FS_Subset DEF ConfigAssumption
<1>2. n \in Nat /\ ExistsBijection(1..n, subnets)
  BY <1>1, FS_CardinalityType
<1>3. ExistsBijection(subnets, 1..n)
  BY <1>2, Fun_ExistsBijSymmetric
<1>4. Bijection(subnets, 1..n) # {}
  BY <1>3, Fun_ExistsBij
<1>5. PlacementMap(subnets) \in Bijection(subnets, 1..n)
  BY <1>4 DEF PlacementMap
<1> QED BY <1>1, <1>2, <1>5 DEF Bijection, Injection

(* A request has what its type says.                                       *)
LEMMA RequestFacts ==
  ASSUME NEW p \in Accepted, NEW g \in Groups
  PROVE  /\ p.subnets \in SUBSET InRegion /\ p.subnets # {}
         /\ p.request.scenario[g] \in Nat
         /\ Len(p.request.az[g]) = p.request.scenario[g]
         /\ DOMAIN p.request.az[g] = 1..p.request.scenario[g]
         /\ \A i \in 1..p.request.scenario[g] : HostConfigs(p.request, g)[i].az \in p.subnets
<1> DEFINE r == p.request
<1>1. /\ r \in Requests /\ p.subnets \in SUBSET InRegion
      /\ MeetsRequirements(r) /\ SubnetsFound(r, p.subnets)
  BY DEF Accepted
<1>2. r.scenario[g] \in Nat
  BY <1>1 DEF Requests, ConfigAssumption
<1>3. PICK n \in Nat : r.az[g] \in [1..n -> Az]
  <2>1. r.az[g] \in BoundedSeq(Az, MaxHosts)
    BY <1>1 DEF Requests
  <2>2. PICK n \in 0..MaxHosts : r.az[g] \in [1..n -> Az]
    BY <2>1 DEF BoundedSeq, SeqOf
  <2> QED BY <2>2, ConfigAssumption DEF ConfigAssumption
<1>4. Len(r.az[g]) = n /\ DOMAIN r.az[g] = 1..n
  BY <1>3
<1>5. Len(r.az[g]) = r.scenario[g]
  BY <1>1 DEF MeetsRequirements
<1>6. ASSUME NEW i \in 1..r.scenario[g] PROVE HostConfigs(r, g)[i].az \in p.subnets
  <2> DEFINE c == HostConfigs(r, g)
  <2>1. DOMAIN c = 1..r.scenario[g]
    BY <1>4, <1>5 DEF HostConfigs
  <2>2. \A h \in ToSet(c) : h.az \in p.subnets
    BY <1>1 DEF SubnetsFound
  <2> HIDE DEF c
  <2>3. c[i] \in ToSet(c)
    BY <2>1 DEF ToSet
  <2> QED BY <2>2, <2>3 DEF c
<1>7. p.subnets # {}
  BY <1>1 DEF SubnetsFound
<1> QED BY <1>1, <1>2, <1>4, <1>5, <1>6, <1>7

(* What module Infra assumes of its constants, and the theorems about it   *)
(* with it, holds of the plan of every accepted request.                   *)
THEOREM PlanIsLegal ==
  ASSUME NEW p \in Accepted
  PROVE  LET plan == LaunchPlan(p.request, p.subnets) IN
         /\ plan.count = p.request.scenario
         /\ plan.count \in [Groups -> Nat]
         /\ plan.zones \in Nat \ {0}
         /\ plan.placement \in
              [UNION {{g} \X (1..plan.count[g]) : g \in Groups} -> 0..plan.zones]
<1> DEFINE r == p.request
           subnets == p.subnets
           plan == LaunchPlan(r, subnets)
           count == [g \in Groups |-> Len(HostConfigs(r, g))]
           n == Cardinality(subnets)
           m == PlacementMap(subnets)
<1>1. \A g \in Groups : /\ r.scenario[g] \in Nat /\ DOMAIN r.az[g] = 1..r.scenario[g]
                        /\ \A i \in 1..r.scenario[g] : HostConfigs(r, g)[i].az \in subnets
  BY RequestFacts
<1>2. r.scenario \in [Groups -> 0..MaxHosts]
  BY DEF Accepted, Requests
<1>3. \A g \in Groups : Len(HostConfigs(r, g)) = r.scenario[g]
  BY <1>1 DEF HostConfigs
<1>4. count = r.scenario
  BY <1>2, <1>3
<1>5. subnets \in SUBSET InRegion /\ subnets # {}
  BY RequestFacts DEF Groups
<1>6. n \in Nat /\ m \in [subnets -> 1..n] /\ IsFiniteSet(subnets)
  BY <1>5, PlacementMapFacts
<1>7. n # 0
  BY <1>5, <1>6, FS_EmptySet
<1>8. plan.count = count /\ plan.zones = n
  BY DEF LaunchPlan
<1>9. ASSUME NEW g \in Groups, NEW i \in 1..r.scenario[g]
      PROVE  Ec2Placement(HostConfigs(r, g)[i], m) \in 0..n
  <2>1. HostConfigs(r, g)[i].az \in subnets
    BY <1>1
  <2>2. m[HostConfigs(r, g)[i].az] \in 1..n
    BY <1>6, <2>1
  <2> QED BY <1>6, <2>2 DEF Ec2Placement
<1> DEFINE H == UNION {{g} \X (1..count[g]) : g \in Groups}
<1>10. plan.placement = [h \in H |-> Ec2Placement(HostConfigs(r, h[1])[h[2]], m)]
  BY DEF LaunchPlan
<1>11. \A h \in H : h[1] \in Groups /\ h[2] \in 1..r.scenario[h[1]]
  BY <1>4
<1>12. plan.placement \in [H -> 0..n]
  BY <1>9, <1>10, <1>11
<1>13. r.scenario \in [Groups -> Nat]
  BY <1>1, <1>2
<1> QED BY <1>4, <1>6, <1>7, <1>8, <1>12, <1>13

================================================================================
