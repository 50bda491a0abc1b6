-------------------------------- MODULE Config ---------------------------------
(***************************************************************************)
(* Which runs reach the launch of module Infra (orchestrator/cli.rs,       *)
(* networking::get_subnet_vpc_ids, LaunchPlan::create): a scenario file    *)
(* and the overlays of the command line are checked against each other,    *)
(* against the region of the CDK and against the subnets AWS knows, before *)
(* anything is created.  What passes has a launch plan, whose numbers are  *)
(* the constants of module Infra.                                          *)
(*                                                                         *)
(* Only functions of the inputs: a refused request has changed nothing.    *)
(***************************************************************************)
EXTENDS Infra, SequencesExt

CONSTANTS
  Az,       \* the availability zones of AWS
  InRegion, \* SUBSET Az: those whose names begin with the primary region
  MaxHosts  \* bound: hosts of a group

ASSUME ConfigAssumption == IsFiniteSet(Az) /\ InRegion \subseteq Az /\ MaxHosts \in Nat

Placements == {"unspecified", "cluster"}

(* The scenario file has a number of hosts, the overlays are lists.        *)
Requests ==
  [scenario  : [Groups -> 0..MaxHosts],
   az        : [Groups -> BoundedSeq(Az, MaxHosts)],
   placement : [Groups -> BoundedSeq(Placements, MaxHosts)]]

(* check_requirements: the overlays match the scenario, and every zone is  *)
(* in the region (HostConfig::new).                                        *)
MeetsRequirements(r) ==
  \A g \in Groups :
    /\ Len(r.az[g]) = r.scenario[g]
    /\ Len(r.placement[g]) \in {0, r.scenario[g]}
    /\ ToSet(r.az[g]) \subseteq InRegion

(* The hosts of group g, in the order of its zones.                        *)
HostConfigs(r, g) ==
  [i \in DOMAIN r.az[g] |->
     [az |-> r.az[g][i],
      placement |-> IF i \in DOMAIN r.placement[g] THEN r.placement[g][i]
                                                   ELSE "unspecified"]]

(* get_subnet_vpc_ids: subnets is the set of zones that have one.          *)
SubnetsFound(r, subnets) ==
  /\ subnets # {}
  /\ \A g \in Groups : \A h \in ToSet(HostConfigs(r, g)) : h.az \in subnets

(* One placement group for each zone with a subnet, in the order in which  *)
(* placement_map lists them, whatever it is.                               *)
PlacementMap(subnets) == CHOOSE f \in Bijection(subnets, 1..Cardinality(subnets)) : TRUE

(* to_ec2_placement: the group is looked up only for a cluster.            *)
Ec2Placement(host, map) == IF host.placement = "cluster" THEN map[host.az] ELSE 0

(* LaunchPlan: the constants of module Infra.                              *)
LaunchPlan(r, subnets) ==
  LET count == [g \in Groups |-> Len(HostConfigs(r, g))]
  IN  [count     |-> count,
       zones     |-> Cardinality(subnets),
       placement |-> [h \in UNION {{g} \X (1..count[g]) : g \in Groups} |->
                        Ec2Placement(HostConfigs(r, h[1])[h[2]], PlacementMap(subnets))]]

--------------------------------------------------------------------------------
(* The requests that reach a launch, with the zones that have a subnet.    *)
Accepted ==
  {p \in [request : Requests, subnets : SUBSET InRegion] :
     MeetsRequirements(p.request) /\ SubnetsFound(p.request, p.subnets)}

================================================================================
