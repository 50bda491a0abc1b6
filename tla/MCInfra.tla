-------------------------------- MODULE MCInfra --------------------------------
EXTENDS Config

(* Two clients, the first of them in a cluster in zone b; the servers are in *)
(* clusters in a and, if there is a second one, in b.                      *)
Request(servers) ==
  [scenario  |-> [server |-> servers, client |-> 2],
   az        |-> [server |-> SubSeq(<<"a", "b">>, 1, servers), client |-> <<"b", "b">>],
   placement |-> [server |-> SubSeq(<<"cluster", "cluster">>, 1, servers),
                  client |-> <<"cluster", "unspecified">>]]

OneServer  == LaunchPlan(Request(1), {"a", "b"})
TwoServers == LaunchPlan(Request(2), {"a", "b"})

(* The launches of the runs are those of requests that pass the checks.    *)
ASSUME RequestsAccepted ==
  \A servers \in 1..2 :
    [request |-> Request(servers), subnets |-> {"a", "b"}] \in Accepted

OneServerCount  == OneServer.count
OneServerSpread == OneServer.placement
TwoServerCount  == TwoServers.count
TwoServerSpread == TwoServers.placement
================================================================================
