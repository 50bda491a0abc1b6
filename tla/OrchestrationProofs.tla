-------------------------- MODULE OrchestrationProofs --------------------------
(***************************************************************************)
(* The two Russulas of a driver pair together, for any number of hosts on  *)
(* either side: while a netbench client runs the servers are up, the       *)
(* results are copied when every netbench has ended, and the orchestrator  *)
(* does not panic without a reason.                                        *)
(*                                                                         *)
(* Each side keeps the invariant NInv of NetbenchProofs, and PhaseInv says *)
(* how far the two coordinators are of each other: the goals go together as*)
(* the orchestrator's program has them, and the side that is not driven    *)
(* rests at the target it reached last.  For the failures each side keeps  *)
(* FInv of FailureProofs, and DeadTogether ties the ends of the two.       *)
(***************************************************************************)
EXTENDS Orchestration, TLAPS

(* What Russula assumes of its constants holds of the two pairs of tables. *)
LEMMA ServerTable == S!TableAssumption
<1> USE DEF ServerRun, ServerStep, ServerNext, ServerInitial, ServerTargets, ServerCoordRun,
            ServerCoordStep, ServerCoordNext, ServerWorkerRun, ServerWorkerStep, ServerWorkerNext,
            S!Sides, S!States, S!RunKinds, S!Kinds, S!OtherSide, S!Awaits, S!Finished
<1>1. S!Sides = {"coord", "worker"}
  OBVIOUS
<1>2. ASSUME NEW s \in {"coord", "worker"}
      PROVE  /\ ServerRun[s] \in [S!States(s) -> S!RunKinds]
             /\ ServerNext[s] \in [S!States(s) -> S!States(s)]
             /\ ServerInitial[s] \in S!States(s)
  OBVIOUS
<1>3. /\ ServerTargets["coord"] \in Seq(S!States("coord"))
      /\ ServerTargets["worker"] \in Seq(S!States("worker"))
      /\ Len(ServerTargets["coord"]) > 0 /\ Len(ServerTargets["worker"]) > 0
  OBVIOUS
<1>4. ASSUME NEW s \in {"coord", "worker"}, NEW x \in S!States(s)
      PROVE  ServerStep[s][x] \in S!Kinds \cup S!States(S!OtherSide(s))
  OBVIOUS
<1>5. ASSUME NEW s \in {"coord", "worker"}, NEW x \in S!States(s)
      PROVE  S!Awaits(s, x) <=> ServerRun[s][x] \in {"await", "notify_await"}
  OBVIOUS
<1>6. ASSUME NEW s \in {"coord", "worker"}, NEW x \in S!States(s)
      PROVE  S!Finished(s, x) <=> ServerRun[s][x] = "notify"
  OBVIOUS
<1> HIDE DEF ServerRun, ServerStep, ServerNext, ServerInitial, ServerTargets,
             S!Sides, S!States, S!RunKinds, S!Kinds, S!OtherSide, S!Awaits, S!Finished
<1> QED BY <1>1, <1>2, <1>3, <1>4, <1>5, <1>6 DEF S!TableAssumption

LEMMA ClientTable == C!TableAssumption
<1> USE DEF ClientRun, ClientStep, ClientNext, ClientInitial, ClientTargets, ClientCoordRun,
            ClientCoordStep, ClientCoordNext, ClientWorkerRun, ClientWorkerStep, ClientWorkerNext,
            C!Sides, C!States, C!RunKinds, C!Kinds, C!OtherSide, C!Awaits, C!Finished
<1>1. C!Sides = {"coord", "worker"}
  OBVIOUS
<1>2. ASSUME NEW s \in {"coord", "worker"}
      PROVE  /\ ClientRun[s] \in [C!States(s) -> C!RunKinds]
             /\ ClientNext[s] \in [C!States(s) -> C!States(s)]
             /\ ClientInitial[s] \in C!States(s)
  OBVIOUS
<1>3. /\ ClientTargets["coord"] \in Seq(C!States("coord"))
      /\ ClientTargets["worker"] \in Seq(C!States("worker"))
      /\ Len(ClientTargets["coord"]) > 0 /\ Len(ClientTargets["worker"]) > 0
  OBVIOUS
<1>4. ASSUME NEW s \in {"coord", "worker"}, NEW x \in C!States(s)
      PROVE  ClientStep[s][x] \in C!Kinds \cup C!States(C!OtherSide(s))
  OBVIOUS
<1>5. ASSUME NEW s \in {"coord", "worker"}, NEW x \in C!States(s)
      PROVE  C!Awaits(s, x) <=> ClientRun[s][x] \in {"await", "notify_await"}
  OBVIOUS
<1>6. ASSUME NEW s \in {"coord", "worker"}, NEW x \in C!States(s)
      PROVE  C!Finished(s, x) <=> ClientRun[s][x] = "notify"
  OBVIOUS
<1> HIDE DEF ClientRun, ClientStep, ClientNext, ClientInitial, ClientTargets,
             C!Sides, C!States, C!RunKinds, C!Kinds, C!OtherSide, C!Awaits, C!Finished
<1> QED BY <1>1, <1>2, <1>3, <1>4, <1>5, <1>6 DEF C!TableAssumption

ServerAssumptions == S!NAssumption /\ S!BoundsAssumption /\ S!TableAssumption /\ S!PathAssumption
ClientAssumptions == C!NAssumption /\ C!BoundsAssumption /\ C!TableAssumption /\ C!PathAssumption

LEMMA ServerSide == ServerAssumptions /\ S!ServerTables
<1>1. S!NAssumption /\ S!BoundsAssumption
  BY BoundsAssumption DEF S!NAssumption, S!BoundsAssumption, S!Processes, S!Workers
<1>2. S!PathAssumption
  BY DEF S!PathAssumption, ServerStep, ServerNext, ServerInitial, ServerTargets, ServerRank,
     ServerCoordStep, ServerCoordNext, ServerWorkerStep, ServerWorkerNext, S!Sides, S!States,
     S!Finished
<1>3. S!ServerTables
  BY DEF S!ServerTables, ServerRun, S!ServerRun, ServerStep, S!ServerStep, ServerNext,
     S!ServerNext, ServerInitial, S!ServerInitial, ServerTargets, S!ServerTargets, ServerRank,
     S!ServerRank, ServerCoordRun, S!ServerCoordRun, ServerCoordStep, S!ServerCoordStep,
     ServerCoordNext, S!ServerCoordNext, ServerWorkerRun, S!ServerWorkerRun, ServerWorkerStep,
     S!ServerWorkerStep, ServerWorkerNext, S!ServerWorkerNext
<1> QED BY <1>1, <1>2, <1>3, ServerTable DEF ServerAssumptions

LEMMA ClientSide == ClientAssumptions /\ C!ClientTables
<1>1. C!NAssumption /\ C!BoundsAssumption
  BY BoundsAssumption DEF C!NAssumption, C!BoundsAssumption, C!Processes, C!Workers
<1>2. C!PathAssumption
  BY DEF C!PathAssumption, ClientStep, ClientNext, ClientInitial, ClientTargets, ClientRank,
     ClientCoordStep, ClientCoordNext, ClientWorkerStep, ClientWorkerNext, C!Sides, C!States,
     C!Finished
<1>3. C!ClientTables
  BY DEF C!ClientTables, ClientRun, C!ClientRun, ClientStep, C!ClientStep, ClientNext,
     C!ClientNext, ClientInitial, C!ClientInitial, ClientTargets, C!ClientTargets, ClientRank,
     C!ClientRank, ClientCoordRun, C!ClientCoordRun, ClientCoordStep, C!ClientCoordStep,
     ClientCoordNext, C!ClientCoordNext, ClientWorkerRun, C!ClientWorkerRun, ClientWorkerStep,
     C!ClientWorkerStep, ClientWorkerNext, C!ClientWorkerNext
<1> QED BY <1>1, <1>2, <1>3, ClientTable DEF ClientAssumptions

--------------------------------------------------------------------------------
(* The invariant.                                                          *)
Phases == {<<1, 1>>, <<2, 1>>, <<2, 2>>, <<3, 2>>, <<3, 3>>, <<4, 3>>}
Phase  == <<sGoal[Orchestrator], cGoal[Orchestrator]>>

PhaseInv ==
  /\ Phase \in Phases
  /\ Phase = <<2, 2>> => \A e \in C!Instances(Orchestrator) : cState[e] = "Ready"
  /\ Phase = <<3, 2>> => \A e \in S!Instances(Orchestrator) : sState[e] = "WorkersRunning"
  /\ cPc[Orchestrator] = "closed" => Phase = <<4, 3>>

OInv == S!NInv /\ C!NInv /\ PhaseInv

(* What a step does to the coordinator of a side: nothing, or it moves its *)
(* instances, or it settles its target.                                    *)
ServerStays ==
  /\ sGoal'[Orchestrator] = sGoal[Orchestrator]
  /\ \A e \in S!Instances(Orchestrator) : sState'[e] = sState[e]
ServerSettles ==
  /\ sGoal'[Orchestrator] = sGoal[Orchestrator] + 1
  /\ \A e \in S!Instances(Orchestrator) :
       sState'[e] = S!TargetOf(Orchestrator, sGoal[Orchestrator])

ClientStays ==
  /\ cGoal'[Orchestrator] = cGoal[Orchestrator]
  /\ \A e \in C!Instances(Orchestrator) : cState'[e] = cState[e]
  /\ cPc'[Orchestrator] = "closed" => cPc[Orchestrator] = "closed"
ClientSettles ==
  /\ cGoal'[Orchestrator] = cGoal[Orchestrator] + 1
  /\ \A e \in C!Instances(Orchestrator) :
       cState'[e] = C!TargetOf(Orchestrator, cGoal[Orchestrator])

--------------------------------------------------------------------------------
(* A step of the server coordinator.                                       *)
LEMMA ServerDriven ==
  ASSUME S!NInv, S!CoordinatorStep
  PROVE  sGoal'[Orchestrator] = sGoal[Orchestrator] \/ ServerSettles
<1>0. ServerAssumptions /\ Orchestrator = S!Coordinator
  BY ServerSide DEF Orchestrator, S!Coordinator
<1>1. S!TypeOK /\ S!Truthful /\ S!ControlInv
  BY DEF S!NInv, S!IInv
<1>2. S!Summary(Orchestrator)
  BY <1>0, <1>1, S!CoordinatorStepSummary DEF ServerAssumptions
<1>3. sGoal \in [S!Processes -> Nat \ {0}] /\ Orchestrator \in S!Processes
  BY <1>1, BoundsAssumption DEF S!TypeOK, S!Processes, Orchestrator
<1> QED BY <1>2, <1>3 DEF S!Summary, S!SettleStep, S!Target, ServerSettles

(* A step of a server host or of the network, and the end of the           *)
(* coordinator.                                                            *)
LEMMA ServerRests ==
  ASSUME S!NInv,
         \/ \E w \in S!Workers :
              S!WorkerStep(w) \/ S!Exit(w) \/ S!Crash(w) \/ S!Vanish(w) \/ S!TimesOut(w)
         \/ \E e \in S!Endpoints : S!ResetArrives(e)
         \/ S!Crash(Orchestrator) \/ S!Close(Orchestrator)
         \/ UNCHANGED sVars
  PROVE  ServerStays
<1>0. ServerAssumptions /\ Orchestrator = S!Coordinator
  BY ServerSide DEF Orchestrator, S!Coordinator
<1>1. S!TypeOK /\ S!Truthful /\ S!ControlInv
  BY DEF S!NInv, S!IInv
<1>2. ASSUME NEW w \in S!Workers, S!WorkerStep(w) PROVE ServerStays
  <2>1. S!Summary(w)
    BY <1>0, <1>1, <1>2, S!WorkerStepSummary DEF ServerAssumptions
  <2>2. w \in S!Processes /\ Orchestrator \in S!Processes \ {w}
    BY BoundsAssumption DEF S!Workers, S!Processes, Orchestrator
  <2> QED BY <1>0, <1>1, <2>1, <2>2, S!OthersKept DEF ServerAssumptions, ServerStays
<1>3. ASSUME UNCHANGED <<sState, sGoal>> PROVE ServerStays
  BY <1>3 DEF ServerStays
<1> QED BY <1>2, <1>3 DEF S!Exit, S!Crash, S!Vanish, S!TimesOut, S!Close, S!ResetArrives, sVars

(* A step of the client coordinator, which does not end before its last    *)
(* target.                                                                 *)
LEMMA ClientDriven ==
  ASSUME C!NInv, C!CoordinatorStep, C!HasGoal(Orchestrator)
  PROVE  /\ cGoal'[Orchestrator] = cGoal[Orchestrator] \/ ClientSettles
         /\ cPc'[Orchestrator] # "closed"
<1>0. ClientAssumptions /\ Orchestrator = C!Coordinator
  BY ClientSide DEF Orchestrator, C!Coordinator
<1>1. C!TypeOK /\ C!Truthful /\ C!ControlInv
  BY DEF C!NInv, C!IInv
<1>2. C!Summary(Orchestrator) /\ C!Turns(Orchestrator)
  BY <1>0, <1>1, C!CoordinatorStepSummary, C!CoordinatorTurns DEF ClientAssumptions
<1>3. cGoal \in [C!Processes -> Nat \ {0}] /\ Orchestrator \in C!Processes
  BY <1>1, BoundsAssumption DEF C!TypeOK, C!Processes, Orchestrator
<1>4. cGoal'[Orchestrator] = cGoal[Orchestrator] \/ ClientSettles
  BY <1>2, <1>3 DEF C!Summary, C!SettleStep, C!Target, ClientSettles
<1>5. cPc'[Orchestrator] # "closed"
  BY <1>2 DEF C!Turns
<1> QED BY <1>4, <1>5

LEMMA ClientRests ==
  ASSUME C!NInv,
         \/ \E w \in C!Workers :
              C!WorkerStep(w) \/ C!Exit(w) \/ C!Crash(w) \/ C!Vanish(w) \/ C!TimesOut(w)
         \/ \E e \in C!Endpoints : C!ResetArrives(e)
         \/ C!Crash(Orchestrator)
         \/ UNCHANGED cVars
  PROVE  ClientStays
<1>0. ClientAssumptions /\ Orchestrator = C!Coordinator
  BY ClientSide DEF Orchestrator, C!Coordinator
<1>1. C!TypeOK /\ C!Truthful /\ C!ControlInv
  BY DEF C!NInv, C!IInv
<1>2. ASSUME NEW w \in C!Workers, C!WorkerStep(w) \/ C!Crash(w) \/ C!Vanish(w)
      PROVE  ClientStays
  <2>1. w \in C!Processes /\ Orchestrator \in C!Processes \ {w}
    BY BoundsAssumption DEF C!Workers, C!Processes, Orchestrator
  <2>2. C!Summary(w)
    BY <1>0, <1>1, <1>2, <2>1, C!WorkerStepSummary, C!EndStep, C!VanishStep
       DEF ClientAssumptions
  <2> QED BY <1>0, <1>1, <2>1, <2>2, C!OthersKept DEF ClientAssumptions, ClientStays, C!Summary,
             C!Others
<1>3. CASE C!Crash(Orchestrator)
  BY <1>1, <1>3, BoundsAssumption DEF C!Crash, C!TypeOK, C!Processes, Orchestrator, ClientStays
<1>4. ASSUME UNCHANGED <<cState, cGoal, cPc>> PROVE ClientStays
  BY <1>4 DEF ClientStays
<1> QED BY <1>2, <1>3, <1>4 DEF C!Exit, C!TimesOut, C!ResetArrives, cVars

--------------------------------------------------------------------------------
(* Every step of the pair is one of Russula, or none, on either side.      *)
LEMMA BothSides ==
  ASSUME [Next]_vars
  PROVE  [S!Next]_(S!vars) /\ [C!Next]_(C!vars)
<1>0. Orchestrator \in 0..Servers /\ Orchestrator \in 0..Clients
      /\ S!Workers \subseteq 0..Servers /\ C!Workers \subseteq 0..Clients
  BY BoundsAssumption DEF Orchestrator, S!Workers, C!Workers
<1>1. sVars = S!vars /\ cVars = C!vars /\ sVars' = S!vars' /\ cVars' = C!vars'
  BY DEF sVars, cVars, S!vars, C!vars
<1>2. CASE ServerCoordinator
  BY <1>0, <1>1, <1>2 DEF ServerCoordinator, S!Next, C!Next
<1>3. CASE ClientCoordinator
  BY <1>0, <1>1, <1>3 DEF ClientCoordinator, S!Next, C!Next
<1>4. CASE Drop
  BY <1>4 DEF Drop, S!Next, C!Next, S!CoordinatorStep, C!CoordinatorStep, S!Poll, C!Poll,
     Orchestrator, S!Coordinator, C!Coordinator
<1>5. CASE ServerHost \/ ClientHost
  BY <1>1, <1>5 DEF ServerHost, ClientHost, S!Next, C!Next
<1>6. CASE Reset
  BY <1>1, <1>6 DEF Reset, S!Next, C!Next
<1>7. CASE OrchestratorDies
  BY <1>0, <1>7 DEF OrchestratorDies, S!Next, C!Next
<1>10. CASE ServerDies
  BY <1>0, <1>1, <1>10 DEF ServerDies, S!Next, S!Workers
<1>11. CASE ClientDies
  BY <1>0, <1>1, <1>11 DEF ClientDies, C!Next, C!Workers
<1>8. CASE UNCHANGED vars
  BY <1>1, <1>8 DEF vars
<1>9. CASE TimesOut
  BY <1>0, <1>1, <1>9 DEF TimesOut, S!Next, C!Next, S!Workers, C!Workers
<1> QED BY <1>2, <1>3, <1>4, <1>5, <1>6, <1>7, <1>8, <1>9, <1>10, <1>11 DEF Next, Step, Fault,
           Terminating

(* The orchestrator's program in terms of the phases.                      *)
LEMMA ProgramFacts ==
  ASSUME PhaseInv
  PROVE  /\ sGoal[Orchestrator] \in 1..4 /\ cGoal[Orchestrator] \in 1..3
         /\ Drives("server") => Phase \in {<<1, 1>>, <<2, 2>>, <<3, 3>>}
         /\ Drives("client") => Phase \in {<<2, 1>>, <<3, 2>>} /\ C!HasGoal(Orchestrator)
         /\ C!TargetOf(Orchestrator, 1) = "Ready"
         /\ S!TargetOf(Orchestrator, 2) = "WorkersRunning"
<1>1. sGoal[Orchestrator] \in 1..4 /\ cGoal[Orchestrator] \in 1..3
  BY DEF PhaseInv, Phases, Phase
<1>2. Drives("server") => Phase \in {<<1, 1>>, <<2, 2>>, <<3, 3>>}
  BY DEF PhaseInv, Phases, Phase, Drives, Ip, Program
<1>3. Drives("client") => Phase \in {<<2, 1>>, <<3, 2>>}
  BY DEF PhaseInv, Phases, Phase, Drives, Ip, Program
<1>4. /\ C!TargetOf(Orchestrator, 1) = "Ready"
      /\ S!TargetOf(Orchestrator, 2) = "WorkersRunning"
      /\ ClientTargets[C!SideOf(Orchestrator)] = <<"Ready", "Done">>
  BY DEF C!TargetOf, S!TargetOf, C!SideOf, S!SideOf, C!Coordinator, S!Coordinator, Orchestrator,
     ClientTargets, ServerTargets
<1>5. Phase \in {<<2, 1>>, <<3, 2>>} => C!HasGoal(Orchestrator)
  BY <1>4 DEF Phase, C!HasGoal
<1> QED BY <1>1, <1>2, <1>3, <1>4, <1>5

(* A step that leaves both coordinators where they are, or drives one.     *)
LEMMA PhaseKept ==
  ASSUME PhaseInv,
         \/ ServerStays /\ ClientStays
         \/ /\ Drives("server") /\ ClientStays
            /\ sGoal'[Orchestrator] = sGoal[Orchestrator] \/ ServerSettles
         \/ /\ Drives("client") /\ ServerStays /\ cPc'[Orchestrator] # "closed"
            /\ cGoal'[Orchestrator] = cGoal[Orchestrator] \/ ClientSettles
  PROVE  PhaseInv'
<1>1. CASE ServerStays /\ ClientStays
  BY <1>1 DEF ServerStays, ClientStays, PhaseInv, Phase, S!Instances, C!Instances
<1>2. CASE /\ Drives("server") /\ ClientStays
           /\ sGoal'[Orchestrator] = sGoal[Orchestrator] \/ ServerSettles
  <2>1. Phase \in {<<1, 1>>, <<2, 2>>, <<3, 3>>} /\ cPc[Orchestrator] # "closed"
    BY <1>2, ProgramFacts DEF PhaseInv, Phase
  <2>2. cPc'[Orchestrator] # "closed" /\ cGoal'[Orchestrator] = cGoal[Orchestrator]
    BY <1>2, <2>1 DEF ClientStays
  <2>3. CASE sGoal'[Orchestrator] = sGoal[Orchestrator]
    BY <1>2, <2>1, <2>2, <2>3 DEF ClientStays, PhaseInv, Phase, Phases, C!Instances
  <2>4. CASE ServerSettles
    <3>1. Phase' \in {<<2, 1>>, <<3, 2>>, <<4, 3>>}
      BY <2>1, <2>2, <2>4 DEF ServerSettles, Phase
    <3>2. Phase' = <<3, 2>> =>
            \A e \in S!Instances(Orchestrator) : sState'[e] = "WorkersRunning"
      BY <2>1, <2>2, <2>4, ProgramFacts DEF ServerSettles, Phase
    <3> QED BY <2>2, <3>1, <3>2 DEF PhaseInv, Phases, S!Instances
  <2> QED BY <1>2, <2>3, <2>4
<1>3. CASE /\ Drives("client") /\ ServerStays /\ cPc'[Orchestrator] # "closed"
           /\ cGoal'[Orchestrator] = cGoal[Orchestrator] \/ ClientSettles
  <2>1. Phase \in {<<2, 1>>, <<3, 2>>} /\ sGoal'[Orchestrator] = sGoal[Orchestrator]
    BY <1>3, ProgramFacts DEF ServerStays
  <2>2. CASE cPc'[Orchestrator] # "closed" /\ cGoal'[Orchestrator] = cGoal[Orchestrator]
    BY <1>3, <2>1, <2>2 DEF ServerStays, PhaseInv, Phase, Phases, S!Instances
  <2>3. CASE cPc'[Orchestrator] # "closed" /\ ClientSettles
    <3>1. Phase' \in {<<2, 2>>, <<3, 3>>}
      BY <2>1, <2>3 DEF ClientSettles, Phase
    <3>2. Phase' = <<2, 2>> => \A e \in C!Instances(Orchestrator) : cState'[e] = "Ready"
      BY <2>1, <2>3, ProgramFacts DEF ClientSettles, Phase
    <3> QED BY <2>3, <3>1, <3>2 DEF PhaseInv, Phases, C!Instances
  <2> QED BY <1>3, <2>2, <2>3
<1> QED BY <1>1, <1>2, <1>3

(* The end of the block leaves the goals, and the client has come to its   *)
(* last.                                                                   *)
LEMMA DropKeeps ==
  ASSUME PhaseInv, Drop
  PROVE  PhaseInv'
<1>1. Phase = <<4, 3>>
  BY DEF Drop, Ip, Program, PhaseInv, Phases, Phase
<1>2. Phase' = Phase
  BY DEF Drop, S!Close, C!Close, Phase
<1> QED BY <1>1, <1>2 DEF PhaseInv, Phases

LEMMA PhaseNext ==
  ASSUME OInv, [Next]_vars
  PROVE  PhaseInv'
<1>0. S!NInv /\ C!NInv /\ PhaseInv
  BY DEF OInv
<1>1. CASE ServerCoordinator
  <2>1. Drives("server") /\ S!CoordinatorStep /\ (C!Crash(Orchestrator) \/ UNCHANGED cVars)
    BY <1>1 DEF ServerCoordinator
  <2> QED BY <1>0, <2>1, ServerDriven, ClientRests, PhaseKept
<1>2. CASE ClientCoordinator
  <2>1. Drives("client") /\ C!CoordinatorStep /\ (S!Crash(Orchestrator) \/ UNCHANGED sVars)
    BY <1>2 DEF ClientCoordinator
  <2> QED BY <1>0, <2>1, ProgramFacts, ClientDriven, ServerRests, PhaseKept
<1>3. CASE Drop
  BY <1>0, <1>3, DropKeeps
<1>4. CASE ServerHost \/ ServerDies
  BY <1>0, <1>4, ServerRests, ClientRests, PhaseKept DEF ServerHost, ServerDies
<1>5. CASE ClientHost \/ ClientDies
  BY <1>0, <1>5, ServerRests, ClientRests, PhaseKept DEF ClientHost, ClientDies
<1>6. CASE Reset
  BY <1>0, <1>6, ServerRests, ClientRests, PhaseKept DEF Reset
<1>7. CASE OrchestratorDies
  BY <1>0, <1>7, ServerRests, ClientRests, PhaseKept DEF OrchestratorDies
<1>8. CASE UNCHANGED vars
  BY <1>0, <1>8, ServerRests, ClientRests, PhaseKept DEF vars
<1>9. CASE TimesOut
  BY <1>0, <1>9, ServerRests, ClientRests, PhaseKept DEF TimesOut
<1> QED BY <1>1, <1>2, <1>3, <1>4, <1>5, <1>6, <1>7, <1>8, <1>9 DEF Next, Step, Fault, Terminating

(* The invariant of the pair, for any number of hosts on either side.      *)
THEOREM PairInvariant == Spec => []OInv
<1>0. ServerAssumptions /\ ClientAssumptions /\ S!SpawnFirst /\ C!SpawnFirst
  BY ServerSide, ClientSide, S!ServerFacts, C!ClientFacts DEF ServerAssumptions, ClientAssumptions
<1>1. Init => OInv
  <2> SUFFICES ASSUME Init PROVE OInv
    OBVIOUS
  <2>1. S!NInv /\ C!NInv
    BY <1>0, S!InitNetbench, C!InitNetbench DEF Init, ServerAssumptions, ClientAssumptions
  <2>2. PhaseInv
    BY BoundsAssumption DEF Init, S!Init, S!Start, C!Init, C!Start, PhaseInv, Phase, Phases, Orchestrator,
       S!Processes, C!Processes, S!Coordinator, C!Coordinator
  <2> QED BY <2>1, <2>2 DEF OInv
<1>2. OInv /\ [Next]_vars => OInv'
  <2> SUFFICES ASSUME OInv, [Next]_vars PROVE OInv'
    OBVIOUS
  <2>1. S!NInv'
    BY <1>0, BothSides, S!NextNetbench DEF OInv, ServerAssumptions
  <2>2. C!NInv'
    BY <1>0, BothSides, C!NextNetbench DEF OInv, ClientAssumptions
  <2> QED BY <2>1, <2>2, PhaseNext DEF OInv
<1> QED BY <1>1, <1>2, PTL DEF Spec

--------------------------------------------------------------------------------
(* Where a client runs netbench the coordinators are at the stage in which *)
(* the servers rest at WorkersRunning.                                     *)
LEMMA UpForClients == OInv => ServersUpForClients
<1> SUFFICES ASSUME OInv, NEW c \in C!Workers, NEW s \in S!Workers, cProc[c] = "running"
             PROVE  sProc[s] # "none" /\ ~S!Reached(<<"worker", s>>, "Killing")
  BY DEF ServersUpForClients
<1>0. /\ ServerAssumptions /\ S!ServerTables /\ ClientAssumptions /\ C!ClientTables
      /\ S!NInv /\ C!NInv /\ PhaseInv
      /\ Orchestrator = S!Coordinator /\ Orchestrator = C!Coordinator
  BY ServerSide, ClientSide DEF OInv, Orchestrator, S!Coordinator, C!Coordinator
<1>1. C!Ahead(C!C(c), "Ready") /\ cGoal[Orchestrator] > 1
  BY <1>0, C!ClientStarted DEF ClientAssumptions
<1>2. Phase # <<2, 2>>
  <2> SUFFICES ASSUME Phase = <<2, 2>> PROVE FALSE
    OBVIOUS
  <2>1. C!C(c) \in C!Instances(Orchestrator) /\ C!C(c) \in C!Endpoints
        /\ cState[C!C(c)] \in C!States("coord")
    BY <1>0, C!PairFacts DEF ClientAssumptions
  <2>2. cState[C!C(c)] = "Ready"
    BY <1>0, <2>1 DEF PhaseInv
  <2>3. C!RankOf(C!C(c), "Ready") \in Nat
    BY <1>0, <2>1, <2>2, C!RankType DEF ClientAssumptions, C!C
  <2> QED BY <1>1, <2>2, <2>3 DEF C!Ahead
<1>3. cGoal[Orchestrator] # 3
  <2> SUFFICES ASSUME cGoal[Orchestrator] = 3 PROVE FALSE
    OBVIOUS
  <2>1. C!ToldCaller("Done")
    <3>1. 2 \in 1..(cGoal[C!Coordinator] - 1) /\ ClientTargets["coord"][2] = "Done"
      BY <1>0 DEF ClientTargets
    <3> QED BY <3>1 DEF C!ToldCaller
  <2>2. cProc[c] = "gone"
    BY <1>0, <2>1, C!ClientsEnded DEF ClientAssumptions, C!DoneMeansEnded
  <2> QED BY <2>2
<1>4. Phase = <<3, 2>>
  BY <1>0, <1>1, <1>2, <1>3 DEF PhaseInv, Phases, Phase
<1>5. sState[S!C(s)] = "WorkersRunning"
  <2>1. S!C(s) \in S!Instances(Orchestrator)
    BY <1>0, S!PairFacts DEF ServerAssumptions
  <2> QED BY <1>0, <1>4, <2>1 DEF PhaseInv
<1>6. sProc[s] # "none" /\ ~S!Reached(S!W(s), "Killing")
  BY <1>0, <1>5, S!ServerUpAt DEF ServerAssumptions
<1> QED BY <1>6 DEF S!W

(* Every netbench server is up as long as some netbench client runs, for   *)
(* any number of hosts and whoever dies.                                   *)
THEOREM ServersUpForClientsHolds == Spec => []ServersUpForClients
<1>1. Spec => []OInv
  BY PairInvariant
<1> QED BY <1>1, UpForClients, PTL

LEMMA EndedAtDrop == OInv => EndedBeforeCopy
<1> SUFFICES ASSUME OInv, cPc[Orchestrator] = "closed"
             PROVE  /\ \A s \in S!Workers : sProc[s] = "gone"
                    /\ \A c \in C!Workers : cProc[c] = "gone"
  BY DEF EndedBeforeCopy
<1>0. /\ ServerAssumptions /\ S!ServerTables /\ ClientAssumptions /\ C!ClientTables
      /\ S!NInv /\ C!NInv /\ PhaseInv
      /\ Orchestrator = S!Coordinator /\ Orchestrator = C!Coordinator
  BY ServerSide, ClientSide DEF OInv, Orchestrator, S!Coordinator, C!Coordinator
<1>1. sGoal[Orchestrator] = 4 /\ cGoal[Orchestrator] = 3
  BY <1>0 DEF PhaseInv, Phase
<1>2. S!ToldCaller("Done")
  <2>1. 3 \in 1..(sGoal[S!Coordinator] - 1) /\ ServerTargets["coord"][3] = "Done"
    BY <1>0, <1>1 DEF ServerTargets
  <2> QED BY <2>1 DEF S!ToldCaller
<1>3. C!ToldCaller("Done")
  <2>1. 2 \in 1..(cGoal[C!Coordinator] - 1) /\ ClientTargets["coord"][2] = "Done"
    BY <1>0, <1>1 DEF ClientTargets
  <2> QED BY <2>1 DEF C!ToldCaller
<1>4. \A s \in S!Workers : sProc[s] = "gone"
  BY <1>0, <1>2, S!ServersEnded DEF ServerAssumptions, S!DoneMeansEnded
<1>5. \A c \in C!Workers : cProc[c] = "gone"
  BY <1>0, <1>3, C!ClientsEnded DEF ClientAssumptions, C!DoneMeansEnded
<1> QED BY <1>4, <1>5

(* When the orchestrator goes on to copy the results every netbench of both*)
(* sides has ended, for any number of hosts.                               *)
THEOREM EndedBeforeCopyHolds == Spec => []EndedBeforeCopy
<1>1. Spec => []OInv
  BY PairInvariant
<1> QED BY <1>1, EndedAtDrop, PTL

--------------------------------------------------------------------------------
(* The two coordinators live in one process: if the server's is dead, the  *)
(* client's has failed and taken it along, or was killed with it.          *)
DeadTogether ==
  sPc[Orchestrator] = "crashed" => cPc[Orchestrator] \in {"panicked", "crashed"}

GInv == S!FInv /\ C!FInv /\ DeadTogether

(* The client coordinator, when it has halted, stays as it is.             *)
LEMMA ClientHaltStays ==
  ASSUME C!FInv, [Next]_vars, cPc[Orchestrator] \in C!Halted
  PROVE  cPc'[Orchestrator] = cPc[Orchestrator]
<1>1. C!TypeOK /\ C!Truthful /\ C!ControlInv /\ C!LinkInv
  BY DEF C!FInv, C!NInv, C!IInv
<1>2. C!Still \/ \E q \in C!Processes : C!Taken(q)
  BY <1>1, ClientSide, BothSides, C!NextFate DEF ClientAssumptions
<1>3. Orchestrator \in C!Processes
  BY BoundsAssumption DEF C!Processes, Orchestrator
<1> QED BY <1>1, <1>2, <1>3, ClientSide, C!HaltedStays DEF ClientAssumptions

(* The server coordinator dies at the hand of the other, or with it.       *)
LEMMA ServerDead ==
  ASSUME S!FInv, C!FInv, [Next]_vars,
         sPc[Orchestrator] # "crashed", sPc'[Orchestrator] = "crashed"
  PROVE  cPc'[Orchestrator] \in {"panicked", "crashed"}
<1>0. /\ ServerAssumptions /\ Orchestrator = S!Coordinator
      /\ S!TypeOK /\ S!Truthful /\ S!ControlInv /\ C!TypeOK
  BY ServerSide DEF Orchestrator, S!Coordinator, S!FInv, S!NInv, S!IInv, C!FInv, C!NInv, C!IInv
<1>1. /\ Orchestrator \in S!Processes /\ Orchestrator \in C!Processes
      /\ \A w \in S!Workers : w \in S!Processes /\ Orchestrator \in S!Processes \ {w}
  BY BoundsAssumption DEF S!Processes, C!Processes, S!Workers, Orchestrator
<1>2. CASE ServerCoordinator
  <2>1. S!Turns(Orchestrator)
    BY <1>0, <1>2, S!CoordinatorTurns DEF ServerCoordinator, ServerAssumptions
  <2> QED BY <2>1 DEF S!Turns
<1>3. CASE ClientCoordinator
  BY <1>3 DEF ClientCoordinator, sVars
<1>4. CASE Drop
  BY <1>0, <1>1, <1>4 DEF Drop, S!Close, S!TypeOK
<1>5. ASSUME NEW w \in S!Workers, S!WorkerStep(w)
      PROVE  FALSE
  <2>1. S!Summary(w)
    BY <1>0, <1>1, <1>5, S!WorkerStepSummary DEF ServerAssumptions
  <2> QED BY <1>1, <2>1 DEF S!Summary, S!Others
<1>6. ASSUME NEW w \in S!Workers, S!Crash(w) \/ S!Vanish(w)
      PROVE  FALSE
  BY <1>0, <1>1, <1>6 DEF S!Crash, S!Vanish, S!TypeOK
<1>7. CASE OrchestratorDies
  BY <1>0, <1>1, <1>7 DEF OrchestratorDies, C!Crash, C!TypeOK
<1>8. CASE UNCHANGED sPc
  BY <1>8
<1> QED BY <1>2, <1>3, <1>4, <1>5, <1>6, <1>7, <1>8 DEF Next, Step, Fault, Terminating, ServerHost,
           ClientHost, Reset, ServerDies, ClientDies, TimesOut, S!Exit, S!ResetArrives,
           S!TimesOut, vars, sVars

LEMMA DeadNext ==
  ASSUME GInv, [Next]_vars
  PROVE  DeadTogether'
<1> SUFFICES ASSUME sPc'[Orchestrator] = "crashed"
             PROVE  cPc'[Orchestrator] \in {"panicked", "crashed"}
  BY DEF DeadTogether
<1>1. CASE sPc[Orchestrator] = "crashed"
  <2>1. cPc[Orchestrator] \in {"panicked", "crashed"}
    BY <1>1 DEF GInv, DeadTogether
  <2>2. cPc[Orchestrator] \in C!Halted
    BY <2>1 DEF C!Halted
  <2> QED BY <2>1, <2>2, ClientHaltStays DEF GInv
<1>2. CASE sPc[Orchestrator] # "crashed"
  BY <1>2, ServerDead DEF GInv
<1> QED BY <1>1, <1>2

(* Where nobody was lost and every host was connected to, neither Russula  *)
(* fails by itself, so neither takes the other along.                      *)
LEMMA Reasons == GInv => FailsForAReason
<1> SUFFICES ASSUME GInv, ~SsmFailed, ~HostLost, ~S!ConnectFailed, ~C!ConnectFailed,
                    sPc[Orchestrator] \in {"panicked", "crashed"}
             PROVE  FALSE
  BY DEF FailsForAReason
<1>0. Orchestrator = S!Coordinator /\ Orchestrator = C!Coordinator
  BY DEF Orchestrator, S!Coordinator, C!Coordinator
<1>1. S!Processes = S!Workers \cup {Orchestrator} /\ C!Processes = C!Workers \cup {Orchestrator}
  BY BoundsAssumption DEF S!Processes, C!Processes, S!Workers, C!Workers, Orchestrator
<1>2. CASE sPc[Orchestrator] = "panicked"
  <2>1. S!Undisturbed
    BY <1>1, <1>2 DEF HostLost, S!Undisturbed
  <2> QED BY <1>0, <1>2, <2>1 DEF GInv, S!FInv, S!LateInv, S!Sound
<1>3. CASE sPc[Orchestrator] = "crashed"
  <2>1. cPc[Orchestrator] = "panicked"
    BY <1>3 DEF GInv, DeadTogether, SsmFailed
  <2>2. C!Undisturbed
    BY <1>1, <2>1 DEF HostLost, C!Undisturbed
  <2> QED BY <1>0, <2>1, <2>2 DEF GInv, C!FInv, C!LateInv, C!Sound
<1> QED BY <1>2, <1>3

(* The orchestrator does not panic without a reason, for any number of     *)
(* hosts on either side: the failures of one Russula that come late are    *)
(* all those of workers.                                                   *)
THEOREM FailsForAReasonHolds == Spec => []FailsForAReason
<1>0. /\ ServerAssumptions /\ ClientAssumptions /\ S!SpawnFirst /\ C!SpawnFirst
      /\ S!FinishLast /\ C!FinishLast
  BY ServerSide, ClientSide, S!ServerFacts, C!ClientFacts, S!ServerFinish, C!ClientFinish
     DEF ServerAssumptions, ClientAssumptions
<1>1. Init => GInv
  <2> SUFFICES ASSUME Init PROVE GInv
    OBVIOUS
  <2>1. S!FInv /\ C!FInv
    BY <1>0, S!InitFailures, C!InitFailures DEF Init, ServerAssumptions, ClientAssumptions
  <2>2. DeadTogether
    BY BoundsAssumption DEF Init, S!Init, S!Start, DeadTogether, Orchestrator, S!Processes, S!Coordinator
  <2> QED BY <2>1, <2>2 DEF GInv
<1>2. GInv /\ [Next]_vars => GInv'
  <2> SUFFICES ASSUME GInv, [Next]_vars PROVE GInv'
    OBVIOUS
  <2>1. S!FInv'
    BY <1>0, BothSides, S!NextFailures DEF GInv, ServerAssumptions
  <2>2. C!FInv'
    BY <1>0, BothSides, C!NextFailures DEF GInv, ClientAssumptions
  <2> QED BY <2>1, <2>2, DeadNext DEF GInv
<1> QED BY <1>1, <1>2, Reasons, PTL DEF Spec

--------------------------------------------------------------------------------
(* What is unread on the connections of either side stays bounded while    *)
(* the orchestrator drives the other side, or has failed, for any numbers  *)
(* of hosts and any number of messages on their way.                       *)
THEOREM BacklogStaysSmallHolds == Spec => []BacklogStaysSmall
<1>0. /\ ServerAssumptions /\ ClientAssumptions /\ S!SpawnFirst /\ C!SpawnFirst
      /\ S!FinishLast /\ C!FinishLast /\ S!LastOnly /\ C!LastOnly
  BY ServerSide, ClientSide, S!ServerFacts, C!ClientFacts, S!ServerFinish, C!ClientFinish,
     S!ServerLastOnly, C!ClientLastOnly DEF ServerAssumptions, ClientAssumptions
<1>1. S!BudgetTable /\ S!BudgetStart
  BY ServerSide, S!ServerBudget DEF ServerAssumptions
<1>2. C!BudgetTable /\ C!BudgetStart
  BY ClientSide, C!ClientBudget DEF ClientAssumptions
<1>3. Init => S!BInv /\ C!BInv
  <2> SUFFICES ASSUME Init PROVE S!BInv /\ C!BInv
    OBVIOUS
  <2>1. S!FInv /\ C!FInv
    BY <1>0, S!InitFailures, C!InitFailures DEF Init, ServerAssumptions, ClientAssumptions
  <2>2. S!LInv
    BY <1>0, <1>1, <2>1, S!InitBacklog DEF Init, ServerAssumptions
  <2>3. C!LInv
    BY <1>0, <1>2, <2>1, C!InitBacklog DEF Init, ClientAssumptions
  <2> QED BY <2>1, <2>2, <2>3 DEF S!BInv, C!BInv
<1>4. S!BInv /\ C!BInv /\ [Next]_vars => S!BInv' /\ C!BInv'
  <2> SUFFICES ASSUME S!BInv, C!BInv, [Next]_vars PROVE S!BInv' /\ C!BInv'
    OBVIOUS
  <2>1. S!BInv'
    BY <1>0, <1>1, BothSides, S!NextUnread DEF ServerAssumptions
  <2>2. C!BInv'
    BY <1>0, <1>2, BothSides, C!NextUnread DEF ClientAssumptions
  <2> QED BY <2>1, <2>2
<1>5. S!BInv /\ C!BInv => BacklogStaysSmall
  <2> SUFFICES ASSUME S!BInv, C!BInv PROVE BacklogStaysSmall
    OBVIOUS
  <2>1. S!Backlog
    BY <1>0, <1>1, S!BacklogHere
       DEF S!BInv, S!LInv, S!FInv, S!NInv, S!IInv, ServerAssumptions
  <2>2. C!Backlog
    BY <1>0, <1>2, C!BacklogHere
       DEF C!BInv, C!LInv, C!FInv, C!NInv, C!IInv, ClientAssumptions
  <2> QED BY <2>1, <2>2 DEF BacklogStaysSmall
<1> QED BY <1>3, <1>4, <1>5, PTL DEF Spec

================================================================================
