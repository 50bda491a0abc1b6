----------------------------- MODULE Orchestration -----------------------------
(***************************************************************************)
(* One driver pair of a run (src/orchestrator.rs,                          *)
(* ssm_utils/coordination_utils.rs): two Russulas, one over the server     *)
(* hosts and one over the client hosts, whose coordinators live in the     *)
(* orchestrator and are driven in turn.                                    *)
(*                                                                         *)
(* S and C are module Russula with the server and the client state         *)
(* machines, instantiated through BacklogProofs, which extends Russula by  *)
(* what is proved of it. The orchestrator is one thread of control: the    *)
(* goals of its two coordinators tell where its program is. A coordinator  *)
(* that fails takes the orchestrator, and so the other coordinator, with   *)
(* it.                                                                     *)
(***************************************************************************)
EXTENDS Integers, Sequences, FiniteSets, ServerNetbench, ClientNetbench

CONSTANTS
  Servers,        \* number of server hosts
  Clients,        \* number of client hosts
  RetryAttempts, NotifyDone, MaxBusyPolls, InFlight,  \* as in Russula
  Mortal,         \* bound: the kinds of process that may die
  MayVanish,      \* bound: the groups of which a host may be lost silently
  CannotListen,   \* bound: the groups whose bind or accept may fail
  CannotSpawn     \* bound: the groups whose netbench may fail to start

Groups == {"server", "client"}

ASSUME BoundsAssumption ==
  /\ Servers \in Nat \ {0} /\ Clients \in Nat \ {0}
  /\ RetryAttempts \in Nat \ {0}
  /\ NotifyDone \in Nat \ {0}
  /\ MaxBusyPolls \in Nat
  /\ InFlight \in Nat
  /\ Mortal \subseteq Groups \cup {"orchestrator"}
  /\ MayVanish \subseteq Groups
  /\ CannotListen \subseteq Groups
  /\ CannotSpawn \subseteq Groups

VARIABLES
  sState, sInbox, sReady, sConn, sPc, sTurn, sCount, sGoal, sProc, sPid, sBusy,
  cState, cInbox, cReady, cConn, cPc, cTurn, cCount, cGoal, cProc, cPid, cBusy

sVars == <<sState, sInbox, sReady, sConn, sPc, sTurn, sCount, sGoal, sProc, sPid, sBusy>>
cVars == <<cState, cInbox, cReady, cConn, cPc, cTurn, cCount, cGoal, cProc, cPid, cBusy>>
vars  == <<sVars, cVars>>

S == INSTANCE BacklogProofs WITH
  N <- Servers, Run <- ServerRun, Step <- ServerStep, NextState <- ServerNext,
  Initial <- ServerInitial, Targets <- ServerTargets, Rank <- ServerRank,
  Mortal <- 0..Servers, MayVanish <- 1..Servers,
  CannotListen <- IF "server" \in CannotListen THEN 1..Servers ELSE {},
  CannotSpawn <- IF "server" \in CannotSpawn THEN 1..Servers ELSE {},
  state <- sState, inbox <- sInbox, ready <- sReady, conn <- sConn, pc <- sPc,
  turn <- sTurn, count <- sCount, goal <- sGoal, proc <- sProc, pid <- sPid,
  busy <- sBusy

C == INSTANCE BacklogProofs WITH
  N <- Clients, Run <- ClientRun, Step <- ClientStep, NextState <- ClientNext,
  Initial <- ClientInitial, Targets <- ClientTargets, Rank <- ClientRank,
  Mortal <- 0..Clients, MayVanish <- 1..Clients,
  CannotListen <- IF "client" \in CannotListen THEN 1..Clients ELSE {},
  CannotSpawn <- IF "client" \in CannotSpawn THEN 1..Clients ELSE {},
  state <- cState, inbox <- cInbox, ready <- cReady, conn <- cConn, pc <- cPc,
  turn <- cTurn, count <- cCount, goal <- cGoal, proc <- cProc, pid <- cPid,
  busy <- cBusy

Init == S!Init /\ C!Init

--------------------------------------------------------------------------------
(* Faulty: the clients are driven to Done before the servers run.          *)
ProgramClientsFirst == <<"server", "client", "client", "server", "server">>

(* Whose coordinator is driven to its next target: the servers to Ready, the *)
(* clients to Ready, the servers to WorkersRunning, the clients to Done and*)
(* the servers to Done.                                                    *)
Program == <<"server", "client", "server", "client", "server">>

Orchestrator == 0
Ip        == sGoal[Orchestrator] + cGoal[Orchestrator] - 1
Drives(g) == Ip <= Len(Program) /\ Program[Ip] = g

(* The commands that start the client workers are sent once the server     *)
(* coordinator is Ready.                                                   *)
ClientsSent == Ip > 1

(* The orchestrator goes on driving one coordinator.  What its calls return*)
(* is unwrapped: a coordinator that fails ends the process both live in.   *)
ServerCoordinator ==
  /\ Drives("server")
  /\ S!CoordinatorStep
  /\ IF sPc'[Orchestrator] = "panicked" THEN C!Crash(Orchestrator) ELSE UNCHANGED cVars

(* Faulty: the server coordinator survives the failure of the other.       *)
ClientCoordinatorAlone ==
  /\ Drives("client")
  /\ C!CoordinatorStep
  /\ UNCHANGED sVars

ClientCoordinator ==
  /\ Drives("client")
  /\ C!CoordinatorStep
  /\ IF cPc'[Orchestrator] = "panicked" THEN S!Crash(Orchestrator) ELSE UNCHANGED sVars

(* The end of the block: both are dropped before the results are copied.   *)
Drop ==
  /\ Ip > Len(Program)
  /\ C!Close(Orchestrator)
  /\ S!Close(Orchestrator)

ServerHost ==
  /\ \E w \in S!Workers : S!WorkerStep(w) \/ S!Exit(w)
  /\ UNCHANGED cVars

ClientHost ==
  /\ ClientsSent
  /\ \E w \in C!Workers : C!WorkerStep(w) \/ C!Exit(w)
  /\ UNCHANGED sVars

Reset ==
  \/ (\E e \in S!Endpoints : S!ResetArrives(e)) /\ UNCHANGED cVars
  \/ (\E e \in C!Endpoints : C!ResetArrives(e)) /\ UNCHANGED sVars

(* Bound: at most one process dies like this in a run.                     *)
NobodyDied ==
  /\ \A p \in S!Processes : sPc[p] # "crashed"
  /\ \A p \in C!Processes : cPc[p] # "crashed"

(* The orchestrator panics between two rounds of polling: an SSM call of a *)
(* wait fails, or finds the command in error.                              *)
BetweenRounds == {sPc[Orchestrator], cPc[Orchestrator]} \subseteq {"connect", "idle", "poll"}

OrchestratorDies ==
  /\ "orchestrator" \in Mortal /\ NobodyDied /\ BetweenRounds
  /\ S!Crash(Orchestrator)
  /\ C!Crash(Orchestrator)

(* A worker is killed, or its host is lost.                                *)
ServerDies ==
  /\ NobodyDied
  /\ \E w \in S!Workers : \/ "server" \in Mortal /\ S!Crash(w)
                          \/ "server" \in MayVanish /\ S!Vanish(w)
  /\ UNCHANGED cVars

ClientDies ==
  /\ NobodyDied /\ ClientsSent
  /\ \E w \in C!Workers : \/ "client" \in Mortal /\ C!Crash(w)
                          \/ "client" \in MayVanish /\ C!Vanish(w)
  /\ UNCHANGED sVars

(* The orchestrator's kernel gives up on a lost host.                      *)
TimesOut ==
  \/ (\E w \in S!Workers : S!TimesOut(w)) /\ UNCHANGED cVars
  \/ (\E w \in C!Workers : C!TimesOut(w)) /\ UNCHANGED sVars

(* Nothing is left to do: everyone has halted, except workers that wait for*)
(* a coordinator that is gone and client workers that were never sent.     *)
Terminated ==
  /\ S!Terminated
  /\ cPc[Orchestrator] \in C!Halted
  /\ ClientsSent => C!Terminated

Terminating == Terminated /\ UNCHANGED vars

--------------------------------------------------------------------------------
Step == ServerCoordinator \/ ClientCoordinator \/ Drop \/ ServerHost \/ ClientHost

Fault == OrchestratorDies \/ ServerDies \/ ClientDies \/ TimesOut

Next == Step \/ Reset \/ Fault \/ Terminating

Spec == Init /\ [][Next]_vars

(* Someone who can go on does, and a reset arrives.  Weaker than fairness  *)
(* of every process, and enough with one host on each side.                *)
Fairness == WF_vars(Step) /\ WF_vars(Reset)

FairSpec == Spec /\ Fairness

--------------------------------------------------------------------------------
(* PROPERTIES                                                              *)

(* As long as some netbench client runs, every netbench server has been    *)
(* started and no server worker is about to kill it, also when processes   *)
(* die: the two Russulas know nothing of each other, only the order of the *)
(* orchestrator's calls ties them together.                                *)
ServersUpForClients ==
  \A c \in C!Workers : \A s \in S!Workers :
    cProc[c] = "running" => sProc[s] # "none" /\ ~S!Reached(<<"worker", s>>, "Killing")

(* When the results are copied, the netbench of every host has ended.      *)
EndedBeforeCopy ==
  cPc[Orchestrator] = "closed" =>
    /\ \A s \in S!Workers : sProc[s] = "gone"
    /\ \A c \in C!Workers : cProc[c] = "gone"

(* What is unread at the workers that wait while the orchestrator drives   *)
(* the other side, and at its coordinators, is bounded.                    *)
BacklogStaysSmall == S!Backlog /\ C!Backlog

(* The orchestrator does not panic without a reason: an SSM call failed, or*)
(* a worker was killed, could not be connected to, could not accept the    *)
(* connection or could not start netbench.                                 *)
SsmFailed == sPc[Orchestrator] = "crashed" /\ cPc[Orchestrator] = "crashed"
HostLost  ==
  \/ \E w \in S!Workers : sPc[w] = "crashed" \/ S!NotAccepted(w) \/ S!CouldNotSpawn(w)
  \/ \E w \in C!Workers : cPc[w] = "crashed" \/ C!NotAccepted(w) \/ C!CouldNotSpawn(w)

FailsForAReason ==
  sPc[Orchestrator] \in {"panicked", "crashed"} =>
    SsmFailed \/ HostLost \/ S!ConnectFailed \/ C!ConnectFailed

(* Nobody waits for ever: also when a worker of one side cannot listen,    *)
(* cannot accept its connection or cannot start its netbench, the          *)
(* orchestrator and the workers of both sides halt.                        *)
EveryoneHalts == <>Terminated
================================================================================
