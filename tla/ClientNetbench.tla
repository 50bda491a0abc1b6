---------------------------- MODULE ClientNetbench ----------------------------
(***************************************************************************)
(* The state machines of the netbench client protocol                      *)
(* (src/russula/netbench/client_coord.rs, client_worker.rs) as data, in    *)
(* the form module ServerNetbench explains.  The client process ends by    *)
(* itself: the worker tells the coordinator it runs, waits for the         *)
(* coordinator to acknowledge, and then watches the process                *)
(* (RunningAwaitComplete) instead of being told to kill it.                *)
(***************************************************************************)

ClientCoordRun ==
  [CheckWorker    |-> "notify_await",
   Ready          |-> "advance",
   RunWorker      |-> "notify_await",
   WorkersRunning |-> "notify_await",
   Done           |-> "notify"]

ClientCoordStep ==
  [CheckWorker    |-> "Ready",
   Ready          |-> "UserDriven",
   RunWorker      |-> "Running",
   WorkersRunning |-> "Stopped",
   Done           |-> "Finished"]

ClientCoordNext ==
  [CheckWorker    |-> "Ready",
   Ready          |-> "RunWorker",
   RunWorker      |-> "WorkersRunning",
   WorkersRunning |-> "Done",
   Done           |-> "Done"]

ClientWorkerRun ==
  [WaitCoordInit        |-> "await",
   Ready                |-> "notify_await",
   Run                  |-> "spawn",
   Running              |-> "notify_await",
   RunningAwaitComplete |-> "join",
   Stopped              |-> "notify_await",
   Done                 |-> "notify"]

ClientWorkerStep ==
  [WaitCoordInit        |-> "CheckWorker",
   Ready                |-> "RunWorker",
   Run                  |-> "SelfDriven",
   Running              |-> "WorkersRunning",
   RunningAwaitComplete |-> "SelfDriven",
   Stopped              |-> "Done",
   Done                 |-> "Finished"]

ClientWorkerNext ==
  [WaitCoordInit        |-> "Ready",
   Ready                |-> "Run",
   Run                  |-> "Running",
   Running              |-> "RunningAwaitComplete",
   RunningAwaitComplete |-> "Stopped",
   Stopped              |-> "Done",
   Done                 |-> "Done"]

(* Faulty: the worker exits when it is Ready.                              *)
ClientTargetsNoDone == [coord |-> <<"Ready", "Done">>, worker |-> <<"Ready">>]

(* coordination_utils.rs drives the client coordinator to Ready and then   *)
(* straight to Done; russula_cli.rs the worker to Ready and to Done.       *)
ClientInitial == [coord |-> "CheckWorker", worker |-> "WaitCoordInit"]

ClientTargets == [coord |-> <<"Ready", "Done">>, worker |-> <<"Ready", "Done">>]

(* How far along its path each state is.  Not part of the code.            *)
ClientRank ==
  [coord  |-> [CheckWorker |-> 0, Ready |-> 1, RunWorker |-> 2,
               WorkersRunning |-> 3, Done |-> 4],
   worker |-> [WaitCoordInit |-> 0, Ready |-> 1, Run |-> 2, Running |-> 3,
               RunningAwaitComplete |-> 4, Stopped |-> 5, Done |-> 6]]

ClientRun  == [coord |-> ClientCoordRun,  worker |-> ClientWorkerRun]
ClientStep == [coord |-> ClientCoordStep, worker |-> ClientWorkerStep]
ClientNext == [coord |-> ClientCoordNext, worker |-> ClientWorkerNext]
===============================================================================
