---------------------------- MODULE ServerNetbench ----------------------------
(***************************************************************************)
(* The state machines of the netbench server protocol                      *)
(* (src/russula/netbench/server_coord.rs, server_worker.rs) as data.       *)
(* A function over states is written as a record whose fields are the      *)
(* states.  Each endpoint has three of them, as in the code:               *)
(*   Run   what run() does in a state:                                     *)
(*           "notify_await"  tell the peer the state, read messages        *)
(*           "await"         read messages without telling the peer first  *)
(*           "advance"       transition_self_or_user_driven                *)
(*           "spawn"         start netbench, set the next state directly   *)
(*           "kill"          kill netbench, then advance                   *)
(*           "join"          notify, advance once netbench is gone         *)
(*           "notify"        tell the peer the (final) state               *)
(*   Step  transition_step(): the peer state awaited, or "UserDriven",     *)
(*         "SelfDriven" or "Finished"                                      *)
(*   Next  next_state()                                                    *)
(* The pid a worker state carries is not part of the wire format           *)
(* (serde(skip)); module Russula keeps it in a variable of its own.        *)
(***************************************************************************)

ServerCoordRun ==
  [CheckWorker    |-> "notify_await",
   Ready          |-> "advance",
   RunWorker      |-> "notify_await",
   WorkersRunning |-> "advance",
   KillWorker     |-> "notify_await",
   WorkerKilled   |-> "advance",
   Done           |-> "notify"]

ServerCoordStep ==
  [CheckWorker    |-> "Ready",
   Ready          |-> "UserDriven",
   RunWorker      |-> "RunningAwaitKill",
   WorkersRunning |-> "UserDriven",
   KillWorker     |-> "Stopped",
   WorkerKilled   |-> "UserDriven",
   Done           |-> "Finished"]

ServerCoordNext ==
  [CheckWorker    |-> "Ready",
   Ready          |-> "RunWorker",
   RunWorker      |-> "WorkersRunning",
   WorkersRunning |-> "KillWorker",
   KillWorker     |-> "WorkerKilled",
   WorkerKilled   |-> "Done",
   Done           |-> "Done"]

(* Faulty: Run advances without starting netbench.                         *)
ServerWorkerRunNoSpawn ==
  [WaitCoordInit    |-> "await",
   Ready            |-> "notify_await",
   Run              |-> "advance",
   RunningAwaitKill |-> "notify_await",
   Killing          |-> "kill",
   Stopped          |-> "notify_await",
   Done             |-> "notify"]

ServerWorkerRun ==
  [WaitCoordInit    |-> "await",
   Ready            |-> "notify_await",
   Run              |-> "spawn",
   RunningAwaitKill |-> "notify_await",
   Killing          |-> "kill",
   Stopped          |-> "notify_await",
   Done             |-> "notify"]

ServerWorkerStep ==
  [WaitCoordInit    |-> "CheckWorker",
   Ready            |-> "RunWorker",
   Run              |-> "SelfDriven",
   RunningAwaitKill |-> "KillWorker",
   Killing          |-> "SelfDriven",
   Stopped          |-> "Done",
   Done             |-> "Finished"]

ServerWorkerNext ==
  [WaitCoordInit    |-> "Ready",
   Ready            |-> "Run",
   Run              |-> "RunningAwaitKill",
   RunningAwaitKill |-> "Killing",
   Killing          |-> "Stopped",
   Stopped          |-> "Done",
   Done             |-> "Done"]

(***************************************************************************)
(* Where the endpoints start, and the states the callers of Russula drive  *)
(* them to: coordination_utils.rs for the coordinator (run_till_ready,     *)
(* run_till_worker_running, run_till_done), russula_cli.rs for the worker  *)
(* (run_till_ready, run_till_done).                                        *)
(***************************************************************************)
ServerInitial == [coord |-> "CheckWorker", worker |-> "WaitCoordInit"]

ServerTargets == [coord  |-> <<"Ready", "WorkersRunning", "Done">>,
                  worker |-> <<"Ready", "Done">>]

(* How far along its path each state is: what "ahead" and "behind" mean in *)
(* the properties.  Not part of the code.                                  *)
ServerRank ==
  [coord  |-> [CheckWorker |-> 0, Ready |-> 1, RunWorker |-> 2,
               WorkersRunning |-> 3, KillWorker |-> 4, WorkerKilled |-> 5,
               Done |-> 6],
   worker |-> [WaitCoordInit |-> 0, Ready |-> 1, Run |-> 2,
               RunningAwaitKill |-> 3, Killing |-> 4, Stopped |-> 5,
               Done |-> 6]]

ServerRun  == [coord |-> ServerCoordRun,  worker |-> ServerWorkerRun]
ServerStep == [coord |-> ServerCoordStep, worker |-> ServerWorkerStep]
ServerNext == [coord |-> ServerCoordNext, worker |-> ServerWorkerNext]
===============================================================================
