---------------------------------- MODULE Ssm ----------------------------------
(***************************************************************************)
(* The commands the orchestrator runs on the hosts through SSM             *)
(* (src/ssm_utils.rs, ssm_utils/, the Full branch of orchestrator.rs).     *)
(*                                                                         *)
(* SSM starts the commands of a host in any order and in parallel.  Two    *)
(* things order them: a script waits for the marker files of earlier       *)
(* steps, and the orchestrator polls a command until it is complete before *)
(* it sends the next.  A command <<step, group, d>> goes to every host of  *)
(* its group, "server" or "client"; d is the netbench driver it is for, or *)
(* 0.  Russula itself (module Russula) appears as the worker a run_russula *)
(* script executes, which ends once its coordinator is Done or gone.       *)
(***************************************************************************)
EXTENDS Integers, FiniteSets, Sequences

CONSTANTS
  HostsOf,   \* [{"server", "client"} -> sets of hosts], disjoint and not empty
  D,         \* number of driver pairs
  Faults,    \* bound: what may go wrong, a subset of FaultKinds
  MayTimeOut \* bound: the steps of which one command may time out

Groups    == {"server", "client"}
Drivers   == 1..D
Common    == {"configure", "upload_scenario_file", "build_russula"}
PerDriver == {"build_driver", "run_russula", "upload_netbench_raw_data"}
Steps     == Common \cup PerDriver
Commands  == (Common \X Groups \X {0}) \cup (PerDriver \X Groups \X Drivers)
Hosts     == UNION {HostsOf[g] : g \in Groups}

(*   "send"     send_command fails in each of its attempts                 *)
(*   "slow"     a worker does not listen in time for its coordinator       *)
(*   "poll"     a poll of a command is answered with an error              *)
(*   "build"    russula cannot be built on a host                          *)
(*   "copy"     the results of a host cannot be copied to S3               *)
FaultKinds == {"send", "slow", "poll", "build", "copy"}

ASSUME SsmAssumption ==
  /\ HostsOf \in [Groups -> (SUBSET Hosts) \ {{}}]
  /\ HostsOf["server"] \cap HostsOf["client"] = {}
  /\ D \in Nat \ {0}
  /\ Faults \subseteq FaultKinds
  /\ MayTimeOut \subseteq Steps

(* Faulty: the builds wait for a step that nobody sends.                   *)
WaitStepsNeverSent(step) ==
  CASE step \in {"configure", "upload_scenario_file"} -> {}
    [] step \in {"build_driver", "build_russula"}     -> {"upload_scenario_file", "install"}
    [] step = "run_russula"                           -> {"build_driver", "build_russula"}
    [] step = "upload_netbench_raw_data"              -> {"run_russula"}

(* The steps whose fin_ marker a script waits for, one after the other.    *)
WaitSteps(step) ==
  CASE step \in {"configure", "upload_scenario_file"} -> {}
    [] step \in {"build_driver", "build_russula"}     -> {"upload_scenario_file", "configure"}
    [] step = "run_russula"                           -> {"build_driver", "build_russula"}
    [] step = "upload_netbench_raw_data"              -> {"run_russula"}

--------------------------------------------------------------------------------
(* What the orchestrator does, as lists of instructions: one to configure  *)
(* the hosts, then one for each driver pair.                               *)
(*   send     send_command                                                 *)
(*   wait     wait_complete: poll all of cmds until one pass finds each    *)
(*            of them complete                                             *)
(*   connect  build the coordinator of the workers a run_russula command   *)
(*            starts, and run_till_ready                                   *)
(*   running  wait_workers_running                                         *)
(*   done     wait_done                                                    *)
Instr(op, cmds) == [op |-> op, cmds |-> cmds]
Each(step, g)   == [d \in Drivers |-> <<step, g, d>>]

CollectConfigCmds(g) ==
  LET sent == <<<<"configure", g, 0>>, <<"upload_scenario_file", g, 0>>>>
              \o Each("build_driver", g) \o <<<<"build_russula", g, 0>>>>
  IN  [i \in DOMAIN sent |-> Instr("send", <<sent[i]>>)]

ConfigCmds(g) ==
  <<<<"configure", g, 0>>, <<"upload_scenario_file", g, 0>>, <<"build_russula", g, 0>>>>
  \o Each("build_driver", g)

(* Faulty: the server results are copied before the servers are stopped.   *)
RunDriverPairUploadEarly(d) ==
  LET server == <<"run_russula", "server", d>>
      client == <<"run_russula", "client", d>>
      upload(g) == <<"upload_netbench_raw_data", g, d>>
  IN  <<Instr("send", <<server>>), Instr("connect", <<server>>),
        Instr("send", <<client>>), Instr("connect", <<client>>),
        Instr("running", <<server>>), Instr("done", <<client>>),
        Instr("send", <<upload("server")>>), Instr("done", <<server>>),
        Instr("send", <<upload("client")>>),
        Instr("wait", <<upload("server"), upload("client")>>)>>

(* Faulty: waits for the results of the servers only.                      *)
RunDriverPairWaitOne(d) ==
  LET server == <<"run_russula", "server", d>>
      client == <<"run_russula", "client", d>>
      upload(g) == <<"upload_netbench_raw_data", g, d>>
  IN  <<Instr("send", <<server>>), Instr("connect", <<server>>),
        Instr("send", <<client>>), Instr("connect", <<client>>),
        Instr("running", <<server>>), Instr("done", <<client>>), Instr("done", <<server>>),
        Instr("send", <<upload("server")>>), Instr("send", <<upload("client")>>),
        Instr("wait", <<upload("server")>>)>>

RunDriverPair(d) ==
  LET server == <<"run_russula", "server", d>>
      client == <<"run_russula", "client", d>>
      upload(g) == <<"upload_netbench_raw_data", g, d>>
  IN  <<Instr("send", <<server>>), Instr("connect", <<server>>),
        Instr("send", <<client>>), Instr("connect", <<client>>),
        Instr("running", <<server>>), Instr("done", <<client>>), Instr("done", <<server>>),
        Instr("send", <<upload("server")>>), Instr("send", <<upload("client")>>),
        Instr("wait", <<upload("server"), upload("client")>>)>>

Configure ==
  CollectConfigCmds("server") \o CollectConfigCmds("client")
  \o <<Instr("wait", ConfigCmds("server") \o ConfigCmds("client"))>>

Program == [d \in 0..D |-> IF d = 0 THEN Configure ELSE RunDriverPair(d)]

--------------------------------------------------------------------------------
VARIABLES
  driver,     \* 0..(D + 1): the list of Program being executed, D + 1 at the end
  ip,         \* Nat: the instruction of that list
  panicked,   \* BOOLEAN: the orchestrator has panicked
  polled,     \* Nat: commands polled in this pass of wait_complete
  complete,   \* BOOLEAN: all of them were found complete
  invocation, \* [Hosts -> [Commands -> ...]]: a command on a host
  files,      \* [Hosts -> SUBSET ({"start", "fin"} \X Steps)]: marker files
  coordDone,  \* SUBSET Commands: run_russula commands whose coordinator is Done
  broken,     \* SUBSET Hosts: hosts on which the build of russula failed
  results     \* [Hosts -> [Drivers -> ...]]: what aws s3 cp made of the results

vars == <<driver, ip, panicked, polled, complete, invocation, files, coordDone, broken, results>>
orchVars == <<driver, ip, panicked, polled, complete, coordDone>>

HostsFor(c) == HostsOf[c[2]]
Finished    == driver = D + 1
Active      == ~panicked /\ ~Finished
Instruction == Program[driver][ip]
Doing(op)   == Active /\ Instruction.op = op
Command     == Instruction.cmds[1]

Init ==
  /\ driver = 0 /\ ip = 1 /\ panicked = FALSE /\ polled = 0 /\ complete = TRUE
  /\ invocation = [h \in Hosts |-> [c \in Commands |-> "none"]]
  /\ files = [h \in Hosts |-> {}]
  /\ coordDone = {}
  /\ broken = {}
  /\ results = [h \in Hosts |-> [d \in Drivers |-> "none"]]

(* On to the next instruction, or to the first of the next driver pair.    *)
Advance ==
  /\ IF ip < Len(Program[driver])
     THEN ip' = ip + 1 /\ UNCHANGED driver
     ELSE ip' = 1 /\ driver' = driver + 1
  /\ UNCHANGED panicked

Abort == panicked' = TRUE /\ UNCHANGED <<driver, ip>>

SendCommand ==
  /\ Doing("send")
  /\ invocation' = [h \in Hosts |->
       IF h \in HostsFor(Command) THEN [invocation[h] EXCEPT ![Command] = "sent"]
                                  ELSE invocation[h]]
  /\ Advance
  /\ UNCHANGED <<polled, complete, files, coordDone, broken, results>>

(* None of the retries succeeds: expect("Timed out").                      *)
SendFails ==
  /\ Doing("send") /\ "send" \in Faults
  /\ Abort
  /\ UNCHANGED <<polled, complete, invocation, files, coordDone, broken, results>>

(* poll_ssm_results: the status of the first invocation in a list of one   *)
(* per host, in no order the caller knows.  (The code takes an empty list  *)
(* for complete; SSM lists the invocations of a command it has accepted.)  *)
Result(status) ==
  CASE status = "success" -> "ready" [] status = "failed" -> "error" [] OTHER -> "pending"

Polls(c, r) == \E h \in HostsFor(c) : Result(invocation[h][c]) = r

(* Faulty: a pass counts every command it polls.                           *)
PollCompleteAny ==
  /\ Doing("wait")
  /\ polled < Len(Instruction.cmds)
  /\ \E r \in {"ready", "pending"} : Polls(Instruction.cmds[polled + 1], r)
  /\ UNCHANGED complete
  /\ polled' = polled + 1
  /\ UNCHANGED <<driver, ip, panicked, invocation, files, coordDone, broken, results>>

PollComplete ==
  /\ Doing("wait")
  /\ polled < Len(Instruction.cmds)
  /\ \E r \in {"ready", "pending"} :
       /\ Polls(Instruction.cmds[polled + 1], r)
       /\ complete' = (complete /\ r = "ready")
  /\ polled' = polled + 1
  /\ UNCHANGED <<driver, ip, panicked, invocation, files, coordDone, broken, results>>

(* Faulty: the next pass goes on where this one ended.                     *)
PassEndsNoReset ==
  /\ Doing("wait")
  /\ polled = Len(Instruction.cmds)
  /\ IF complete THEN Advance ELSE UNCHANGED <<driver, ip, panicked>>
  /\ UNCHANGED <<polled, complete, invocation, files, coordDone, broken, results>>

(* The end of a pass: all complete, or another one after the poll delay.   *)
PassEnds ==
  /\ Doing("wait")
  /\ polled = Len(Instruction.cmds)
  /\ IF complete THEN Advance ELSE UNCHANGED <<driver, ip, panicked>>
  /\ polled' = 0 /\ complete' = TRUE
  /\ UNCHANGED <<invocation, files, coordDone, broken, results>>

(* poll_ssm_results(..).unwrap(), in wait_complete and in both waits for a *)
(* coordinator; in it, the unwrap of list_command_invocations.             *)
PollError ==
  /\ Doing("wait") \/ Doing("running") \/ Doing("done")
  /\ polled < Len(Instruction.cmds)
  /\ "poll" \in Faults \/ Polls(Instruction.cmds[polled + 1], "error")
  /\ Abort
  /\ UNCHANGED <<polled, complete, invocation, files, coordDone, broken, results>>

(* The host's worker accepts connections: its script runs the worker, if it*)
(* was built.                                                              *)
Listens(h, c) == invocation[h][c] = "running" /\ h \notin broken

(* Faulty: a worker that cannot be reached is left out of the run.         *)
ConnectToSome ==
  /\ Doing("connect")
  /\ \A h \in HostsFor(Command) : Listens(h, Command) \/ h \in broken
  /\ Advance
  /\ UNCHANGED <<polled, complete, invocation, files, coordDone, broken, results>>

Connect ==
  /\ Doing("connect")
  /\ \A h \in HostsFor(Command) : Listens(h, Command)
  /\ Advance
  /\ UNCHANGED <<polled, complete, invocation, files, coordDone, broken, results>>

(* Some worker refuses every attempt to connect: build().unwrap() panics.  *)
ConnectGivesUp ==
  /\ Doing("connect")
  /\ \E h \in HostsFor(Command) :
       ~Listens(h, Command) /\ (h \in broken \/ "slow" \in Faults)
  /\ Abort
  /\ UNCHANGED <<polled, complete, invocation, files, coordDone, broken, results>>

(* The coordinator reaches WorkersRunning, or Done; its SSM command was    *)
(* polled in the same round and is not in error.                           *)
CoordReaches ==
  /\ Doing("running") \/ Doing("done")
  /\ Polls(Command, "ready") \/ Polls(Command, "pending")
  /\ coordDone' = IF Doing("done") THEN coordDone \cup {Command} ELSE coordDone
  /\ Advance
  /\ UNCHANGED <<polled, complete, invocation, files, broken, results>>

--------------------------------------------------------------------------------
(* The script of command c on host h.                                      *)
SetStatus(h, c, s) == invocation' = [invocation EXCEPT ![h][c] = s]

(* Faulty: does not wait for earlier steps.                                *)
BeginAtOnce(h, c) ==
  /\ invocation[h][c] = "sent"
  /\ SetStatus(h, c, "running")
  /\ files' = [files EXCEPT ![h] = @ \cup {<<"start", c[1]>>}]
  /\ UNCHANGED <<broken, results, orchVars>>

(* The markers waited for are there: touch start_<step>___.                *)
Begin(h, c) ==
  /\ invocation[h][c] = "sent"
  /\ \A s \in WaitSteps(c[1]) : <<"fin", s>> \in files[h]
  /\ SetStatus(h, c, "running")
  /\ files' = [files EXCEPT ![h] = @ \cup {<<"start", c[1]>>}]
  /\ UNCHANGED <<broken, results, orchVars>>

(* aws s3 cp of the results of a driver.                                   *)
CopyOutcomes == {"copied"} \cup {o \in {"failed"} : "copy" \in Faults}

(* mv start_<step>___ fin_<step>___.  The marker is shared by all commands *)
(* of the step, so it may be gone: the mv fails, and with it the script,   *)
(* unless a second mv follows for the marker of the driver.  Of the commands *)
(* before, a build or a copy, the script does not mind the outcome.  A     *)
(* worker runs until its coordinator is Done or gone, or not at all.       *)
End(h, c) ==
  LET start == <<"start", c[1]>> IN
  /\ invocation[h][c] = "running"
  /\ c[1] = "run_russula" => c \in coordDone \/ panicked \/ h \in broken
  /\ IF start \in files[h]
     THEN /\ files' = [files EXCEPT ![h] = (@ \ {start}) \cup {<<"fin", c[1]>>}]
          /\ SetStatus(h, c, "success")
     ELSE /\ SetStatus(h, c, IF c[1] = "build_driver" THEN "success" ELSE "failed")
          /\ UNCHANGED files
  /\ \/ UNCHANGED broken
     \/ c[1] = "build_russula" /\ "build" \in Faults /\ broken' = broken \cup {h}
  /\ IF c[1] = "upload_netbench_raw_data"
     THEN \E o \in CopyOutcomes : results' = [results EXCEPT ![h][c[3]] = o]
     ELSE UNCHANGED results
  /\ UNCHANGED orchVars

(* SSM gives up a command: one that runs, and then those that wait in vain *)
(* for a marker.  Bound: MayTimeOut, and one command that runs at most.    *)
SomeFailed == \E k \in Hosts, b \in Commands : invocation[k][b] = "failed"

TimeOut(h, c) ==
  /\ c[1] \in MayTimeOut
  /\ invocation[h][c] = "running"
  /\ ~SomeFailed
  /\ SetStatus(h, c, "failed")
  /\ UNCHANGED <<files, broken, results, orchVars>>

WaitTimesOut(h, c) ==
  /\ invocation[h][c] = "sent"
  /\ SomeFailed
  /\ SetStatus(h, c, "failed")
  /\ UNCHANGED <<files, broken, results, orchVars>>

(* The orchestrator has returned or panicked; scripts may be left waiting. *)
Terminating == ~Active /\ UNCHANGED vars

--------------------------------------------------------------------------------
Orchestrate ==
  \/ SendCommand \/ SendFails \/ PollComplete \/ PassEnds \/ PollError
  \/ Connect \/ ConnectGivesUp \/ CoordReaches

Script(h, c) == Begin(h, c) \/ End(h, c)

Next ==
  \/ Orchestrate
  \/ \E h \in Hosts, c \in Commands : Script(h, c) \/ TimeOut(h, c) \/ WaitTimesOut(h, c)
  \/ Terminating

(* The orchestrator keeps polling, a script that need not wait goes on, and*)
(* one that waits for ever is given up.                                    *)
Spec == /\ Init /\ [][Next]_vars
        /\ WF_vars(Orchestrate)
        /\ \A h \in Hosts, c \in Commands :
             WF_vars(Script(h, c)) /\ WF_vars(WaitTimesOut(h, c))

--------------------------------------------------------------------------------
(* PROPERTIES                                                              *)
TypeOK ==
  /\ driver \in 0..(D + 1)
  /\ ip \in (IF Finished THEN {1} ELSE DOMAIN Program[driver])
  /\ panicked \in BOOLEAN
  /\ complete \in BOOLEAN
  /\ polled > 0 => panicked \/ (Doing("wait") /\ polled <= Len(Instruction.cmds))
  /\ invocation \in [Hosts -> [Commands ->
       {"none", "sent", "running", "success", "failed"}]]
  /\ files \in [Hosts -> SUBSET ({"start", "fin"} \X Steps)]
  /\ coordDone \subseteq Commands
  /\ broken \subseteq Hosts
  /\ results \in [Hosts -> [Drivers -> {"none", "copied", "failed"}]]

Started(h, c) == invocation[h][c] \in {"running", "success"}
Done(h, c)    == invocation[h][c] = "success"

(* The steps a step comes after, also the ones it does not wait for itself.*)
Before(step) ==
  CASE step \in {"configure", "upload_scenario_file"} -> {}
    [] step \in {"build_driver", "build_russula"} -> {"configure", "upload_scenario_file"}
    [] step = "run_russula" -> Common \cup {"build_driver"}
    [] step = "upload_netbench_raw_data" -> Common \cup {"build_driver", "run_russula"}

(* Nothing runs on a host before every earlier step has been completed there *)
(* at least once, whatever the order in which SSM starts the scripts and   *)
(* whatever fails on the way.                                              *)
StepsInOrder ==
  \A h \in Hosts, c \in Commands :
    Started(h, c) => \A s \in Before(c[1]) : \E b \in Commands : b[1] = s /\ Done(h, b)

(* ssm_utils.rs:78-82: the marker of a step does not tell its tasks apart, *)
(* "not an issue now since the driver build and russula run are not run in *)
(* parallel": no worker starts on a host while a driver is still being     *)
(* built there.                                                            *)
BuiltBeforeRun ==
  \A g \in Groups : \A h \in HostsOf[g], c, d \in Drivers :
    Started(h, <<"run_russula", g, c>>) => Done(h, <<"build_driver", g, d>>)

(* README.md:79-82: "These files are actually essential to making SSM      *)
(* execution serialized".  The results of a driver are copied from a host  *)
(* when the worker has run there to its end.                               *)
UploadAfterWorker ==
  \A g \in Groups : \A h \in HostsOf[g], d \in Drivers :
    Started(h, <<"upload_netbench_raw_data", g, d>>) => Done(h, <<"run_russula", g, d>>)

(* What protects the results also when the marker is a stale one of an     *)
(* earlier driver: they are not copied from any host before the coordinators *)
(* of both sides are Done, that is, before every netbench process of this  *)
(* driver has ended.                                                       *)
UploadAfterNetbench ==
  \A h \in Hosts, g \in Groups, d \in Drivers :
    Started(h, <<"upload_netbench_raw_data", g, d>>) =>
      \A k \in Groups : <<"run_russula", k, d>> \in coordDone

(* A script succeeds although the build in it failed, and every wait takes *)
(* it for complete.  Even so no results are collected from a run that some *)
(* host could not take part in.                                            *)
NoResultsFromBrokenBuild ==
  \A h \in Hosts, g \in Groups, d \in Drivers :
    Started(h, <<"upload_netbench_raw_data", g, d>>) => broken = {}

(* The hosts are terminated when the orchestrator is through: by then no   *)
(* copy of results is under way or waits for its turn, although scripts of *)
(* one step share their markers.  The results of every driver are in S3, or*)
(* the copy from that host has failed, which nobody notices: the status of *)
(* a script is that of its last mv (README.md:82-83 "failures can happen   *)
(* silently").  (With several hosts in a group the first invocation listed *)
(* speaks for all; see BuiltBeforeRun.)                                    *)
NoUploadCutOff ==
  Finished => \A h \in Hosts, d \in Drivers :
                results[h][d] = "copied" \/ ("copy" \in Faults /\ results[h][d] = "failed")

(* The orchestrator does not wait for ever on a host that makes progress.  *)
(* (That a coordinator gets to where it is waited for is assumed here: its *)
(* reads have no time limit, and Russula!EveryoneHalts says what follows.) *)
RunEnds == <>(~Active)
================================================================================
