-------------------------------- MODULE Russula --------------------------------
(***************************************************************************)
(* Russula (src/russula): a coordinator drives N workers through a netbench*)
(* run, one TCP connection and one pair of state machines per worker.      *)
(*                                                                         *)
(* Process 0 is the coordinator, processes 1..N are the workers.  An       *)
(* endpoint <<side, w>> is one ProtocolInstance: the coordinator owns      *)
(* <<"coord", w>> for every w and polls them in the order of their         *)
(* addresses; worker w owns <<"worker", w>>.  The state machines are data, *)
(* passed in as the constants Run, Step and NextState (ServerNetbench and  *)
(* ClientNetbench).                                                        *)
(*                                                                         *)
(* Steps are cut where the code awaits: each read of a message, each of the*)
(* three final notifications and each poll of a peer is a step; whatever   *)
(* runs between two awaits is one.  Writes never wait here: a message is a *)
(* few dozen bytes, far from filling a socket buffer.                      *)
(***************************************************************************)
EXTENDS Protocol

CONSTANTS
  RetryAttempts,  \* bound: attempts to make one connection
  NotifyDone,     \* how often the Done state is sent
  MaxBusyPolls,   \* bound: polls of a worker that find netbench running
  Mortal,         \* bound: the processes that may be killed from outside
  MayVanish,      \* bound: the workers whose host may be lost silently
  CannotListen,   \* bound: the workers whose bind or accept may fail
  CannotSpawn,    \* bound: the workers that may be unable to start netbench
  InFlight        \* bound: how much may be on its way to a read that finds
                  \* nothing

ASSUME BoundsAssumption ==
  /\ RetryAttempts \in Nat \ {0}
  /\ NotifyDone \in Nat \ {0}
  /\ MaxBusyPolls \in Nat
  /\ Mortal \subseteq Processes
  /\ MayVanish \subseteq Workers
  /\ CannotListen \subseteq Workers
  /\ CannotSpawn \subseteq Workers
  /\ InFlight \in Nat

VARIABLES
  state,    \* [Endpoints -> AllStates]: the protocol state
  inbox,    \* [Endpoints -> Seq(AllStates)]: messages sent to it, not yet read
  ready,    \* [Endpoints -> BOOLEAN]: tokio's cached readiness of the socket
  conn,     \* [Endpoints -> ...]: the connection as this endpoint sees it
  pc,       \* [Processes -> ...]: where the process is
  turn,     \* [Processes -> Nat]: the instance being connected or polled
  count,    \* [Processes -> Nat]: connect attempts, Done notifications left
  goal,     \* [Processes -> Nat]: index of the target it is driven to
  proc,     \* [Workers -> ...]: the netbench process of the worker
  pid,      \* [Workers -> ...]: the pid in the worker's state
  busy      \* [Workers -> Nat]: polls that found the process running

vars == <<state, inbox, ready, conn, pc, turn, count, goal, proc, pid, busy>>
netVars  == <<inbox, conn>>
procVars == <<proc, pid, busy>>

--------------------------------------------------------------------------------
First(p) == IF p = Coordinator THEN 1 ELSE p
Last(p)  == IF p = Coordinator THEN N ELSE p

(* The endpoint a process is connecting or polling.                        *)
At(p) == <<SideOf(p), turn[p]>>

Target(p)      == TargetOf(p, goal[p])
AtTarget(p, e) == state[e] = Target(p)
HasGoal(p)     == goal[p] <= Len(Targets[SideOf(p)])

(* Where a process makes its first attempt to build its Russula.           *)
Start(p) == IF p = Coordinator THEN "connect" ELSE "bind"

Init ==
  /\ state = [e \in Endpoints |-> Initial[e[1]]]
  /\ inbox = [e \in Endpoints |-> <<>>]
  /\ ready = [e \in Endpoints |-> FALSE]
  /\ conn = [e \in Endpoints |-> "none"]
  /\ pc = [p \in Processes |-> Start(p)]
  /\ turn = [p \in Processes |-> First(p)]
  /\ count = [p \in Processes |-> RetryAttempts]
  /\ goal = [p \in Processes |-> 1]
  /\ proc = [w \in Workers |-> "none"]
  /\ pid = [w \in Workers |-> "placeholder"]
  /\ busy = [w \in Workers |-> 0]

--------------------------------------------------------------------------------
(* The network: a connection delivers in order and loses nothing while both*)
(* ends are open.  Seen from an endpoint it is                             *)
(*   "none"     not connected yet       "open"    both ends open           *)
(*   "eof"      the peer has closed: reads end, a write is still accepted  *)
(*   "eof_rst"  as eof, and a write has provoked a reset that is on its way*)
(*   "rst"      the peer closed with unread data: a reset is on its way    *)
(*   "lost"     the peer's host is gone and nothing was closed             *)
(*   "reset"    the reset has arrived, or what was written has timed out:  *)
(*              writes fail                                                *)
(*   "closed"   this end is closed                                         *)
(*   "dropped"  the connection was reset before this end was accepted      *)
Alive == {"open", "eof", "eof_rst", "rst", "lost", "reset"}

(* Nothing but a message can be read: no end of the connection is in sight. *)
NoEndYet(e) == conn[e] \in {"open", "rst", "lost"}

(* Process p is gone: the kernel closes its sockets.  A socket closed with *)
(* unread data resets the connection, any other ends it.  unread is what is*)
(* left in the inboxes.                                                    *)
Shutdown(p, unread) ==
  conn' = [e \in Endpoints |->
             CASE conn[e] \in {"none", "closed"} -> conn[e]
               [] conn[e] \in Alive /\ Owner(e) = p -> "closed"
               [] conn[e] = "open" /\ Owner(Peer(e)) = p ->
                    IF unread[Peer(e)] = <<>> THEN "eof" ELSE "rst"
               [] OTHER -> conn[e]]

(* A fatal error: the caller unwraps it and the process panics.            *)
Panic(p, unread) ==
  /\ pc' = [pc EXCEPT ![p] = "panicked"]
  /\ Shutdown(p, unread)
  /\ inbox' = unread
  /\ UNCHANGED <<turn, count, goal>>

(* notify_peer!, once per element of msgs, to the peer of the instance p is*)
(* polling.  box holds the inboxes after what was read in the same step.   *)
(* A failed write is fatal; otherwise the process goes on with Then.       *)
Transmit(e, msgs, box) ==
  /\ inbox' = IF conn[e] = "open" THEN [box EXCEPT ![Peer(e)] = @ \o msgs] ELSE box
  /\ conn' = IF conn[e] = "eof" THEN [conn EXCEPT ![e] = "eof_rst"] ELSE conn

CanWrite(e) == conn[e] # "reset"

Notify(p, msgs, box, Then) ==
  IF CanWrite(At(p)) THEN Transmit(At(p), msgs, box) /\ Then ELSE Panic(p, box)

(* A reset provoked by a write or by unread data reaches the endpoint.     *)
ResetArrives(e) ==
  /\ conn[e] \in {"eof_rst", "rst"}
  /\ conn' = [conn EXCEPT ![e] = "reset"]
  /\ UNCHANGED <<state, inbox, ready, pc, turn, count, goal, procVars>>

--------------------------------------------------------------------------------
(* RussulaBuilder::build.  A worker binds and accepts one connection; the  *)
(* coordinator connects to one worker after the other.  An attempt that    *)
(* returns an error is repeated, a failed bind is unwrapped.  The kernel   *)
(* completes a connection before it is accepted.                           *)
Bind(w) ==
  /\ pc[w] = "bind"
  /\ count[w] > 0
  /\ pc' = [pc EXCEPT ![w] = "accept"]
  /\ UNCHANGED <<state, ready, turn, count, goal, netVars, procVars>>

(* The address is in use, or is none of the host's: unwrap.                *)
BindFails(w) ==
  /\ w \in CannotListen
  /\ pc[w] = "bind"
  /\ count[w] > 0
  /\ Panic(w, inbox)
  /\ UNCHANGED <<state, ready, procVars>>

Accept(w) ==
  /\ pc[w] = "accept"
  /\ conn[<<"worker", w>>] \in Alive
  /\ pc' = [pc EXCEPT ![w] = "idle"]
  /\ count' = [count EXCEPT ![w] = 0]
  /\ UNCHANGED <<state, ready, turn, goal, netVars, procVars>>

(* accept finds a connection and returns an error, as when no descriptor is*)
(* left: the listener is dropped, its kernel resets the connection, and the*)
(* worker binds again.  The coordinator does not connect a second time.    *)
AcceptFails(w) ==
  LET e == <<"worker", w>> IN
  /\ w \in CannotListen
  /\ pc[w] = "accept"
  /\ count[w] > 0
  /\ conn[e] \in Alive
  /\ pc' = [pc EXCEPT ![w] = "bind"]
  /\ count' = [count EXCEPT ![w] = @ - 1]
  /\ inbox' = [inbox EXCEPT ![e] = <<>>]
  /\ conn' = [conn EXCEPT ![e] = "dropped", ![Peer(e)] = IF @ = "open" THEN "rst" ELSE @]
  /\ UNCHANGED <<state, ready, turn, goal, procVars>>

Connect ==
  LET w == turn[Coordinator] IN
  /\ pc[Coordinator] = "connect"
  /\ count[Coordinator] > 0
  /\ pc[w] = "accept"
  /\ conn' = [conn EXCEPT ![<<"coord", w>>] = "open", ![<<"worker", w>>] = "open"]
  /\ IF w = N
     THEN /\ pc' = [pc EXCEPT ![Coordinator] = "idle"]
          /\ turn' = [turn EXCEPT ![Coordinator] = First(Coordinator)]
          /\ count' = [count EXCEPT ![Coordinator] = 0]
     ELSE /\ turn' = [turn EXCEPT ![Coordinator] = w + 1]
          /\ count' = [count EXCEPT ![Coordinator] = RetryAttempts]
          /\ UNCHANGED pc
  /\ UNCHANGED <<state, inbox, ready, goal, procVars>>

ConnectRefused ==
  LET w == turn[Coordinator] IN
  /\ pc[Coordinator] = "connect"
  /\ count[Coordinator] > 0
  /\ pc[w] # "accept"
  /\ count' = [count EXCEPT ![Coordinator] = @ - 1]
  /\ UNCHANGED <<state, ready, pc, turn, goal, netVars, procVars>>

(* No attempt is left: build returns an error its caller unwraps.          *)
BuildGivesUp(p) ==
  /\ pc[p] = Start(p)
  /\ count[p] = 0
  /\ Panic(p, inbox)
  /\ UNCHANGED <<state, ready, procVars>>

--------------------------------------------------------------------------------
(* run_till_<target>: poll every instance in turn, again and again, until  *)
(* all of them are at the target.  The sleep between two rounds is implicit. *)
Call(p) ==
  /\ pc[p] = "idle"
  /\ HasGoal(p)
  /\ pc' = [pc EXCEPT ![p] = "poll"]
  /\ UNCHANGED <<state, ready, turn, count, goal, netVars, procVars>>

(* Faulty: some instance at the target is enough.                          *)
SomeAtTarget(p, s) ==
  \E e \in Instances(p) : (IF e = At(p) THEN s ELSE state[e]) = Target(p)

(* The instance being polled is left in state s: on to the next one.  After*)
(* the last, is_<target>_state decides between the caller and another round. *)
AllAtTarget(p, s) ==
  \A e \in Instances(p) : (IF e = At(p) THEN s ELSE state[e]) = Target(p)

(* Faulty: goes on past the last instance.                                 *)
NextInstancePastLast(p, s) ==
  /\ pc' = [pc EXCEPT ![p] = "poll"]
  /\ turn' = [turn EXCEPT ![p] = @ + 1]
  /\ UNCHANGED goal

NextInstance(p, s) ==
  IF turn[p] < Last(p)
  THEN /\ pc' = [pc EXCEPT ![p] = "poll"]
       /\ turn' = [turn EXCEPT ![p] = @ + 1]
       /\ UNCHANGED goal
  ELSE /\ turn' = [turn EXCEPT ![p] = First(p)]
       /\ IF AllAtTarget(p, s)
          THEN /\ pc' = [pc EXCEPT ![p] = "idle"]
               /\ goal' = [goal EXCEPT ![p] = @ + 1]
          ELSE /\ pc' = [pc EXCEPT ![p] = "poll"]
               /\ UNCHANGED goal

(* The end of run_current in state s: a finished instance notifies its peer*)
(* NotifyDone more times, any other lets the next instance be polled.      *)
EndRun(p, s) ==
  IF Finished(SideOf(p), s)
  THEN /\ pc' = [pc EXCEPT ![p] = "finish"]
       /\ count' = [count EXCEPT ![p] = NotifyDone]
       /\ UNCHANGED <<turn, goal>>
  ELSE NextInstance(p, s) /\ UNCHANGED count

Polling(p) == pc[p] = "poll"

(* Faulty: drives an instance on although it is at the target.             *)
RunsPastTarget(p, kind) ==
  /\ Polling(p)
  /\ Run[SideOf(p)][state[At(p)]] = kind

Runs(p, kind) ==
  /\ Polling(p)
  /\ ~AtTarget(p, At(p))
  /\ Run[SideOf(p)][state[At(p)]] = kind

(* poll_state of an instance that is at the target already.                *)
PollAtTarget(p) ==
  /\ Polling(p)
  /\ AtTarget(p, At(p))
  /\ EndRun(p, state[At(p)])
  /\ UNCHANGED <<state, ready, netVars, procVars>>

(* Faulty: a network failure while notifying Done is fatal.                *)
NotifyFinishedOrFail(p) ==
  /\ pc[p] = "finish"
  /\ Notify(p, <<state[At(p)]>>, inbox,
            IF count[p] > 1
            THEN count' = [count EXCEPT ![p] = @ - 1] /\ UNCHANGED <<pc, turn, goal>>
            ELSE NextInstance(p, state[At(p)]) /\ count' = [count EXCEPT ![p] = 0])
  /\ UNCHANGED <<state, ready, procVars>>

(* One of the notifications of the final state; a network failure is       *)
(* ignored.                                                                *)
NotifyFinished(p) ==
  /\ pc[p] = "finish"
  /\ Transmit(At(p), <<state[At(p)]>>, inbox)
  /\ IF count[p] > 1
     THEN count' = [count EXCEPT ![p] = @ - 1] /\ UNCHANGED <<pc, turn, goal>>
     ELSE NextInstance(p, state[At(p)]) /\ count' = [count EXCEPT ![p] = 0]
  /\ UNCHANGED <<state, ready, procVars>>

--------------------------------------------------------------------------------
(* run(): one action per kind of state.  NewState moves the instance being *)
(* polled to next_state().                                                 *)
NewState(p) == NextState[SideOf(p)][state[At(p)]]
Transition(p) == state' = [state EXCEPT ![At(p)] = NewState(p)]

Reading(p) == pc' = [pc EXCEPT ![p] = "recv"] /\ UNCHANGED <<turn, count, goal>>

(* Bound: a reset on its way arrives before the instance is polled again,  *)
(* that is within the poll delay of some seconds.                          *)
ResetInTime(e) == conn[e] # "eof_rst"

RunNotifyAwait(p) ==
  /\ Runs(p, "notify_await")
  /\ ResetInTime(At(p))
  /\ Notify(p, <<state[At(p)]>>, inbox, Reading(p))
  /\ UNCHANGED <<state, ready, procVars>>

RunAwait(p) ==
  /\ Runs(p, "await")
  /\ Reading(p)
  /\ UNCHANGED <<state, ready, netVars, procVars>>

(* transition_next sets the state before it notifies the peer.             *)
RunAdvance(p) ==
  /\ Runs(p, "advance")
  /\ Transition(p)
  /\ Notify(p, <<NewState(p)>>, inbox, EndRun(p, NewState(p)))
  /\ UNCHANGED <<ready, procVars>>

(* Faulty: next_state() gives the placeholder pid ("FIXME error prone").   *)
RunSpawnPlaceholder(w) ==
  /\ Runs(w, "spawn")
  /\ Transition(w)
  /\ proc' = [proc EXCEPT ![w] = "running"]
  /\ EndRun(w, NewState(w))
  /\ UNCHANGED <<ready, pid, busy, netVars>>

(* The state is set with the pid of the child, and the peer is not told.   *)
RunSpawn(w) ==
  /\ Runs(w, "spawn")
  /\ Transition(w)
  /\ proc' = [proc EXCEPT ![w] = "running"]
  /\ pid' = [pid EXCEPT ![w] = "child"]
  /\ EndRun(w, NewState(w))
  /\ UNCHANGED <<ready, busy, netVars>>

(* The log file cannot be created or the collector not be started: expect. *)
SpawnFails(w) ==
  /\ w \in CannotSpawn
  /\ Runs(w, "spawn")
  /\ Panic(w, inbox)
  /\ UNCHANGED <<state, ready, procVars>>

(* Faulty: reports Stopped without having killed the process.              *)
RunKillNothing(w) ==
  /\ Runs(w, "kill")
  /\ Transition(w)
  /\ Notify(w, <<NewState(w)>>, inbox, EndRun(w, NewState(w)))
  /\ UNCHANGED <<ready, procVars>>

(* Kills the process the pid in the state names, if there is one.          *)
RunKill(w) ==
  /\ Runs(w, "kill")
  /\ proc' = IF pid[w] = "child" /\ proc[w] = "running"
             THEN [proc EXCEPT ![w] = "gone"] ELSE proc
  /\ Transition(w)
  /\ Notify(w, <<NewState(w)>>, inbox, EndRun(w, NewState(w)))
  /\ UNCHANGED <<ready, pid, busy>>

(* Faulty: a process that is still there is taken for a zombie.            *)
StillRunningNever(w) == pid[w] = "child" /\ proc[w] = "none"

(* Notifies the peer at every poll and advances when the process the pid   *)
(* names is gone or a zombie.                                              *)
StillRunning(w) == pid[w] = "child" /\ proc[w] = "running"

RunJoinBusy(w) ==
  /\ Runs(w, "join")
  /\ StillRunning(w)
  /\ busy[w] < MaxBusyPolls
  /\ busy' = [busy EXCEPT ![w] = @ + 1]
  /\ Notify(w, <<state[At(w)]>>, inbox, EndRun(w, state[At(w)]))
  /\ UNCHANGED <<state, ready, proc, pid>>

(* Faulty: a zombie is not recognised as ended.                            *)
RunJoinedNoZombie(w) ==
  /\ Runs(w, "join")
  /\ proc[w] = "none"
  /\ UNCHANGED vars

RunJoined(w) ==
  /\ Runs(w, "join")
  /\ ~StillRunning(w)
  /\ IF CanWrite(At(w)) THEN Transition(w) ELSE UNCHANGED state
  /\ Notify(w, <<state[At(w)], NewState(w)>>, inbox, EndRun(w, NewState(w)))
  /\ UNCHANGED <<ready, procVars>>

--------------------------------------------------------------------------------
(* await_next_msg: read until a message matches, nothing is left to read or*)
(* the connection fails.  readable() waits until the socket is ready and   *)
(* the readiness lasts until a read finds nothing.                         *)
Waiting(p) == pc[p] = "recv"
(* Faulty: any message is taken for the awaited one.                       *)
MatchesAny(e, m) == Awaits(e[1], state[e])
Matches(e, m) == Awaits(e[1], state[e]) /\ Step[e[1]][state[e]] = m
Popped(e) == [inbox EXCEPT ![e] = Tail(@)]

RecvMatch(p) ==
  LET e == At(p) IN
  /\ Waiting(p)
  /\ inbox[e] # <<>>
  /\ Matches(e, Head(inbox[e]))
  /\ ready' = [ready EXCEPT ![e] = TRUE]
  /\ Transition(p)
  /\ Notify(p, <<NewState(p)>>, Popped(e), EndRun(p, NewState(p)))
  /\ UNCHANGED procVars

(* Faulty: notifies the peer after every message it skips.                 *)
RecvOtherAnswers(p) ==
  LET e == At(p) IN
  /\ Waiting(p)
  /\ inbox[e] # <<>>
  /\ ~Matches(e, Head(inbox[e]))
  /\ ready' = [ready EXCEPT ![e] = TRUE]
  /\ Notify(p, <<state[e]>>, Popped(e), UNCHANGED <<pc, turn, count, goal>>)
  /\ UNCHANGED <<state, procVars>>

RecvOther(p) ==
  LET e == At(p) IN
  /\ Waiting(p)
  /\ inbox[e] # <<>>
  /\ ~Matches(e, Head(inbox[e]))
  /\ ready' = [ready EXCEPT ![e] = TRUE]
  /\ inbox' = Popped(e)
  /\ UNCHANGED <<state, conn, pc, turn, count, goal, procVars>>

(* Faulty: the socket still counts as ready after a read found nothing.    *)
RecvBlockedStaysReady(p) ==
  LET e == At(p) IN
  /\ Waiting(p)
  /\ ready[e]
  /\ inbox[e] = <<>> /\ NoEndYet(e)
  /\ Notify(p, <<state[e]>>, inbox, EndRun(p, state[e]))
  /\ UNCHANGED <<state, ready, procVars>>

(* What was sent to an endpoint and not read may all be on its way still:  *)
(* messages, and the end of the connection.                                *)
OnItsWay(e) == Len(inbox[e]) + (IF NoEndYet(e) THEN 0 ELSE 1)

(* A ready socket with nothing to read: the read reports NetworkBlocked and*)
(* the peer is notified.                                                   *)
RecvBlocked(p) ==
  LET e == At(p) IN
  /\ Waiting(p)
  /\ ready[e]
  /\ conn[e] # "reset"
  /\ OnItsWay(e) <= InFlight
  /\ ready' = [ready EXCEPT ![e] = FALSE]
  /\ Notify(p, <<state[e]>>, inbox, EndRun(p, state[e]))
  /\ UNCHANGED <<state, procVars>>

(* Faulty: goes on reading after a read of 0 bytes.                        *)
RecvEofReadsOn(p) ==
  LET e == At(p) IN
  /\ Waiting(p)
  /\ inbox[e] = <<>>
  /\ conn[e] \in {"eof", "eof_rst"}
  /\ UNCHANGED vars

(* The peer has closed: a read of 0 bytes is reported as NetworkBlocked too, *)
(* and the socket stays ready.                                             *)
RecvEof(p) ==
  LET e == At(p) IN
  /\ Waiting(p)
  /\ inbox[e] = <<>>
  /\ conn[e] \in {"eof", "eof_rst"}
  /\ ready' = [ready EXCEPT ![e] = TRUE]
  /\ Notify(p, <<state[e]>>, inbox, EndRun(p, state[e]))
  /\ UNCHANGED <<state, procVars>>

RecvReset(p) ==
  LET e == At(p) IN
  /\ Waiting(p)
  /\ inbox[e] = <<>>
  /\ conn[e] = "reset"
  /\ Panic(p, inbox)
  /\ UNCHANGED <<state, ready, procVars>>

--------------------------------------------------------------------------------
(* The last target is reached: the Russula is dropped, a worker exits.     *)
Close(p) ==
  /\ pc[p] = "idle"
  /\ ~HasGoal(p)
  /\ pc' = [pc EXCEPT ![p] = "closed"]
  /\ Shutdown(p, inbox)
  /\ UNCHANGED <<state, inbox, ready, turn, count, goal, procVars>>

Halted == {"closed", "panicked", "crashed"}

(* The process is killed from outside; its kernel closes the sockets.  The *)
(* netbench process it started stays.                                      *)
Crash(p) ==
  /\ pc[p] \notin Halted
  /\ pc' = [pc EXCEPT ![p] = "crashed"]
  /\ Shutdown(p, inbox)
  /\ UNCHANGED <<state, inbox, ready, turn, count, goal, procVars>>

(* The host of worker w is lost, from one moment to the next and with what *)
(* it has sent last: its kernel closes nothing.                            *)
Vanish(w) ==
  LET e == <<"coord", w>> IN
  /\ pc[w] \notin Halted
  /\ pc' = [pc EXCEPT ![w] = "crashed"]
  /\ \E n \in 0..Len(inbox[e]) :
       /\ Len(inbox[e]) - n <= InFlight
       /\ inbox' = [inbox EXCEPT ![e] = SubSeq(@, 1, n)]
  /\ conn' = [conn EXCEPT ![Peer(e)] = IF @ \in Alive THEN "closed" ELSE @,
                          ![e] = IF @ = "open" THEN "lost" ELSE @]
  /\ UNCHANGED <<state, ready, turn, count, goal, procVars>>

(* The coordinator's kernel gives up what it has written to a lost host.   *)
(* Nothing obliges it: if all was acknowledged before, there is nothing to *)
(* give up, and a read has no time limit.                                  *)
TimesOut(w) ==
  /\ conn[<<"coord", w>>] = "lost"
  /\ conn' = [conn EXCEPT ![<<"coord", w>>] = "reset"]
  /\ UNCHANGED <<state, inbox, ready, pc, turn, count, goal, procVars>>

(* The netbench process ends by itself.                                    *)
Exit(w) ==
  /\ proc[w] = "running"
  /\ proc' = [proc EXCEPT ![w] = "gone"]
  /\ UNCHANGED <<state, ready, pc, turn, count, goal, pid, busy, netVars>>

(* Nothing is left to do: everyone has halted, except workers that wait in *)
(* accept for ever, without a connection and without a coordinator.        *)
Abandoned(w) ==
  /\ pc[w] = "accept"
  /\ conn[<<"worker", w>>] \notin Alive
  /\ pc[Coordinator] \in Halted

Terminated ==
  /\ pc[Coordinator] \in Halted
  /\ \A w \in Workers : pc[w] \in Halted \/ Abandoned(w)

Terminating == Terminated /\ UNCHANGED vars

--------------------------------------------------------------------------------
Poll(p) ==
  \/ Call(p) \/ PollAtTarget(p) \/ NotifyFinished(p)
  \/ RunNotifyAwait(p) \/ RunAdvance(p)
  \/ RecvMatch(p) \/ RecvOther(p) \/ RecvBlocked(p) \/ RecvEof(p) \/ RecvReset(p)
  \/ Close(p)

CoordinatorStep ==
  Connect \/ ConnectRefused \/ BuildGivesUp(Coordinator) \/ Poll(Coordinator)

WorkerStep(w) ==
  \/ Bind(w) \/ BindFails(w) \/ Accept(w) \/ AcceptFails(w) \/ BuildGivesUp(w)
  \/ Poll(w)
  \/ RunAwait(w) \/ RunSpawn(w) \/ SpawnFails(w) \/ RunKill(w) \/ RunJoinBusy(w) \/ RunJoined(w)

Next ==
  \/ CoordinatorStep
  \/ \E w \in Workers : WorkerStep(w) \/ Exit(w)
  \/ \E p \in Mortal : Crash(p)
  \/ \E w \in MayVanish : Vanish(w) \/ TimesOut(w)
  \/ \E e \in Endpoints : ResetArrives(e)
  \/ Terminating

Spec == Init /\ [][Next]_vars

(* Every process keeps running and its caller keeps polling; a reset       *)
(* arrives; a netbench process that a worker waits for comes to an end.    *)
Joins == \E s \in States("worker") : Run["worker"][s] = "join"

Fairness ==
  /\ WF_vars(CoordinatorStep)
  /\ \A w \in Workers : WF_vars(WorkerStep(w))
  /\ \A w \in Workers : Joins => WF_vars(Exit(w))
  /\ \A e \in Endpoints : WF_vars(ResetArrives(e))

FairSpec == Spec /\ Fairness

--------------------------------------------------------------------------------
(* PROPERTIES                                                              *)

(* Types of the variables; only states of the other side are ever sent.    *)
TypeOK ==
  /\ state \in [Endpoints -> AllStates]
  /\ \A e \in Endpoints : state[e] \in States(e[1])
  /\ inbox \in [Endpoints -> Seq(AllStates)]
  /\ \A e \in Endpoints : inbox[e] \in Seq(States(OtherSide(e[1])))
  /\ ready \in [Endpoints -> BOOLEAN]
  /\ conn \in [Endpoints -> Alive \cup {"none", "closed", "dropped"}]
  /\ pc \in [Processes -> {"bind", "accept", "connect", "idle", "poll", "recv",
                           "finish"} \cup Halted]
  /\ turn \in [Processes -> Nat]
  /\ \A p \in Processes : First(p) <= turn[p] /\ turn[p] <= Last(p)
  /\ count \in [Processes -> Nat]
  /\ goal \in [Processes -> Nat \ {0}]
  /\ proc \in [Workers -> {"none", "running", "gone"}]
  /\ pid \in [Workers -> {"placeholder", "child"}]
  /\ busy \in [Workers -> 0..MaxBusyPolls]

RankOf(e, s)  == Rank[e[1]][s]
Reached(e, s) == RankOf(e, state[e]) >= RankOf(e, s)
Ahead(e, s)   == RankOf(e, state[e]) > RankOf(e, s)

(* A message is never ahead of its sender.                                 *)
Truthful ==
  \A e \in Endpoints : \A i \in DOMAIN inbox[e] : Reached(Peer(e), inbox[e][i])

(* No end of a connection has left a state that awaits m before the other  *)
(* end has come to m.                                                      *)
InStep ==
  \A e \in Endpoints : \A s \in States(e[1]) :
    Awaits(e[1], s) /\ Ahead(e, s) => Reached(Peer(e), Step[e[1]][s])

(* Messages are repeated, arrive late and are read when the state they name*)
(* has long been left; none of that lets one side run ahead of the other.  *)
Lockstep == Truthful /\ InStep

(* The instances of a process pass each target together: one that reaches  *)
(* it early waits there for the others, although every round of polling    *)
(* visits it again.                                                        *)
Barrier ==
  \A p \in Processes : \A e \in Instances(p) :
    /\ \A i \in 1..(goal[p] - 1) : Reached(e, TargetOf(p, i))
    /\ HasGoal(p) => ~Ahead(e, Target(p))

(* The coordinator told its caller that it reached target t.               *)
ToldCaller(t) == \E i \in 1..(goal[Coordinator] - 1) : Targets["coord"][i] = t

(* No worker starts netbench before every worker is Ready, although the    *)
(* coordinator starts them one by one.                                     *)
StartTogether ==
  \A v, w \in Workers : proc[v] # "none" => Reached(<<"worker", w>>, "Ready")

(* From the moment the server coordinator reports WorkersRunning until it  *)
(* is asked to stop, netbench has been started on every worker and no      *)
(* worker is about to kill it; and no worker kills its netbench before     *)
(* every worker has started its own.  The clients rely on it.              *)
ServersUp ==
  /\ pc[Coordinator] = "idle" /\ goal[Coordinator] = 3 =>
       \A w \in Workers : proc[w] # "none" /\ ~Reached(<<"worker", w>>, "Killing")
  /\ \A v, w \in Workers : Reached(<<"worker", v>>, "Killing") => proc[w] # "none"

(* When the coordinator reports Done, every netbench process has ended: its*)
(* pid travelled unharmed through the states of the worker, and nobody was *)
(* reported stopped by a late or repeated message.                         *)
DoneMeansEnded ==
  ToldCaller("Done") => \A w \in Workers : proc[w] = "gone"

(* While a process is away - its coordinator drives the other side, its    *)
(* netbench runs - or busy with messages that came too late, its peer goes *)
(* on sending: a read that finds nothing sends a message, and so does the  *)
(* poll after it, so every message may cost two in return.  Still what is  *)
(* unread on a connection is bounded by how far its two ends have come,    *)
(* whatever is on its way for how long; beyond the bound there are only    *)
(* repetitions of the final state, of which a process with one instance    *)
(* sends no more than it is told to.                                       *)
Position(w) == Rank["coord"][state[<<"coord", w>>]] + Rank["worker"][state[<<"worker", w>>]]

Unread  == <<1, 6, 7, 20, 21, 54, 133, 136, 332, 334, 335, 335, 335>>
Hold(w) == Unread[Position(w) + 1] + 5 * busy[w]

Backlog ==
  \A e \in Endpoints :
    /\ \A i \in DOMAIN inbox[e] :
         i > Hold(e[2]) => Finished(OtherSide(e[1]), inbox[e][i])
    /\ e[1] = "coord" \/ N = 1 => Len(inbox[e]) <= Hold(e[2]) + NotifyDone + 1

(* As long as nobody was killed or lost, every connection was accepted and *)
(* every netbench could be started, what can go wrong is harmless: the     *)
(* coordinator fails only if it cannot connect, and a worker fails only if *)
(* the coordinator did, or if it cannot listen, or in the last exchange,   *)
(* when its netbench has ended and its coordinator endpoint is Done.       *)
ConnectFailed == pc[Coordinator] = "panicked" /\ \E w \in Workers : conn[<<"coord", w>>] = "none"

NeverListened(w) == pc[w] = "panicked" /\ conn[<<"worker", w>>] = "none"
NotAccepted(w)   == conn[<<"worker", w>>] = "dropped"
CouldNotSpawn(w) == pc[w] = "panicked" /\ Run["worker"][state[<<"worker", w>>]] = "spawn"

Undisturbed ==
  /\ \A p \in Processes : pc[p] # "crashed"
  /\ \A w \in Workers : ~NotAccepted(w) /\ ~CouldNotSpawn(w)

OnlyLateFailures ==
  Undisturbed =>
    /\ pc[Coordinator] = "panicked" => ConnectFailed
    /\ \A w \in Workers :
         pc[w] = "panicked" /\ ~ConnectFailed /\ ~NeverListened(w) =>
           /\ proc[w] = "gone"
           /\ state[<<"worker", w>>] \in {"Stopped", "Done"}
           /\ state[<<"coord", w>>] = "Done"

(* Once the coordinator is connected it comes to the end of its run,       *)
(* whatever the order of polls, messages and late exits, unless somebody   *)
(* was killed or lost, could not accept it or could not start netbench.    *)
CoordinatorCompletes ==
  (pc[Coordinator] = "idle") ~> (pc[Coordinator] = "closed" \/ ~Undisturbed)

(* Nobody waits for ever, also when processes are killed, but for a host   *)
(* that was lost without anybody noticing: a read has no time limit.       *)
Unnoticed == \E w \in Workers : conn[<<"coord", w>>] = "lost"

EveryoneHalts == <>Terminated \/ <>[]Unnoticed

(* protocol.rs:125-127 "the peer could have killed the connection in the   *)
(* meantime, its better to ignore network failures"; netbench.rs:133-136   *)
(* ends every run with the worker Done.  A worker whose coordinator ended  *)
(* its run successfully does not fail.                                     *)
NoFailureAfterDone ==
  \A w \in Workers : ~(ToldCaller("Done") /\ pc[w] = "panicked")

(* Russula implements the rendezvous its callers rely on.                  *)
R == INSTANCE Rendezvous WITH state <- state, goal <- goal
RendezvousSpec == R!Spec
===============================================================================
