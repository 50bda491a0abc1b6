---------------------------- MODULE NetbenchProofs -----------------------------
(***************************************************************************)
(* What the callers of Russula rely on beyond the rendezvous, for any      *)
(* number of workers: which netbench processes run when the coordinator    *)
(* reports a target.                                                       *)
(*                                                                         *)
(* The first part holds for every pair of state machines: how the state of *)
(* a worker, its pid and its process go together, and where the instances  *)
(* are while the caller has control.  The second applies it to the tables  *)
(* of the server and of the client.                                        *)
(***************************************************************************)
EXTENDS RussulaProofs, ServerNetbench, ClientNetbench

W(w) == <<"worker", w>>
C(w) == <<"coord", w>>
Kinded(s, kinds) == Run["worker"][s] \in kinds

(* A worker that is past "spawn" has started netbench and knows its pid,   *)
(* one that is past "kill" or "join" has seen it end.                      *)
ProcessHere(w) ==
  /\ \A s \in States("worker") :
       /\ Kinded(s, {"spawn"}) /\ Ahead(W(w), s) => proc[w] # "none"
       /\ Kinded(s, {"kill", "join"}) /\ Ahead(W(w), s) => proc[w] = "gone"
  /\ proc[w] # "none" =>
       /\ pid[w] = "child"
       /\ \E s \in States("worker") : Kinded(s, {"spawn"}) /\ Ahead(W(w), s)

ProcessInv == \A w \in Workers : ProcessHere(w)

(* While its caller has control, every instance of a process is at the     *)
(* target it reached last.                                                 *)
CallerHere(p) ==
  /\ pc[p] \in {"bind", "accept", "connect"} => goal[p] = 1
  /\ pc[p] = "idle" /\ goal[p] > 1 =>
       \A e \in Instances(p) : state[e] = TargetOf(p, goal[p] - 1)

CallerInv == \A p \in Processes : CallerHere(p)

(* What the tables must satisfy: netbench is started, and only before it is*)
(* killed or watched.                                                      *)
SpawnFirst ==
  /\ \E t \in States("worker") : Kinded(t, {"spawn"})
  /\ \A s, t \in States("worker") :
       Kinded(s, {"kill", "join"}) /\ Kinded(t, {"spawn"}) =>
         Rank["worker"][t] < Rank["worker"][s]

NInv == IInv /\ ProcessInv /\ CallerInv

--------------------------------------------------------------------------------
(* The one instance of a worker.                                           *)
LEMMA WorkerFacts ==
  ASSUME TypeOK, NEW w \in Workers
  PROVE  /\ w \in Processes /\ w # Coordinator /\ SideOf(w) = "worker"
         /\ At(w) = W(w) /\ W(w) \in Endpoints /\ W(w) \in Instances(w)
         /\ state[W(w)] \in States("worker")
<1>1. w \in Processes /\ w # Coordinator /\ SideOf(w) = "worker"
  BY NAssumption DEF Workers, Processes, Coordinator, SideOf
<1>2. turn[w] = w
  BY <1>1, NAssumption DEF TypeOK, First, Last, Workers
<1>3. At(w) = W(w)
  BY <1>1, <1>2 DEF At, W
<1> QED BY <1>1, <1>3, AtFacts DEF TypeOK, W

(* A move leaves exactly the state it was in behind.                       *)
LEMMA MoveAhead ==
  ASSUME TypeOK, NEW w \in Workers, MoveStep(w), NEW s \in States("worker")
  PROVE  Ahead(W(w), s)' <=> Ahead(W(w), s) \/ s = state[W(w)]
<1>1. /\ W(w) \in Endpoints /\ W(w)[1] = "worker" /\ At(w) = W(w) /\ w \in Processes
      /\ state[W(w)] \in States("worker")
  BY WorkerFacts DEF W
<1>2. RankOf(W(w), state'[W(w)]) = RankOf(W(w), state[W(w)]) + 1
  BY <1>1, MoveFacts
<1>3. RankOf(W(w), s) \in Nat /\ RankOf(W(w), state[W(w)]) \in Nat
  BY <1>1, RankType
<1>4. RankOf(W(w), s) = RankOf(W(w), state[W(w)]) <=> s = state[W(w)]
  BY <1>1, PathAssumption DEF RankOf, Sides
<1>5. Ahead(W(w), s)' <=> RankOf(W(w), state'[W(w)]) > RankOf(W(w), s)
  BY DEF Ahead, RankOf
<1> QED BY <1>2, <1>3, <1>4, <1>5 DEF Ahead

(* What a step does to the state and the netbench process of worker w.     *)
Stays(w)   == proc'[w] = proc[w] /\ pid'[w] = pid[w]
Silent(w)  == Stays(w) /\ state'[W(w)] = state[W(w)]
Moves(w)   == Stays(w) /\ MoveStep(w) /\ ~Kinded(state[W(w)], {"spawn", "kill", "join"})
Spawns(w)  == /\ MoveStep(w) /\ Kinded(state[W(w)], {"spawn"})
              /\ proc'[w] = "running" /\ pid'[w] = "child"
Kills(w)   == /\ MoveStep(w) /\ Kinded(state[W(w)], {"kill"}) /\ pid'[w] = pid[w]
              /\ proc'[w] = IF pid[w] = "child" /\ proc[w] = "running" THEN "gone" ELSE proc[w]
Watched(w)  == Stays(w) /\ MoveStep(w) /\ Kinded(state[W(w)], {"join"}) /\ ~StillRunning(w)
Exits(w)   == /\ proc[w] = "running" /\ proc'[w] = "gone"
              /\ pid'[w] = pid[w] /\ state'[W(w)] = state[W(w)]

ProcessStep(w) ==
  Silent(w) \/ Moves(w) \/ Spawns(w) \/ Kills(w) \/ Watched(w) \/ Exits(w)

(* Each kind of step keeps what is known of the process.                   *)
LEMMA ProcessKept ==
  ASSUME TypeOK, SpawnFirst, NEW w \in Workers, ProcessHere(w), ProcessStep(w)
  PROVE  ProcessHere(w)'
<1> DEFINE A(s) == Ahead(W(w), s)
           S == States("worker")
<1>0. /\ state[W(w)] \in S /\ W(w) \in Endpoints /\ proc[w] \in {"none", "running", "gone"}
      /\ \A s \in S : RankOf(W(w), s) \in Nat /\ RankOf(W(w), s) = Rank["worker"][s]
  BY WorkerFacts, RankType DEF TypeOK, RankOf, W
<1>1. CASE state'[W(w)] = state[W(w)]
  <2>1. \A s \in S : A(s)' <=> A(s)
    BY <1>1 DEF Ahead, RankOf
  <2>2. CASE Silent(w)
    BY <2>1, <2>2 DEF Silent, Stays, ProcessHere, Kinded
  <2>3. CASE Exits(w)
    BY <2>1, <2>3 DEF Exits, ProcessHere, Kinded
  <2>4. ~MoveStep(w)
    BY <1>0, <1>1, WorkerFacts, MoveFacts
  <2> QED BY <2>2, <2>3, <2>4 DEF ProcessStep, Moves, Spawns, Kills, Watched
<1>2. CASE MoveStep(w)
  <2>1. \A s \in S : A(s)' <=> A(s) \/ s = state[W(w)]
    BY <1>2, MoveAhead
  <2>2. CASE Moves(w)
    BY <2>1, <2>2 DEF Moves, Stays, ProcessHere, Kinded
  <2>3. CASE Spawns(w)
    <3>1. \A s \in S : Kinded(s, {"kill", "join"}) => ~A(s)'
      <4> SUFFICES ASSUME NEW s \in S, Kinded(s, {"kill", "join"}), A(s)' PROVE FALSE
        OBVIOUS
      <4>1. Rank["worker"][state[W(w)]] < Rank["worker"][s]
        BY <1>0, <2>3 DEF Spawns, SpawnFirst
      <4>2. A(s) \/ s = state[W(w)]
        BY <2>1
      <4> QED BY <1>0, <4>1, <4>2 DEF Ahead
    <3> QED BY <1>0, <2>1, <2>3, <3>1 DEF Spawns, ProcessHere, Kinded
  <2>4. CASE Kills(w) \/ Watched(w)
    <3>1. PICK t \in S : Kinded(t, {"spawn"}) /\ Rank["worker"][t] < Rank["worker"][state[W(w)]]
      BY <1>0, <2>4 DEF SpawnFirst, Kills, Watched, Kinded
    <3>2. A(t)
      BY <1>0, <3>1 DEF Ahead
    <3>3. proc[w] # "none" /\ pid[w] = "child"
      BY <3>1, <3>2 DEF ProcessHere
    <3>4. proc'[w] = "gone" /\ pid'[w] = "child"
      BY <1>0, <2>4, <3>3 DEF Kills, Watched, Stays, StillRunning
    <3>5. A(t)'
      BY <2>1, <3>2
    <3> QED BY <3>1, <3>4, <3>5 DEF ProcessHere, Kinded
  <2>5. CASE Silent(w) \/ Exits(w)
    BY <1>1, <2>5, <1>0, <1>2, WorkerFacts, MoveFacts DEF Silent, Exits
  <2> QED BY <2>2, <2>3, <2>4, <2>5 DEF ProcessStep
<1> QED BY <1>1, <1>2 DEF ProcessStep, Silent, Moves, Spawns, Kills, Watched, Exits

--------------------------------------------------------------------------------
(* What a step of process p does to its own netbench process, and that it  *)
(* leaves those of the others alone.                                       *)
Own(p) == \A w \in Workers : IF w = p THEN ProcessStep(w) ELSE Stays(w)

(* A step that touches neither process nor pid, and moves only in states   *)
(* that have nothing to do with them.                                      *)
LEMMA MoveOwn ==
  ASSUME TypeOK, NEW p \in Processes, UNCHANGED <<proc, pid>>,
         \/ UNCHANGED state
         \/ /\ MoveStep(p)
            /\ p \in Workers => ~Kinded(state[At(p)], {"spawn", "kill", "join"})
  PROVE  Own(p)
<1> SUFFICES ASSUME NEW w \in Workers
             PROVE  Stays(w) /\ (w = p => ProcessStep(w))
  BY DEF Own
<1>1. Stays(w)
  BY DEF Stays
<1>2. ASSUME w = p PROVE ProcessStep(w)
  <2>1. At(p) = W(w)
    BY <1>2, WorkerFacts
  <2> QED BY <1>1, <1>2, <2>1 DEF ProcessStep, Silent, Moves
<1> QED BY <1>1, <1>2

(* Every action of polling is such a step, those that drive netbench aside.*)
LEMMA PollOwn ==
  ASSUME TypeOK, ControlInv, Truthful, NEW p \in Processes, Poll(p)
  PROVE  Own(p)
<1>0. SideOf(p) \in Sides /\ state[At(p)] \in States(SideOf(p)) /\ UNCHANGED <<proc, pid>>
  BY AtFacts, NextFacts DEF Poll, Call, PollAtTarget, NotifyFinished, RunNotifyAwait, RunAdvance,
     RecvMatch, RecvOther, RecvBlocked, RecvEof, RecvReset, Close, procVars
<1>1. CASE UNCHANGED state
  BY <1>0, <1>1, MoveOwn
<1>2. CASE RunAdvance(p)
  <2>1. MoveStep(p)
    BY <1>2, RunsFacts DEF RunAdvance
  <2>2. Run[SideOf(p)][state[At(p)]] = "advance"
    BY <1>2 DEF RunAdvance, Runs
  <2>3. p \in Workers => ~Kinded(state[At(p)], {"spawn", "kill", "join"})
    BY <2>2, WorkerFacts DEF Kinded
  <2> QED BY <1>0, <2>1, <2>3, MoveOwn
<1>3. CASE RecvMatch(p)
  <2>1. Summary(p) /\ Transition(p) /\ Awaits(SideOf(p), state[At(p)])
    BY <1>3, RecvMatchStep, AtFacts DEF RecvMatch, Matches
  <2>2. UNCHANGED state \/ MoveStep(p)
    BY <2>1 DEF Summary
  <2>3. p \in Workers => ~Kinded(state[At(p)], {"spawn", "kill", "join"})
    <3> SUFFICES ASSUME p \in Workers PROVE Run["worker"][state[At(p)]] \in {"await", "notify_await"}
      BY DEF Kinded
    <3> QED BY <1>0, <2>1, WorkerFacts, TableAssumption
  <2> QED BY <1>0, <2>2, <2>3, MoveOwn
<1> QED BY <1>1, <1>2, <1>3 DEF Poll, Call, PollAtTarget, NotifyFinished, RunNotifyAwait,
     RecvOther, RecvBlocked, RecvEof, RecvReset, Close

(* Starting, killing and watching netbench.                                *)
LEMMA WorkerOwn ==
  ASSUME TypeOK, ControlInv, Truthful, NEW w \in Workers, WorkerStep(w)
  PROVE  Own(w)
<1>0. w \in Processes /\ At(w) = W(w) /\ SideOf(w) = "worker"
  BY WorkerFacts
<1>1. CASE Poll(w)
  BY <1>0, <1>1, PollOwn
<1>2. CASE Bind(w) \/ Accept(w) \/ RunAwait(w) \/ SpawnFails(w) \/ RunJoinBusy(w)
  BY <1>0, <1>2, MoveOwn DEF Bind, Accept, RunAwait, SpawnFails, RunJoinBusy, procVars
<1>7. CASE BindFails(w) \/ AcceptFails(w) \/ BuildGivesUp(w)
  BY <1>0, <1>7, MoveOwn DEF BindFails, AcceptFails, BuildGivesUp, procVars
<1>3. ASSUME RunSpawn(w) \/ RunKill(w) \/ RunJoined(w)
      PROVE  \A v \in Workers : v # w => Stays(v)
  BY <1>3 DEF RunSpawn, RunKill, RunJoined, procVars, Stays, TypeOK
<1>4. CASE RunSpawn(w)
  <2>1. MoveStep(w) /\ Kinded(state[W(w)], {"spawn"})
    BY <1>0, <1>4, RunsFacts DEF RunSpawn, Runs, Kinded
  <2>2. Spawns(w)
    BY <1>4, <2>1 DEF RunSpawn, Spawns, TypeOK
  <2> QED BY <1>3, <1>4, <2>2 DEF Own, ProcessStep
<1>5. CASE RunKill(w)
  <2>1. MoveStep(w) /\ Kinded(state[W(w)], {"kill"})
    BY <1>0, <1>5, RunsFacts DEF RunKill, Runs, Kinded
  <2>2. Kills(w)
    BY <1>5, <2>1 DEF RunKill, Kills, TypeOK
  <2> QED BY <1>3, <1>5, <2>2 DEF Own, ProcessStep
<1>6. CASE RunJoined(w)
  <2>1. Kinded(state[W(w)], {"join"}) /\ (Transition(w) => MoveStep(w)) /\ ~StillRunning(w)
    BY <1>0, <1>6, RunsFacts DEF RunJoined, Runs, Kinded
  <2>2. Stays(w)
    BY <1>6 DEF RunJoined, procVars, Stays
  <2>3. MoveStep(w) \/ UNCHANGED state
    BY <1>6, <2>1 DEF RunJoined
  <2>4. Watched(w) \/ Silent(w)
    BY <2>1, <2>2, <2>3 DEF Watched, Silent
  <2> QED BY <1>3, <1>6, <2>4 DEF Own, ProcessStep
<1> QED BY <1>1, <1>2, <1>4, <1>5, <1>6, <1>7 DEF WorkerStep

(* No step of a process moves the endpoint of a worker that is not it.     *)
LEMMA OwnKept ==
  ASSUME TypeOK, SpawnFirst, ProcessInv, NEW p \in Processes, Summary(p), Own(p)
  PROVE  ProcessInv'
<1> SUFFICES ASSUME NEW w \in Workers PROVE ProcessHere(w)'
  BY DEF ProcessInv
<1>1. CASE w = p
  BY <1>1, ProcessKept DEF Own, ProcessInv
<1>2. CASE w # p
  <2>1. w \in Processes \ {p} /\ W(w) \in Instances(w)
    BY <1>2, WorkerFacts
  <2>2. Silent(w)
    BY <1>2, <2>1, OthersKept DEF Own, Silent
  <2> QED BY <2>2, ProcessKept DEF ProcessStep, ProcessInv
<1> QED BY <1>1, <1>2

(* Every step of Russula keeps what is known of the netbench processes.    *)
LEMMA ProcessNext ==
  ASSUME TypeOK, ControlInv, Truthful, SpawnFirst, ProcessInv, [Next]_vars
  PROVE  ProcessInv'
<1>0. /\ Coordinator \in Processes /\ Workers \subseteq Processes /\ Mortal \subseteq Processes
      /\ MayVanish \subseteq Workers
  BY NAssumption, BoundsAssumption DEF Processes, Coordinator, Workers
<1>1. CASE CoordinatorStep
  <2>1. Own(Coordinator)
    <3>1. CASE Poll(Coordinator)
      BY <1>0, <3>1, PollOwn
    <3>2. CASE Connect \/ ConnectRefused \/ BuildGivesUp(Coordinator)
      BY <1>0, <3>2, MoveOwn DEF Connect, ConnectRefused, BuildGivesUp, procVars
    <3> QED BY <1>1, <3>1, <3>2 DEF CoordinatorStep
  <2> QED BY <1>0, <1>1, <2>1, CoordinatorStepSummary, OwnKept
<1>2. ASSUME NEW w \in Workers, WorkerStep(w) PROVE ProcessInv'
  BY <1>0, <1>2, WorkerOwn, WorkerStepSummary, OwnKept
<1>3. ASSUME NEW w \in Workers, Exit(w) PROVE ProcessInv'
  <2> SUFFICES ASSUME NEW v \in Workers PROVE ProcessHere(v)'
    BY DEF ProcessInv
  <2>1. Exits(v) \/ Silent(v)
    BY <1>3 DEF Exit, Exits, Silent, Stays, TypeOK
  <2> QED BY <2>1, ProcessKept DEF ProcessStep, ProcessInv
<1>4. ASSUME NEW p \in Mortal, Crash(p) PROVE ProcessInv'
  <2>1. Own(p)
    BY <1>0, <1>4, MoveOwn DEF Crash, procVars
  <2> QED BY <1>0, <1>4, <2>1, EndStep, OwnKept
<1>5. ASSUME UNCHANGED <<state, proc, pid>> PROVE ProcessInv'
  <2> SUFFICES ASSUME NEW v \in Workers PROVE ProcessHere(v)'
    BY DEF ProcessInv
  <2> QED BY <1>5, ProcessKept DEF ProcessStep, ProcessInv, Silent, Stays
<1>6. ASSUME NEW w \in Workers, Vanish(w) PROVE ProcessInv'
  <2>1. Own(w)
    BY <1>0, <1>6, MoveOwn DEF Vanish, procVars
  <2> QED BY <1>0, <1>6, <2>1, VanishStep, OwnKept
<1> QED BY <1>0, <1>1, <1>2, <1>3, <1>4, <1>5, <1>6 DEF Next, Terminating, ResetArrives, TimesOut,
           vars, procVars

--------------------------------------------------------------------------------
(* Where a step p takes itself leaves it: it goes on polling or panics, it *)
(* settles its target and its caller has control again, it ends because no *)
(* target is left, or it is still connecting.                              *)
Turns(p) ==
  \/ pc'[p] \in {"poll", "recv", "finish", "panicked"}
  \/ pc'[p] = "idle" /\ SettleStep(p)
  \/ pc'[p] = "closed" /\ ~HasGoal(p)
  \/ /\ pc[p] \in {"bind", "accept", "connect"}
     /\ pc'[p] \in {"bind", "accept", "connect", "idle"}
     /\ UNCHANGED goal

(* The caller gets control from the last instance, and only at the target. *)
LEMMA NextInstanceTurns ==
  ASSUME TypeOK, NEW p \in Processes, HasGoal(p), NEW s, NextInstance(p, s),
         \/ UNCHANGED state /\ s = state[At(p)]
         \/ Transition(p) /\ s = NewState(p)
  PROVE  Turns(p)
<1>1. At(p) \in Endpoints
  BY AtFacts
<1>2. state'[At(p)] = s /\ \A e \in Endpoints \ {At(p)} : state'[e] = state[e]
  BY <1>1 DEF Transition, TypeOK
<1>3. \/ pc'[p] = "poll"
      \/ /\ pc'[p] = "idle" /\ AllAtTarget(p, s)
         /\ goal' = [goal EXCEPT ![p] = @ + 1]
  BY DEF NextInstance, TypeOK
<1>4. AllAtTarget(p, s) => \A e \in Instances(p) : state'[e] = Target(p)
  BY <1>1, <1>2 DEF AllAtTarget, Instances
<1> QED BY <1>3, <1>4 DEF Turns, SettleStep

(* The end of run_current, with the notification before it.                *)
LEMMA EndRunTurns ==
  ASSUME TypeOK, NEW p \in Processes, HasGoal(p), NEW s, EndRun(p, s),
         \/ UNCHANGED state /\ s = state[At(p)]
         \/ Transition(p) /\ s = NewState(p)
  PROVE  Turns(p)
<1>1. CASE Finished(SideOf(p), s)
  BY <1>1 DEF EndRun, Turns, TypeOK
<1>2. CASE ~Finished(SideOf(p), s)
  BY <1>2, NextInstanceTurns DEF EndRun
<1> QED BY <1>1, <1>2

LEMMA NotifyTurns ==
  ASSUME TypeOK, NEW p \in Processes, HasGoal(p), NEW s, NEW msgs, NEW box,
         Notify(p, msgs, box, EndRun(p, s)),
         CanWrite(At(p)) =>
           \/ UNCHANGED state /\ s = state[At(p)]
           \/ Transition(p) /\ s = NewState(p)
  PROVE  Turns(p)
<1>1. CASE CanWrite(At(p))
  BY <1>1, EndRunTurns DEF Notify
<1>2. CASE ~CanWrite(At(p))
  BY <1>2 DEF Notify, Panic, Turns, Halted, TypeOK
<1> QED BY <1>1, <1>2

(* Polling.                                                                *)
LEMMA PollTurns ==
  ASSUME TypeOK, ControlInv, NEW p \in Processes, Poll(p)
  PROVE  Turns(p)
<1>1. CASE Call(p) \/ Close(p)
  BY <1>1 DEF Call, Close, Turns, Halted, TypeOK
<1>2. CASE RecvReset(p)
  BY <1>2 DEF RecvReset, Panic, Turns, TypeOK
<1>3. CASE RecvOther(p)
  BY <1>3 DEF RecvOther, Waiting, Turns
<1>4. CASE RunNotifyAwait(p)
  BY <1>4 DEF RunNotifyAwait, Notify, Reading, Panic, Turns, Halted, TypeOK
<1>5. CASE PollAtTarget(p)
  <2>1. HasGoal(p)
    BY <1>5 DEF PollAtTarget, Polling, ControlInv, ControlHere
  <2> QED BY <1>5, <2>1, EndRunTurns DEF PollAtTarget
<1>6. CASE NotifyFinished(p)
  <2>1. HasGoal(p) /\ UNCHANGED state
    BY <1>6 DEF NotifyFinished, ControlInv, ControlHere
  <2>2. CASE count[p] > 1
    BY <1>6, <2>2 DEF NotifyFinished, Turns
  <2>3. CASE ~(count[p] > 1)
    BY <1>6, <2>1, <2>3, NextInstanceTurns DEF NotifyFinished
  <2> QED BY <2>2, <2>3
<1>7. CASE RunAdvance(p)
  <2>1. HasGoal(p)
    BY <1>7, RunsFacts DEF RunAdvance
  <2> QED BY <1>7, <2>1, NotifyTurns DEF RunAdvance
<1>8. CASE RecvMatch(p) \/ RecvBlocked(p) \/ RecvEof(p)
  <2>1. HasGoal(p)
    BY <1>8, WaitingFacts DEF RecvMatch, RecvBlocked, RecvEof
  <2> QED BY <1>8, <2>1, NotifyTurns DEF RecvMatch, RecvBlocked, RecvEof
<1> QED BY <1>1, <1>2, <1>3, <1>4, <1>5, <1>6, <1>7, <1>8 DEF Poll

(* The steps only a worker takes.                                          *)
LEMMA WorkerTurns ==
  ASSUME TypeOK, ControlInv, NEW w \in Workers, WorkerStep(w)
  PROVE  Turns(w)
<1>0. w \in Processes
  BY WorkerFacts
<1>1. CASE Poll(w)
  BY <1>0, <1>1, PollTurns
<1>2. CASE Bind(w) \/ Accept(w) \/ AcceptFails(w)
  BY <1>0, <1>2 DEF Bind, Accept, AcceptFails, Turns, TypeOK
<1>3. CASE RunAwait(w) \/ SpawnFails(w) \/ BindFails(w) \/ BuildGivesUp(w)
  BY <1>0, <1>3 DEF RunAwait, SpawnFails, BindFails, BuildGivesUp, Reading, Panic, Turns, Halted,
     TypeOK
<1>4. CASE RunSpawn(w)
  <2>1. HasGoal(w)
    BY <1>0, <1>4, RunsFacts DEF RunSpawn
  <2> QED BY <1>0, <1>4, <2>1, EndRunTurns DEF RunSpawn
<1>5. CASE RunKill(w) \/ RunJoinBusy(w) \/ RunJoined(w)
  <2>1. HasGoal(w)
    BY <1>0, <1>5, RunsFacts DEF RunKill, RunJoinBusy, RunJoined
  <2> QED BY <1>0, <1>5, <2>1, NotifyTurns DEF RunKill, RunJoinBusy, RunJoined
<1> QED BY <1>1, <1>2, <1>3, <1>4, <1>5 DEF WorkerStep

(* A step of p, or its end from outside, keeps CallerInv: the others have  *)
(* neither moved nor settled.                                              *)
LEMMA CallerKept ==
  ASSUME TypeOK, CallerInv, NEW p \in Processes, Summary(p), Turns(p) \/ pc'[p] = "crashed"
  PROVE  CallerInv'
<1> SUFFICES ASSUME NEW q \in Processes PROVE CallerHere(q)'
  BY DEF CallerInv
<1>1. CASE q # p
  BY <1>1, OthersKept DEF Summary, Others, CallerInv, CallerHere, Instances, TargetOf
<1>2. CASE q = p /\ SettleStep(p) /\ pc'[p] = "idle"
  <2>1. goal'[p] = goal[p] + 1 /\ goal[p] \in Nat
    BY <1>2 DEF SettleStep, TypeOK
  <2>2. \A e \in Instances(p) : state'[e] = TargetOf(p, goal'[p] - 1)
    BY <1>2, <2>1 DEF SettleStep, Target
  <2> QED BY <1>2, <2>2 DEF CallerHere, Instances, TargetOf
<1>3. CASE q = p /\ ~(SettleStep(p) /\ pc'[p] = "idle")
  BY <1>3 DEF Turns, Halted, CallerInv, CallerHere
<1> QED BY <1>1, <1>2, <1>3

(* The steps only the coordinator takes.                                   *)
LEMMA CoordinatorTurns ==
  ASSUME TypeOK, ControlInv, CoordinatorStep
  PROVE  Turns(Coordinator)
<1>0. Coordinator \in Processes
  BY NAssumption DEF Processes, Coordinator
<1>1. CASE Poll(Coordinator)
  BY <1>0, <1>1, PollTurns
<1>2. CASE Connect
  BY <1>0, <1>2 DEF Connect, Turns, TypeOK
<1>3. CASE ConnectRefused
  BY <1>3 DEF ConnectRefused, Turns
<1>4. CASE BuildGivesUp(Coordinator)
  BY <1>0, <1>4 DEF BuildGivesUp, Panic, Turns, TypeOK
<1> QED BY <1>1, <1>2, <1>3, <1>4 DEF CoordinatorStep

(* Every step of Russula keeps where its callers stand.                    *)
LEMMA CallerNext ==
  ASSUME TypeOK, ControlInv, Truthful, CallerInv, [Next]_vars
  PROVE  CallerInv'
<1>0. /\ Coordinator \in Processes /\ Workers \subseteq Processes /\ Mortal \subseteq Processes
      /\ MayVanish \subseteq Workers
  BY NAssumption, BoundsAssumption DEF Processes, Coordinator, Workers
<1>1. CASE CoordinatorStep
  BY <1>0, <1>1, CoordinatorTurns, CoordinatorStepSummary, CallerKept
<1>2. ASSUME NEW w \in Workers, WorkerStep(w) PROVE CallerInv'
  BY <1>0, <1>2, WorkerTurns, WorkerStepSummary, CallerKept
<1>3. ASSUME NEW p \in Mortal, Crash(p) PROVE CallerInv'
  <2>1. pc'[p] = "crashed"
    BY <1>0, <1>3 DEF Crash, TypeOK
  <2> QED BY <1>0, <1>3, <2>1, EndStep, CallerKept
<1>4. ASSUME UNCHANGED <<state, pc, goal>> PROVE CallerInv'
  BY <1>4 DEF CallerInv, CallerHere, Instances, TargetOf
<1>5. ASSUME NEW w \in Workers, Vanish(w) PROVE CallerInv'
  <2>1. pc'[w] = "crashed"
    BY <1>0, <1>5 DEF Vanish, TypeOK
  <2> QED BY <1>0, <1>5, <2>1, VanishStep, CallerKept
<1> QED BY <1>0, <1>1, <1>2, <1>3, <1>4, <1>5 DEF Next, Terminating, Exit, ResetArrives, TimesOut,
           vars


--------------------------------------------------------------------------------
(* Initially no netbench runs and everybody is still connecting.           *)
LEMMA InitProcesses == Init => ProcessInv /\ CallerInv
<1> SUFFICES ASSUME Init PROVE ProcessInv /\ CallerInv
  OBVIOUS
<1>1. CallerInv
  BY DEF Init, Start, CallerInv, CallerHere
<1>2. ASSUME NEW w \in Workers PROVE ProcessHere(w)
  <2>1. TypeOK
    BY InitInvariant DEF IInv
  <2>2. W(w) \in Endpoints /\ state[W(w)] = Initial["worker"]
    BY <2>1, WorkerFacts DEF Init, W
  <2>3. \A s \in States("worker") : ~Ahead(W(w), s)
    <3> TAKE s \in States("worker")
    <3>1. RankOf(W(w), state[W(w)]) = 0
      BY <2>2, PathAssumption DEF RankOf, W, Sides
    <3>2. RankOf(W(w), s) \in Nat
      BY <2>2, RankType DEF W
    <3> QED BY <3>1, <3>2 DEF Ahead
  <2>4. proc[w] = "none"
    BY DEF Init
  <2> QED BY <2>3, <2>4 DEF ProcessHere
<1> QED BY <1>1, <1>2 DEF ProcessInv

LEMMA InitNetbench == Init => NInv
  BY InitInvariant, InitProcesses DEF NInv

LEMMA NextNetbench ==
  ASSUME SpawnFirst, NInv, [Next]_vars
  PROVE  NInv'
  BY NextInvariant, ProcessNext, CallerNext DEF NInv, IInv

(* What is known of processes and callers holds throughout, for every pair *)
(* of state machines that start netbench before they kill or watch it.     *)
THEOREM NetbenchInvariant ==
  ASSUME SpawnFirst
  PROVE  Spec => []NInv
<1>1. Init => NInv
  BY InitNetbench
<1>2. NInv /\ [Next]_vars => NInv'
  BY NextNetbench
<1> QED BY <1>1, <1>2, PTL DEF Spec

(* The endpoints of worker w, and that each is where the other can be only *)
(* if it has come to what was awaited.                                     *)
LEMMA PairFacts ==
  ASSUME NInv, NEW w \in Workers
  PROVE  /\ W(w) \in Endpoints /\ C(w) \in Endpoints /\ C(w) \in Instances(Coordinator)
         /\ state[W(w)] \in States("worker") /\ state[C(w)] \in States("coord")
         /\ \A s \in States("worker") :
              Awaits("worker", s) /\ Ahead(W(w), s) => Reached(C(w), Step["worker"][s])
         /\ \A s \in States("coord") :
              Awaits("coord", s) /\ Ahead(C(w), s) => Reached(W(w), Step["coord"][s])
         /\ ProcessHere(w)
<1>1. /\ W(w) \in Endpoints /\ W(w)[1] = "worker" /\ Peer(W(w)) = C(w)
      /\ C(w) \in Endpoints /\ C(w)[1] = "coord" /\ Peer(C(w)) = W(w)
      /\ Owner(C(w)) = Coordinator
  BY DEF W, C, Endpoints, Sides, Peer, OtherSide, Owner
<1>2. InStep /\ TypeOK /\ ProcessHere(w)
  BY DEF NInv, IInv, ProcessInv
<1> QED BY <1>1, <1>2 DEF InStep, TypeOK, Instances

(* Every instance of the coordinator has reached the targets behind it.    *)
LEMMA CoordPassed ==
  ASSUME NInv, NEW i \in Nat \ {0}, goal[Coordinator] > i, NEW w \in Workers
  PROVE  Reached(C(w), TargetOf(Coordinator, i))
<1>1. Coordinator \in Processes /\ goal[Coordinator] \in Nat
  BY NAssumption DEF NInv, IInv, TypeOK, Processes, Coordinator
<1>2. i \in 1..(goal[Coordinator] - 1)
  BY <1>1
<1> QED BY <1>1, <1>2, PairFacts DEF NInv, IInv, Barrier

(* An instance of the coordinator that is past a target shows that all of  *)
(* them have reached it.                                                   *)
LEMMA CoordPast ==
  ASSUME NInv, NEW i \in 1..Len(Targets["coord"]), NEW v \in Workers, NEW w \in Workers,
         Ahead(C(v), TargetOf(Coordinator, i))
  PROVE  goal[Coordinator] > i /\ Reached(C(w), TargetOf(Coordinator, i))
<1> DEFINE g == goal[Coordinator]
           L == Len(Targets["coord"])
           T(j) == TargetOf(Coordinator, j)
<1>a. /\ Coordinator \in Processes /\ SideOf(Coordinator) = "coord" /\ g \in Nat \ {0}
      /\ C(v)[1] = "coord" /\ "coord" \in Sides
  BY NAssumption DEF NInv, IInv, TypeOK, Processes, Coordinator, SideOf, Sides, C
<1>b. L \in Nat /\ i \in Nat \ {0}
  BY <1>a, TableAssumption
<1>c. C(v) \in Instances(Coordinator) /\ state[C(v)] \in States("coord") /\ C(v) \in Endpoints
  BY PairFacts
<1>0. /\ Coordinator \in Processes /\ SideOf(Coordinator) = "coord" /\ g \in Nat \ {0}
      /\ C(v) \in Instances(Coordinator) /\ L \in Nat /\ i \in Nat \ {0}
      /\ state[C(v)] \in States("coord") /\ C(v) \in Endpoints /\ C(v)[1] = "coord"
  BY <1>a, <1>b, <1>c
<1>1. g > i
  <2> SUFFICES ASSUME g <= i PROVE FALSE
    BY <1>0
  <2>1. g \in 1..L /\ i \in 1..L
    BY <1>0
  <2>2. ~Ahead(C(v), T(g))
    BY <1>0, <2>1 DEF NInv, IInv, Barrier, HasGoal, Target
  <2>3. /\ RankOf(C(v), T(g)) <= RankOf(C(v), T(i))
        /\ RankOf(C(v), T(g)) \in Nat /\ RankOf(C(v), T(i)) \in Nat
    BY <1>0, <2>1, TargetFacts
  <2>4. RankOf(C(v), state[C(v)]) \in Nat
    BY <1>0, RankType
  <2> QED BY <2>2, <2>3, <2>4 DEF Ahead
<1> QED BY <1>0, <1>1, CoordPassed

--------------------------------------------------------------------------------
(* The netbench server.                                                    *)
ServerTables ==
  /\ Run = ServerRun /\ Step = ServerStep /\ NextState = ServerNext
  /\ Initial = ServerInitial /\ Targets = ServerTargets /\ Rank = ServerRank

(* The entries of the tables the arguments below turn on.                  *)
LEMMA ServerFacts ==
  ASSUME ServerTables
  PROVE  /\ States("coord") = {"CheckWorker", "Ready", "RunWorker", "WorkersRunning",
                               "KillWorker", "WorkerKilled", "Done"}
         /\ States("worker") = {"WaitCoordInit", "Ready", "Run", "RunningAwaitKill",
                                "Killing", "Stopped", "Done"}
         /\ SpawnFirst
         /\ Kinded("Run", {"spawn"}) /\ Kinded("Killing", {"kill", "join"})
         /\ TargetOf(Coordinator, 1) = "Ready" /\ TargetOf(Coordinator, 2) = "WorkersRunning"
         /\ TargetOf(Coordinator, 3) = "Done" /\ Len(Targets["coord"]) = 3
         /\ 2 \in 1..Len(Targets["coord"])
  BY SMT DEF ServerTables, ServerRun, ServerStep, ServerTargets, ServerRank, States,
     ServerCoordRun, ServerCoordStep, ServerWorkerRun, ServerWorkerStep, SpawnFirst, Kinded,
     TargetOf, SideOf, Coordinator

(* Shorthands for where the server's endpoints stand.                      *)
LEMMA ServerRanks ==
  ASSUME ServerTables, NInv, NEW w \in Workers
  PROVE  /\ Reached(C(w), "WorkersRunning") => Ahead(C(w), "RunWorker")
         /\ Reached(C(w), "KillWorker") => Ahead(C(w), "WorkersRunning")
         /\ Reached(C(w), "Done") => Ahead(C(w), "KillWorker")
         /\ Reached(W(w), "RunningAwaitKill") => Ahead(W(w), "Run")
         /\ Reached(W(w), "Killing") => Ahead(W(w), "RunningAwaitKill")
         /\ Reached(W(w), "Stopped") => Ahead(W(w), "Killing")
<1>1. RankOf(W(w), state[W(w)]) \in Nat /\ RankOf(C(w), state[C(w)]) \in Nat
  BY PairFacts, RankType DEF C, W
<1>2. /\ RankOf(C(w), "RunWorker") = 2 /\ RankOf(C(w), "WorkersRunning") = 3
      /\ RankOf(C(w), "KillWorker") = 4 /\ RankOf(C(w), "Done") = 6
  BY DEF ServerTables, ServerRank, RankOf, C
<1>3. /\ RankOf(W(w), "Run") = 2 /\ RankOf(W(w), "RunningAwaitKill") = 3
      /\ RankOf(W(w), "Killing") = 4 /\ RankOf(W(w), "Stopped") = 5
  BY DEF ServerTables, ServerRank, RankOf, W
<1> QED BY <1>1, <1>2, <1>3 DEF Reached, Ahead

LEMMA ServerAwaits ==
  ASSUME ServerTables
  PROVE  /\ Awaits("coord", "RunWorker") /\ Step["coord"]["RunWorker"] = "RunningAwaitKill"
         /\ Awaits("coord", "KillWorker") /\ Step["coord"]["KillWorker"] = "Stopped"
         /\ Awaits("worker", "RunningAwaitKill")
         /\ Step["worker"]["RunningAwaitKill"] = "KillWorker"
  BY SMT DEF ServerTables, ServerStep, ServerCoordStep, ServerWorkerStep, Awaits, Kinds

(* A coordinator endpoint at WorkersRunning has a worker with netbench.    *)
LEMMA ServerStarted ==
  ASSUME ServerTables, NInv, NEW w \in Workers, Reached(C(w), "WorkersRunning")
  PROVE  proc[w] # "none"
<1>1. Ahead(C(w), "RunWorker")
  BY ServerRanks
<1>2. Reached(W(w), "RunningAwaitKill")
  BY <1>1, PairFacts, ServerFacts, ServerAwaits
<1>3. Ahead(W(w), "Run")
  BY <1>2, ServerRanks
<1> QED BY <1>3, PairFacts, ServerFacts DEF ProcessHere

(* A worker whose coordinator endpoint is at WorkersRunning has netbench   *)
(* and does not kill it.                                                   *)
LEMMA ServerUpAt ==
  ASSUME ServerTables, NInv, NEW w \in Workers, state[C(w)] = "WorkersRunning"
  PROVE  proc[w] # "none" /\ ~Reached(W(w), "Killing")
<1>1. RankOf(C(w), "WorkersRunning") \in Nat
  BY ServerFacts, PairFacts, RankType DEF C
<1>2. proc[w] # "none"
  BY <1>1, ServerStarted DEF Reached
<1>3. ASSUME Reached(W(w), "Killing") PROVE FALSE
  <2>1. Reached(C(w), "KillWorker")
    BY <1>3, ServerRanks, ServerAwaits, ServerFacts, PairFacts
  <2>2. Ahead(C(w), "WorkersRunning")
    BY <2>1, ServerRanks
  <2> QED BY <1>1, <2>2 DEF Ahead
<1> QED BY <1>2, <1>3

(* While the coordinator waits in WorkersRunning netbench runs everywhere, *)
(* and nobody kills it before everybody has started it.                    *)
LEMMA ServersAreUp ==
  ASSUME ServerTables, NInv
  PROVE  ServersUp
<1>1. ASSUME pc[Coordinator] = "idle", goal[Coordinator] = 3, NEW w \in Workers
      PROVE  proc[w] # "none" /\ ~Reached(W(w), "Killing")
  <2>1. Coordinator \in Processes /\ C(w) \in Instances(Coordinator)
    BY <1>1, PairFacts, NAssumption DEF Processes, Coordinator
  <2>2. state[C(w)] = "WorkersRunning"
    BY <1>1, <2>1, ServerFacts DEF NInv, CallerInv, CallerHere
  <2> QED BY <1>1, <2>2, ServerUpAt
<1>2. ASSUME NEW v \in Workers, NEW w \in Workers, Reached(W(v), "Killing")
      PROVE  proc[w] # "none"
  <2>1. Reached(C(v), "KillWorker")
    BY <1>2, ServerRanks, ServerAwaits, ServerFacts, PairFacts
  <2>2. Ahead(C(v), "WorkersRunning")
    BY <1>2, <2>1, ServerRanks
  <2>3. Reached(C(w), "WorkersRunning")
    BY <1>2, <2>2, ServerFacts, CoordPast
  <2> QED BY <1>2, <2>3, ServerStarted
<1> QED BY <1>1, <1>2 DEF ServersUp, W

(* ServersUp, for any number of servers.                                   *)
THEOREM ServersUpHolds ==
  ASSUME ServerTables
  PROVE  Spec => []ServersUp
<1>1. NInv => ServersUp
  BY ServersAreUp
<1>2. Spec => []NInv
  BY NetbenchInvariant, ServerFacts
<1> QED BY <1>1, <1>2, PTL

(* The server coordinator reports Done when every netbench was killed.     *)
LEMMA ServersEnded ==
  ASSUME ServerTables, NInv
  PROVE  DoneMeansEnded
<1>1. ASSUME ToldCaller("Done"), NEW w \in Workers PROVE proc[w] = "gone"
  <2>1. PICK i \in 1..(goal[Coordinator] - 1) : TargetOf(Coordinator, i) = "Done"
    BY <1>1 DEF ToldCaller, TargetOf, SideOf
  <2>2. i \in Nat \ {0} /\ goal[Coordinator] > i
    BY <1>1, NAssumption DEF NInv, IInv, TypeOK, Processes, Coordinator
  <2>3. Reached(C(w), "Done")
    BY <1>1, <2>1, <2>2, CoordPassed
  <2>4. Reached(W(w), "Stopped")
    BY <1>1, <2>3, ServerRanks, ServerAwaits, ServerFacts, PairFacts
  <2> QED BY <1>1, <2>4, ServerRanks, ServerFacts, PairFacts DEF ProcessHere
<1> QED BY <1>1 DEF DoneMeansEnded

(* DoneMeansEnded, for any number of servers.                              *)
THEOREM ServerDoneMeansEnded ==
  ASSUME ServerTables
  PROVE  Spec => []DoneMeansEnded
<1>1. NInv => DoneMeansEnded
  BY ServersEnded
<1>2. Spec => []NInv
  BY NetbenchInvariant, ServerFacts
<1> QED BY <1>1, <1>2, PTL

--------------------------------------------------------------------------------
(* The netbench client.                                                    *)
ClientTables ==
  /\ Run = ClientRun /\ Step = ClientStep /\ NextState = ClientNext
  /\ Initial = ClientInitial /\ Targets = ClientTargets /\ Rank = ClientRank

LEMMA ClientFacts ==
  ASSUME ClientTables
  PROVE  /\ States("coord") = {"CheckWorker", "Ready", "RunWorker", "WorkersRunning", "Done"}
         /\ States("worker") = {"WaitCoordInit", "Ready", "Run", "Running",
                                "RunningAwaitComplete", "Stopped", "Done"}
         /\ SpawnFirst
         /\ \A s \in States("worker") : Kinded(s, {"spawn"}) <=> s = "Run"
         /\ Kinded("RunningAwaitComplete", {"kill", "join"})
         /\ TargetOf(Coordinator, 1) = "Ready" /\ TargetOf(Coordinator, 2) = "Done"
         /\ Len(Targets["coord"]) = 2 /\ 1 \in 1..Len(Targets["coord"])
  BY SMT DEF ClientTables, ClientRun, ClientStep, ClientTargets, ClientRank, States,
     ClientCoordRun, ClientCoordStep, ClientWorkerRun, ClientWorkerStep, SpawnFirst, Kinded,
     TargetOf, SideOf, Coordinator

LEMMA ClientRanks ==
  ASSUME ClientTables, NInv, NEW w \in Workers
  PROVE  /\ Reached(C(w), "Ready") => Ahead(C(w), "CheckWorker")
         /\ Reached(C(w), "RunWorker") => Ahead(C(w), "Ready")
         /\ Reached(C(w), "Done") => Ahead(C(w), "WorkersRunning")
         /\ Ahead(W(w), "Run") => Ahead(W(w), "Ready")
         /\ Reached(W(w), "Stopped") => Ahead(W(w), "RunningAwaitComplete")
<1>1. RankOf(W(w), state[W(w)]) \in Nat /\ RankOf(C(w), state[C(w)]) \in Nat
  BY PairFacts, RankType DEF C, W
<1>2. /\ RankOf(C(w), "CheckWorker") = 0 /\ RankOf(C(w), "Ready") = 1
      /\ RankOf(C(w), "RunWorker") = 2 /\ RankOf(C(w), "WorkersRunning") = 3
      /\ RankOf(C(w), "Done") = 4
  BY DEF ClientTables, ClientRank, RankOf, C
<1>3. /\ RankOf(W(w), "Ready") = 1 /\ RankOf(W(w), "Run") = 2
      /\ RankOf(W(w), "RunningAwaitComplete") = 4 /\ RankOf(W(w), "Stopped") = 5
  BY DEF ClientTables, ClientRank, RankOf, W
<1> QED BY <1>1, <1>2, <1>3 DEF Reached, Ahead

LEMMA ClientAwaits ==
  ASSUME ClientTables
  PROVE  /\ Awaits("coord", "CheckWorker") /\ Step["coord"]["CheckWorker"] = "Ready"
         /\ Awaits("coord", "WorkersRunning") /\ Step["coord"]["WorkersRunning"] = "Stopped"
         /\ Awaits("worker", "Ready") /\ Step["worker"]["Ready"] = "RunWorker"
  BY SMT DEF ClientTables, ClientStep, ClientCoordStep, ClientWorkerStep, Awaits, Kinds

(* A client has started netbench when its coordinator endpoint has left    *)
(* Ready, which the caller has seen.                                       *)
LEMMA ClientStarted ==
  ASSUME ClientTables, NInv, NEW v \in Workers, proc[v] # "none"
  PROVE  /\ Ahead(C(v), "Ready") /\ goal[Coordinator] > 1
         /\ \A w \in Workers : Reached(C(w), "Ready")
<1>1. Ahead(W(v), "Run")
  BY PairFacts, ClientFacts DEF ProcessHere
<1>2. Reached(C(v), "RunWorker")
  BY <1>1, ClientRanks, ClientAwaits, ClientFacts, PairFacts
<1>3. Ahead(C(v), "Ready")
  BY <1>2, ClientRanks
<1>4. Ahead(C(v), TargetOf(Coordinator, 1))
  BY <1>3, ClientFacts
<1>5. ASSUME NEW w \in Workers
      PROVE  goal[Coordinator] > 1 /\ Reached(C(w), "Ready")
  BY <1>4, ClientFacts, CoordPast
<1> QED BY <1>3, <1>5

(* No client starts netbench before every client is Ready.                 *)
LEMMA ClientsTogether ==
  ASSUME ClientTables, NInv
  PROVE  StartTogether
<1>1. ASSUME NEW v \in Workers, NEW w \in Workers, proc[v] # "none"
      PROVE  Reached(W(w), "Ready")
  <2>1. Reached(C(w), "Ready")
    BY <1>1, ClientStarted
  <2> QED BY <1>1, <2>1, ClientRanks, ClientAwaits, ClientFacts, PairFacts
<1> QED BY <1>1 DEF StartTogether, W

(* StartTogether, for any number of clients.                               *)
THEOREM ClientStartTogether ==
  ASSUME ClientTables
  PROVE  Spec => []StartTogether
<1>1. NInv => StartTogether
  BY ClientsTogether
<1>2. Spec => []NInv
  BY NetbenchInvariant, ClientFacts
<1> QED BY <1>1, <1>2, PTL

(* The client coordinator reports Done when every netbench has ended.      *)
LEMMA ClientsEnded ==
  ASSUME ClientTables, NInv
  PROVE  DoneMeansEnded
<1>1. ASSUME ToldCaller("Done"), NEW w \in Workers PROVE proc[w] = "gone"
  <2>1. PICK i \in 1..(goal[Coordinator] - 1) : TargetOf(Coordinator, i) = "Done"
    BY <1>1 DEF ToldCaller, TargetOf, SideOf
  <2>2. i \in Nat \ {0} /\ goal[Coordinator] > i
    BY <1>1, NAssumption DEF NInv, IInv, TypeOK, Processes, Coordinator
  <2>3. Reached(C(w), "Done")
    BY <1>1, <2>1, <2>2, CoordPassed
  <2>4. Reached(W(w), "Stopped")
    BY <1>1, <2>3, ClientRanks, ClientAwaits, ClientFacts, PairFacts
  <2> QED BY <1>1, <2>4, ClientRanks, ClientFacts, PairFacts DEF ProcessHere
<1> QED BY <1>1 DEF DoneMeansEnded

(* DoneMeansEnded, for any number of clients.                              *)
THEOREM ClientDoneMeansEnded ==
  ASSUME ClientTables
  PROVE  Spec => []DoneMeansEnded
<1>1. NInv => DoneMeansEnded
  BY ClientsEnded
<1>2. Spec => []NInv
  BY NetbenchInvariant, ClientFacts
<1> QED BY <1>1, <1>2, PTL

================================================================================
