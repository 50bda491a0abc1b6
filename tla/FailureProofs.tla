----------------------------- MODULE FailureProofs ------------------------------
(***************************************************************************)
(* Which failures a run of Russula can have at all, for any number of      *)
(* workers: as long as nobody was killed or lost, every connection was     *)
(* accepted, every netbench could be started and every worker connected to,*)
(* the coordinator does not fail, and a worker fails only when it cannot   *)
(* listen or when everything of it is over.                                *)
(*                                                                         *)
(* The argument follows the connections.  One of them breaks only when a   *)
(* process at one of its ends halts, and a process halts in good order only*)
(* at its last target: a worker gets there after the coordinator's endpoint*)
(* is Done, so whichever end was closed first, that endpoint is Done.  A   *)
(* worker that fails to bind has no connection yet that could break.  A    *)
(* coordinator endpoint that is Done ignores what happens to its           *)
(* connection, and this is why a worker that fails then harms nobody.      *)
(***************************************************************************)
EXTENDS NetbenchProofs

(* The coordinator's endpoint of worker w has come to its end.             *)
Over(w) == Finished("coord", state[C(w)])

(* Something has happened to the connection after it was made.             *)
Broken(e) == conn[e] \notin {"none", "open"}

(* No reason to fail has occurred.                                         *)
Sound == Undisturbed /\ ~ConnectFailed

(* The workers the coordinator has not come to are not connected.          *)
ConnectInv ==
  pc[Coordinator] = "connect" =>
    \A w \in Workers : w >= turn[Coordinator] => conn[C(w)] = "none"

(* A worker that binds has no connection, or has lost the one it had.      *)
BindInv ==
  \A w \in Workers : pc[w] = "bind" => conn[W(w)] \in {"none", "dropped"}

(* Both ends of a connection are made in one step.                         *)
MadeTogether == \A w \in Workers : conn[C(w)] = "none" <=> conn[W(w)] = "none"

LinkInv == ConnectInv /\ BindInv /\ MadeTogether

LateInv ==
  Sound =>
    /\ pc[Coordinator] # "panicked"
    /\ pc[Coordinator] \in Halted => \A w \in Workers : Over(w)
    /\ \A w \in Workers : pc[w] \in Halted => Over(w) \/ NeverListened(w)
    /\ \A e \in Endpoints : Broken(e) => Over(e[2])

(* What the tables must satisfy: the callers drive both sides to the end of*)
(* their paths, and a worker is told when its coordinator is there.        *)
LastOf(s) == Targets[s][Len(Targets[s])]

FinishLast ==
  /\ \A s \in Sides : Finished(s, LastOf(s))
  /\ \A s \in Sides : \A x, y \in States(s) : Finished(s, x) => Rank[s][y] <= Rank[s][x]
  /\ \E x \in States("worker") :
       /\ Awaits("worker", x) /\ Finished("coord", Step["worker"][x])
       /\ Rank["worker"][x] < Rank["worker"][LastOf("worker")]

--------------------------------------------------------------------------------
(* What a step does to the connections and to the process that takes it.   *)
Calm   == \A e \in Endpoints : Broken(e)' => Broken(e)
Unmade ==
  \A e \in Endpoints :
    (conn'[e] = "none" <=> conn[e] = "none") /\ (conn[e] = "dropped" => conn'[e] = "dropped")

(* Only the connections of p break, if any does.                           *)
OwnBreaks(p) ==
  \A e \in Endpoints : Broken(e)' => Broken(e) \/ Owner(e) = p \/ Owner(Peer(e)) = p

Reason(p) ==
  \/ pc'[p] = "crashed"
  \/ pc'[p] = "closed" /\ ~HasGoal(p)
  \/ pc'[p] = "panicked" /\ Broken(At(p)) /\ ~Finished(SideOf(p), state[At(p)])
  \/ p = Coordinator /\ ConnectFailed'
  \/ p \in Workers /\ CouldNotSpawn(p)'

Fate(p) ==
  /\ Unmade \/ (p = Coordinator /\ Connect)
  /\ \/ pc'[p] \notin Halted /\ Calm
     \/ pc'[p] \in Halted /\ OwnBreaks(p) /\ Reason(p)
     \/ p \in Workers /\ Calm /\ NeverListened(p)'
     \/ p \in Workers /\ NotAccepted(p)'

(* The kernel closes the connections of p and no others.                   *)
LEMMA ShutdownBreaks ==
  ASSUME TypeOK, NEW p \in Processes, NEW box, Shutdown(p, box)
  PROVE  OwnBreaks(p) /\ Unmade
<1> SUFFICES ASSUME NEW e \in Endpoints
             PROVE  /\ Broken(e)' => Broken(e) \/ Owner(e) = p \/ Owner(Peer(e)) = p
                    /\ conn'[e] = "none" <=> conn[e] = "none"
                    /\ conn[e] = "dropped" => conn'[e] = "dropped"
  BY DEF OwnBreaks, Unmade
<1>1. conn'[e] = CASE conn[e] \in {"none", "closed"} -> conn[e]
                   [] conn[e] \in Alive /\ Owner(e) = p -> "closed"
                   [] conn[e] = "open" /\ Owner(Peer(e)) = p ->
                        IF box[Peer(e)] = <<>> THEN "eof" ELSE "rst"
                   [] OTHER -> conn[e]
  BY DEF Shutdown
<1> QED BY <1>1 DEF Broken, Alive

(* A notification that is written breaks nothing.                          *)
LEMMA TransmitCalm ==
  ASSUME TypeOK, NEW e \in Endpoints, NEW msgs, NEW box, Transmit(e, msgs, box)
  PROVE  Calm /\ Unmade
  BY DEF Transmit, Calm, Unmade, Broken, TypeOK

(* The ends of a run that goes on.                                         *)
LEMMA GoesOn ==
  ASSUME TypeOK, NEW p \in Processes, NEW s, EndRun(p, s) \/ NextInstance(p, s) \/ Reading(p)
  PROVE  pc'[p] \notin Halted
  BY DEF EndRun, NextInstance, Reading, TypeOK, Halted

(* A panic of a process that is in the middle of its run, after its        *)
(* connection was reset.                                                   *)
LEMMA PanicFate ==
  ASSUME TypeOK, NEW p \in Processes, NEW box, Panic(p, box), conn[At(p)] = "reset",
         ~Finished(SideOf(p), state[At(p)])
  PROVE  Fate(p)
<1>1. OwnBreaks(p) /\ Unmade
  BY ShutdownBreaks DEF Panic
<1>2. pc'[p] = "panicked"
  BY DEF Panic, TypeOK
<1> QED BY <1>1, <1>2 DEF Fate, Reason, Broken, Halted

(* A notification of an instance that is not finished.                     *)
LEMMA NotifyFate ==
  ASSUME TypeOK, NEW p \in Processes, NEW msgs, NEW box, NEW s,
         Notify(p, msgs, box, EndRun(p, s)) \/ Notify(p, msgs, box, Reading(p)),
         ~Finished(SideOf(p), state[At(p)])
  PROVE  Fate(p)
<1>1. CASE CanWrite(At(p))
  <2>1. Transmit(At(p), msgs, box) /\ (EndRun(p, s) \/ Reading(p))
    BY <1>1 DEF Notify
  <2> QED BY <2>1, AtFacts, TransmitCalm, GoesOn DEF Fate
<1>2. CASE ~CanWrite(At(p))
  BY <1>2, PanicFate DEF Notify, CanWrite
<1> QED BY <1>1, <1>2

(* A step that leaves the connections alone and halts nobody.              *)
LEMMA QuietFate ==
  ASSUME UNCHANGED conn, NEW p \in Processes, pc'[p] \notin Halted
  PROVE  Fate(p)
  BY DEF Fate, Calm, Unmade, Broken

(* A panic before there is a connection, or after it was reset unaccepted. *)
LEMMA BindFate ==
  ASSUME TypeOK, LinkInv, NEW w \in Workers, pc[w] = "bind", Panic(w, inbox)
  PROVE  Fate(w)
<1>0. w \in Processes /\ W(w) \in Endpoints /\ C(w) \in Endpoints
  BY WorkerFacts DEF C, W, Endpoints, Sides
<1>1. OwnBreaks(w) /\ Unmade /\ pc'[w] = "panicked" /\ Shutdown(w, inbox)
  BY <1>0, ShutdownBreaks DEF Panic, TypeOK
<1>2. CASE conn[W(w)] = "dropped"
  BY <1>0, <1>1, <1>2 DEF Fate, Unmade, NotAccepted, W
<1>3. CASE conn[W(w)] = "none"
  <2>1. NeverListened(w)'
    BY <1>0, <1>1, <1>3 DEF NeverListened, Unmade, W
  <2>2. ASSUME NEW e \in Endpoints, Broken(e)' PROVE Broken(e)
    <3>1. CASE Owner(e) = w \/ Owner(Peer(e)) = w
      <4>1. e = C(w) \/ e = W(w)
        BY <3>1, NAssumption
           DEF Owner, Peer, OtherSide, C, W, Endpoints, Sides, Workers, Coordinator
      <4>2. conn[C(w)] = "none"
        BY <1>3 DEF LinkInv, MadeTogether
      <4>3. conn'[e] = "none"
        BY <1>1, <1>3, <4>1, <4>2 DEF Unmade
      <4> QED BY <2>2, <4>3 DEF Broken
    <3> QED BY <1>1, <2>2, <3>1 DEF OwnBreaks
  <2> QED BY <1>0, <1>1, <2>1, <2>2 DEF Fate, Calm
<1> QED BY <1>2, <1>3 DEF LinkInv, BindInv

(* A state that run() does something in, notify aside, is not Finished.    *)
LEMMA RunsUnfinished ==
  ASSUME TypeOK, NEW p \in Processes, NEW kind, kind # "notify", Runs(p, kind)
  PROVE  ~Finished(SideOf(p), state[At(p)])
<1>1. state[At(p)] \in States(SideOf(p)) /\ SideOf(p) \in Sides
  BY NextFacts, AtFacts
<1> QED BY <1>1, TableAssumption DEF Runs

--------------------------------------------------------------------------------
(* The fate of each step of a process.                                     *)
LEMMA PollFate ==
  ASSUME TypeOK, ControlInv, NEW p \in Processes, Poll(p)
  PROVE  pc[p] \notin Halted /\ Fate(p)
<1>0. pc[p] \notin Halted
  BY DEF Poll, Call, PollAtTarget, NotifyFinished, RunNotifyAwait, RunAdvance, RecvMatch,
     RecvOther, RecvBlocked, RecvEof, RecvReset, Close, Polling, Runs, Waiting, Halted
<1>1. CASE Call(p) \/ RecvOther(p)
  <2>1. UNCHANGED conn /\ pc'[p] \notin Halted
    BY <1>0, <1>1 DEF Call, RecvOther, netVars, Halted, TypeOK
  <2> QED BY <1>0, <2>1, QuietFate
<1>2. CASE PollAtTarget(p)
  <2>1. UNCHANGED conn /\ EndRun(p, state[At(p)])
    BY <1>2 DEF PollAtTarget, netVars
  <2> QED BY <1>0, <2>1, GoesOn, QuietFate
<1>3. CASE NotifyFinished(p)
  <2>1. Calm /\ Unmade
    BY <1>3, AtFacts, TransmitCalm DEF NotifyFinished
  <2>2. UNCHANGED pc \/ NextInstance(p, state[At(p)])
    BY <1>3 DEF NotifyFinished
  <2>3. pc'[p] \notin Halted
    BY <1>0, <2>2, GoesOn
  <2> QED BY <1>0, <2>1, <2>3 DEF Fate
<1>4. CASE RunNotifyAwait(p)
  <2>1. ~Finished(SideOf(p), state[At(p)])
    BY <1>4, RunsUnfinished DEF RunNotifyAwait
  <2> QED BY <1>0, <1>4, <2>1, NotifyFate DEF RunNotifyAwait
<1>5. CASE RunAdvance(p)
  <2>1. ~Finished(SideOf(p), state[At(p)])
    BY <1>5, RunsUnfinished DEF RunAdvance
  <2> QED BY <1>0, <1>5, <2>1, NotifyFate DEF RunAdvance
<1>6. CASE RecvMatch(p) \/ RecvBlocked(p) \/ RecvEof(p)
  <2>1. ~Finished(SideOf(p), state[At(p)])
    BY <1>6, WaitingFacts DEF RecvMatch, RecvBlocked, RecvEof
  <2> QED BY <1>0, <1>6, <2>1, NotifyFate DEF RecvMatch, RecvBlocked, RecvEof
<1>7. CASE RecvReset(p)
  <2>1. ~Finished(SideOf(p), state[At(p)])
    BY <1>7, WaitingFacts DEF RecvReset
  <2> QED BY <1>0, <1>7, <2>1, PanicFate DEF RecvReset
<1>8. CASE Close(p)
  <2>1. OwnBreaks(p) /\ Unmade
    BY <1>8, ShutdownBreaks DEF Close
  <2>2. pc'[p] = "closed" /\ ~HasGoal(p)
    BY <1>8 DEF Close, TypeOK
  <2> QED BY <1>0, <2>1, <2>2 DEF Fate, Reason, Halted
<1> QED BY <1>1, <1>2, <1>3, <1>4, <1>5, <1>6, <1>7, <1>8 DEF Poll

LEMMA CoordinatorFate ==
  ASSUME TypeOK, ControlInv, ConnectInv, CoordinatorStep
  PROVE  pc[Coordinator] \notin Halted /\ Fate(Coordinator)
<1>0. Coordinator \in Processes
  BY NAssumption DEF Processes, Coordinator
<1>1. CASE Poll(Coordinator)
  BY <1>0, <1>1, PollFate
<1>2. CASE ConnectRefused
  <2>1. UNCHANGED <<conn, pc>> /\ pc[Coordinator] = "connect"
    BY <1>2 DEF ConnectRefused, netVars
  <2> QED BY <1>0, <2>1, QuietFate DEF Halted
<1>3. CASE Connect
  <2>1. pc[Coordinator] = "connect" /\ pc'[Coordinator] \in {"idle", "connect"}
    BY <1>0, <1>3 DEF Connect, TypeOK
  <2>2. \A e \in Endpoints : conn'[e] = conn[e] \/ conn'[e] = "open"
    BY <1>3 DEF Connect, TypeOK
  <2> QED BY <1>3, <2>1, <2>2 DEF Fate, Calm, Broken, Halted
<1>4. CASE BuildGivesUp(Coordinator)
  <2> DEFINE w == turn[Coordinator]
  <2>1. pc[Coordinator] = "connect" /\ pc'[Coordinator] = "panicked" /\ Shutdown(Coordinator, inbox)
    BY <1>0, <1>4 DEF BuildGivesUp, Start, Panic, TypeOK
  <2>2. OwnBreaks(Coordinator) /\ Unmade
    BY <1>0, <2>1, ShutdownBreaks
  <2>3. w \in Workers /\ C(w) \in Endpoints
    BY <1>0, NAssumption DEF TypeOK, First, Last, Workers, C, Endpoints, Sides
  <2>4. conn'[C(w)] = "none"
    <3>1. w >= turn[Coordinator]
      BY <2>3 DEF Workers
    <3> QED BY <2>1, <2>2, <2>3, <3>1 DEF ConnectInv, Unmade
  <2>5. ConnectFailed'
    BY <2>1, <2>3, <2>4 DEF ConnectFailed, C
  <2> QED BY <2>1, <2>2, <2>5 DEF Fate, Reason, Halted
<1> QED BY <1>1, <1>2, <1>3, <1>4 DEF CoordinatorStep

(* The kernel drops a connection that was not accepted.                    *)
LEMMA AcceptFailsFate ==
  ASSUME TypeOK, NEW w \in Workers, AcceptFails(w)
  PROVE  Fate(w) /\ conn'[W(w)] = "dropped"
<1>1. W(w) \in Endpoints /\ C(w) \in Endpoints /\ W(w) # C(w)
  BY DEF W, C, Endpoints, Sides
<1>2. /\ conn[W(w)] \in Alive
      /\ conn' = [conn EXCEPT ![W(w)] = "dropped", ![C(w)] = IF @ = "open" THEN "rst" ELSE @]
  BY DEF AcceptFails, Peer, OtherSide, W, C
<1>3. conn'[W(w)] = "dropped"
  BY <1>1, <1>2 DEF TypeOK
<1>4. Unmade
  BY <1>1, <1>2 DEF Unmade, Alive, TypeOK
<1> QED BY <1>3, <1>4 DEF Fate, NotAccepted, W

LEMMA WorkerFate ==
  ASSUME TypeOK, ControlInv, LinkInv, NEW w \in Workers, WorkerStep(w)
  PROVE  pc[w] \notin Halted /\ Fate(w)
<1>0. w \in Processes /\ At(w) = W(w) /\ SideOf(w) = "worker"
  BY WorkerFacts
<1>1. CASE Poll(w)
  BY <1>0, <1>1, PollFate
<1>2. CASE Bind(w) \/ Accept(w) \/ RunAwait(w)
  <2>1. UNCHANGED conn /\ pc[w] \notin Halted /\ pc'[w] \notin Halted
    BY <1>0, <1>2 DEF Bind, Accept, RunAwait, Reading, Runs, Polling, netVars, Halted, TypeOK
  <2> QED BY <1>0, <2>1, QuietFate
<1>3. CASE RunSpawn(w)
  <2>1. UNCHANGED conn /\ pc[w] \notin Halted /\ EndRun(w, NewState(w))
    BY <1>3 DEF RunSpawn, Runs, Polling, netVars, Halted
  <2> QED BY <1>0, <2>1, GoesOn, QuietFate
<1>4. CASE SpawnFails(w)
  <2>1. /\ pc[w] \notin Halted /\ Panic(w, inbox) /\ UNCHANGED state
        /\ Run["worker"][state[W(w)]] = "spawn"
    BY <1>0, <1>4 DEF SpawnFails, Runs, Polling, Halted
  <2>2. OwnBreaks(w) /\ Unmade
    BY <1>0, <2>1, ShutdownBreaks DEF Panic
  <2>3. pc'[w] = "panicked"
    BY <1>0, <2>1 DEF Panic, TypeOK
  <2>4. CouldNotSpawn(w)'
    BY <2>1, <2>3 DEF CouldNotSpawn, W
  <2> QED BY <2>1, <2>2, <2>3, <2>4 DEF Fate, Reason, Halted
<1>5. CASE RunKill(w) \/ RunJoinBusy(w) \/ RunJoined(w)
  <2>1. pc[w] \notin Halted /\ ~Finished(SideOf(w), state[At(w)])
    BY <1>0, <1>5, RunsUnfinished
       DEF RunKill, RunJoinBusy, RunJoined, Runs, Polling, Halted
  <2> QED BY <1>0, <1>5, <2>1, NotifyFate DEF RunKill, RunJoinBusy, RunJoined
<1>6. CASE BindFails(w) \/ BuildGivesUp(w)
  <2>1. w # Coordinator
    BY NAssumption DEF Workers, Coordinator
  <2>2. pc[w] = "bind" /\ Panic(w, inbox)
    BY <1>6, <2>1 DEF BindFails, BuildGivesUp, Start
  <2> QED BY <2>2, BindFate DEF Halted
<1>7. CASE AcceptFails(w)
  BY <1>7, AcceptFailsFate DEF AcceptFails, Halted
<1> QED BY <1>1, <1>2, <1>3, <1>4, <1>5, <1>6, <1>7 DEF WorkerStep

(* A process that is killed or whose host is lost.                         *)
LEMMA EndFate ==
  ASSUME TypeOK, NEW p \in Processes, Crash(p) \/ (p \in Workers /\ Vanish(p))
  PROVE  pc[p] \notin Halted /\ Fate(p)
<1>1. pc[p] \notin Halted /\ pc'[p] = "crashed"
  BY DEF Crash, Vanish, TypeOK
<1>2. CASE Crash(p)
  <2>1. OwnBreaks(p) /\ Unmade
    BY <1>2, ShutdownBreaks DEF Crash
  <2> QED BY <1>1, <2>1 DEF Fate, Reason, Halted
<1>3. CASE p \in Workers /\ Vanish(p)
  <2>1. conn' = [conn EXCEPT ![W(p)] = IF @ \in Alive THEN "closed" ELSE @,
                             ![C(p)] = IF @ = "open" THEN "lost" ELSE @]
    BY <1>3 DEF Vanish, Peer, OtherSide, W, C
  <2>2. \A e \in Endpoints : e # W(p) /\ e # C(p) => conn'[e] = conn[e]
    BY <2>1 DEF TypeOK
  <2>3. Unmade
    BY <2>1 DEF Unmade, Alive, TypeOK
  <2>4. Owner(W(p)) = p /\ Owner(Peer(C(p))) = p
    BY DEF Owner, Peer, OtherSide, W, C
  <2>5. OwnBreaks(p)
    BY <2>2, <2>4 DEF OwnBreaks, Broken
  <2> QED BY <1>1, <2>3, <2>5 DEF Fate, Reason, Halted
<1> QED BY <1>1, <1>2, <1>3

(* Every step is one of a process that has not halted, or of the network   *)
(* or a netbench process.                                                  *)
Still == Calm /\ Unmade /\ UNCHANGED <<state, pc, turn>>

Taken(p) ==
  /\ pc[p] \notin Halted /\ Summary(p) /\ Fate(p)
  /\ p = Coordinator => CoordinatorStep \/ pc'[p] = "crashed"
  /\ p \in Workers => WorkerStep(p) \/ pc'[p] = "crashed"

LEMMA NextFate ==
  ASSUME TypeOK, Truthful, ControlInv, LinkInv, [Next]_vars
  PROVE  Still \/ \E p \in Processes : Taken(p)
<1>0. /\ Coordinator \in Processes /\ Workers \subseteq Processes /\ Mortal \subseteq Processes
      /\ MayVanish \subseteq Workers /\ Coordinator \notin Workers
  BY NAssumption, BoundsAssumption DEF Processes, Coordinator, Workers
<1>1. CASE CoordinatorStep
  BY <1>0, <1>1, CoordinatorStepSummary, CoordinatorFate DEF LinkInv, Taken
<1>2. ASSUME NEW w \in Workers, WorkerStep(w)
      PROVE  \E p \in Processes : Taken(p)
  BY <1>0, <1>2, WorkerStepSummary, WorkerFate DEF Taken
<1>3. ASSUME NEW p \in Mortal, Crash(p)
      PROVE  \E q \in Processes : Taken(q)
  <2>1. pc'[p] = "crashed"
    BY <1>0, <1>3 DEF Crash, TypeOK
  <2> QED BY <1>0, <1>3, <2>1, EndStep, EndFate DEF Taken
<1>4. ASSUME NEW w \in MayVanish, Vanish(w)
      PROVE  \E q \in Processes : Taken(q)
  <2>1. w \in Workers /\ w \in Processes
    BY <1>0
  <2>2. pc'[w] = "crashed"
    BY <1>4, <2>1 DEF Vanish, TypeOK
  <2> QED BY <1>4, <2>1, <2>2, VanishStep, EndFate DEF Taken
<1>5. CASE UNCHANGED <<conn, state, pc, turn>>
  BY <1>5 DEF Still, Calm, Unmade, Broken
<1>6. ASSUME NEW e \in Endpoints, ResetArrives(e) PROVE Still
  BY <1>6 DEF ResetArrives, Still, Calm, Unmade, Broken, TypeOK
<1>7. ASSUME NEW w \in Workers, TimesOut(w) PROVE Still
  BY <1>7 DEF TimesOut, Still, Calm, Unmade, Broken, TypeOK
<1>8. ASSUME NEW w \in Workers, Exit(w) PROVE UNCHANGED <<conn, state, pc, turn>>
  BY <1>8 DEF Exit, netVars
<1>9. CASE UNCHANGED vars
  BY <1>5, <1>9 DEF vars
<1> QED BY <1>0, <1>1, <1>2, <1>3, <1>4, <1>5, <1>6, <1>7, <1>8, <1>9 DEF Next, Terminating

--------------------------------------------------------------------------------
(* A connection is made with a worker that waits for it.                   *)
LEMMA ConnectAt ==
  ASSUME TypeOK, Connect
  PROVE  LET v == turn[Coordinator] IN
           /\ pc[Coordinator] = "connect" /\ v \in Workers /\ v >= v /\ pc[v] = "accept"
           /\ \A w \in Workers : w # v => conn'[C(w)] = conn[C(w)] /\ conn'[W(w)] = conn[W(w)]
           /\ conn'[C(v)] = "open" /\ conn'[W(v)] = "open"
<1> DEFINE v == turn[Coordinator]
<1>1. Coordinator \in Processes /\ N \in Nat
  BY NAssumption DEF Processes, Coordinator
<1>2. v \in Nat /\ First(Coordinator) <= v /\ v <= Last(Coordinator)
  BY <1>1 DEF TypeOK
<1>3. v \in Workers /\ v >= v
  BY <1>1, <1>2 DEF First, Last, Workers
<1>4. /\ pc[Coordinator] = "connect" /\ pc[v] = "accept"
      /\ conn' = [conn EXCEPT ![C(v)] = "open", ![W(v)] = "open"]
  BY DEF Connect, C, W
<1>5. \A w \in Workers : C(w) \in Endpoints /\ W(w) \in Endpoints
  BY DEF C, W, Endpoints, Sides
<1>6. \A w \in Workers : C(w) # W(v) /\ W(w) # C(v) /\ (w # v => C(w) # C(v) /\ W(w) # W(v))
  BY DEF C, W
<1> HIDE DEF v
<1>7. \A w \in Workers : w # v => conn'[C(w)] = conn[C(w)] /\ conn'[W(w)] = conn[W(w)]
  BY <1>4, <1>5, <1>6 DEF TypeOK
<1>8. conn'[C(v)] = "open" /\ conn'[W(v)] = "open"
  BY <1>3, <1>4, <1>5, <1>6 DEF TypeOK
<1> QED BY <1>3, <1>4, <1>7, <1>8 DEF v

(* What a step does to the connections, when it makes none and when it does. *)
LEMMA NextLinks ==
  ASSUME Still \/ \E p \in Processes : Taken(p)
  PROVE  Unmade \/ Connect
  BY DEF Still, Taken, Fate

LEMMA MadeKept ==
  ASSUME TypeOK, MadeTogether, Unmade \/ Connect
  PROVE  MadeTogether'
<1> SUFFICES ASSUME NEW w \in Workers PROVE conn'[C(w)] = "none" <=> conn'[W(w)] = "none"
  BY DEF MadeTogether
<1>1. conn[C(w)] = "none" <=> conn[W(w)] = "none"
  BY DEF MadeTogether
<1>2. CASE Unmade
  BY <1>1, <1>2 DEF Unmade, C, W, Endpoints, Sides
<1>3. CASE Connect
  BY <1>1, <1>3, ConnectAt
<1> QED BY <1>2, <1>3

(* A connection that was not accepted stays dropped: the coordinator does  *)
(* not make it again.                                                      *)
LEMMA DroppedStays ==
  ASSUME TypeOK, LinkInv, Unmade \/ Connect, NEW w \in Workers, conn[W(w)] = "dropped"
  PROVE  conn'[W(w)] = "dropped"
<1>1. CASE Unmade
  BY <1>1 DEF Unmade, W, Endpoints, Sides
<1>2. CASE Connect
  <2> DEFINE v == turn[Coordinator]
  <2>1. /\ pc[Coordinator] = "connect" /\ v \in Workers /\ v >= turn[Coordinator]
        /\ w # v => conn'[W(w)] = conn[W(w)]
    BY <1>2, ConnectAt
  <2>2. conn[W(v)] = "none"
    BY <2>1 DEF LinkInv, ConnectInv, MadeTogether
  <2> QED BY <2>1, <2>2
<1> QED BY <1>1, <1>2

(* A worker binds again only after it has lost its connection.             *)
LEMMA Rebinds ==
  ASSUME TypeOK, ControlInv, NEW w \in Workers, WorkerStep(w), pc'[w] = "bind"
  PROVE  conn'[W(w)] = "dropped"
<1>0. w \in Processes
  BY WorkerFacts
<1>1. CASE AcceptFails(w)
  BY <1>1, AcceptFailsFate
<1>2. CASE ~AcceptFails(w)
  <2>1. pc[w] \in {"bind", "accept", "connect"}
    BY WorkerTurns DEF Turns
  <2>2. CASE Bind(w) \/ Accept(w) \/ BindFails(w) \/ BuildGivesUp(w)
    BY <1>0, <2>2 DEF Bind, Accept, BindFails, BuildGivesUp, Panic, TypeOK
  <2>3. CASE Poll(w)
    <3>1. pc[w] \in {"idle", "poll", "recv", "finish"}
      BY <2>3 DEF Poll, Call, PollAtTarget, NotifyFinished, RunNotifyAwait, RunAdvance, RecvMatch,
         RecvOther, RecvBlocked, RecvEof, RecvReset, Close, Polling, Runs, Waiting
    <3> QED BY <2>1, <3>1
  <2>4. CASE RunAwait(w) \/ RunSpawn(w) \/ SpawnFails(w) \/ RunKill(w) \/ RunJoinBusy(w) \/ RunJoined(w)
    <3>1. pc[w] = "poll"
      BY <2>4 DEF RunAwait, RunSpawn, SpawnFails, RunKill, RunJoinBusy, RunJoined, Runs, Polling
    <3> QED BY <2>1, <3>1
  <2> QED BY <1>2, <2>2, <2>3, <2>4 DEF WorkerStep
<1> QED BY <1>1, <1>2

LEMMA BindKept ==
  ASSUME TypeOK, ControlInv, LinkInv, Still \/ \E q \in Processes : Taken(q)
  PROVE  BindInv'
<1> SUFFICES ASSUME NEW w \in Workers, pc'[w] = "bind"
             PROVE  conn'[W(w)] \in {"none", "dropped"}
  BY DEF BindInv
<1>0. w \in Processes
  BY WorkerFacts
<1>1. ASSUME pc[w] = "bind" PROVE conn'[W(w)] \in {"none", "dropped"}
  <2>1. Unmade \/ Connect
    BY NextLinks
  <2>2. CASE conn[W(w)] = "dropped"
    BY <2>1, <2>2, DroppedStays
  <2>3. CASE conn[W(w)] = "none"
    <3>1. CASE Unmade
      BY <2>3, <3>1 DEF Unmade, W, Endpoints, Sides
    <3>2. CASE Connect
      BY <1>1, <2>3, <3>2, ConnectAt
    <3> QED BY <2>1, <3>1, <3>2
  <2> QED BY <1>1, <2>2, <2>3 DEF LinkInv, BindInv
<1>2. CASE Still
  BY <1>1, <1>2 DEF Still
<1>3. ASSUME NEW q \in Processes, Taken(q) PROVE conn'[W(w)] \in {"none", "dropped"}
  <2>1. CASE q = w
    BY <1>3, <2>1, Rebinds DEF Taken
  <2>2. CASE q # w
    BY <1>0, <1>1, <1>3, <2>2 DEF Taken, Summary, Others
  <2> QED BY <2>1, <2>2
<1> QED BY <1>2, <1>3

(* The workers not connected to yet stay unconnected.                      *)
LEMMA ConnectKept ==
  ASSUME TypeOK, Truthful, ControlInv, LinkInv, [Next]_vars
  PROVE  ConnectInv'
<1> SUFFICES ASSUME pc'[Coordinator] = "connect", NEW w \in Workers, w >= turn'[Coordinator]
             PROVE  conn'[C(w)] = "none"
  BY DEF ConnectInv
<1>0. /\ Coordinator \in Processes /\ C(w) \in Endpoints /\ turn[Coordinator] \in Workers
      /\ w \in Nat /\ turn[Coordinator] \in Nat
  <2>1. Coordinator \in Processes /\ N \in Nat
    BY NAssumption DEF Processes, Coordinator
  <2>2. C(w) \in Endpoints
    BY DEF C, Endpoints, Sides
  <2>3. /\ turn[Coordinator] \in Nat /\ First(Coordinator) <= turn[Coordinator]
        /\ turn[Coordinator] <= Last(Coordinator)
    BY <2>1 DEF TypeOK
  <2>4. turn[Coordinator] \in Workers /\ w \in Nat
    BY <2>1, <2>3 DEF First, Last, Workers
  <2> QED BY <2>1, <2>2, <2>3, <2>4
<1>1. ASSUME Unmade, pc[Coordinator] = "connect", turn'[Coordinator] = turn[Coordinator]
      PROVE  conn'[C(w)] = "none"
  BY <1>0, <1>1 DEF LinkInv, ConnectInv, Unmade
<1>2. CASE Still
  BY <1>1, <1>2 DEF Still
<1>3. ASSUME NEW p \in Processes \ {Coordinator}, Summary(p), Fate(p)
      PROVE  conn'[C(w)] = "none"
  BY <1>0, <1>1, <1>3 DEF Summary, Others, Fate
<1>4. CASE CoordinatorStep
  <2>1. CASE Connect
    <3>1. /\ turn'[Coordinator] = turn[Coordinator] + 1 /\ pc[Coordinator] = "connect"
          /\ conn' = [conn EXCEPT ![C(turn[Coordinator])] = "open", ![W(turn[Coordinator])] = "open"]
      BY <1>0, <2>1 DEF Connect, TypeOK, C, W
    <3>2. w # turn[Coordinator] /\ w >= turn[Coordinator]
      BY <1>0, <3>1
    <3>3. C(w) # C(turn[Coordinator]) /\ C(w) # W(turn[Coordinator])
      BY <3>2 DEF C, W
    <3>4. conn'[C(w)] = conn[C(w)]
      BY <1>0, <3>1, <3>3 DEF TypeOK
    <3> QED BY <3>1, <3>2, <3>4 DEF LinkInv, ConnectInv
  <2>2. CASE ConnectRefused
    BY <1>0, <2>2 DEF ConnectRefused, netVars, LinkInv, ConnectInv
  <2>3. CASE BuildGivesUp(Coordinator)
    BY <1>0, <2>3 DEF BuildGivesUp, Panic, TypeOK
  <2>4. CASE Poll(Coordinator)
    <3>1. Turns(Coordinator) /\ pc[Coordinator] \in {"idle", "poll", "recv", "finish"}
      BY <1>0, <2>4, PollTurns DEF Poll, Call, PollAtTarget, NotifyFinished, RunNotifyAwait,
         RunAdvance, RecvMatch, RecvOther, RecvBlocked, RecvEof, RecvReset, Close, Polling,
         Runs, Waiting
    <3> QED BY <3>1 DEF Turns
  <2> QED BY <1>4, <2>1, <2>2, <2>3, <2>4 DEF CoordinatorStep
<1> QED BY <1>2, <1>3, <1>4, NextFate DEF Taken

--------------------------------------------------------------------------------
(* A process that has halted stays so, and its instances stay where they   *)
(* are.                                                                    *)
LEMMA HaltedStays ==
  ASSUME TypeOK, Still \/ \E q \in Processes : Taken(q),
         NEW p \in Processes, pc[p] \in Halted
  PROVE  pc'[p] = pc[p] /\ \A e \in Instances(p) : state'[e] = state[e]
<1>1. CASE Still
  BY <1>1 DEF Still
<1>2. ASSUME NEW q \in Processes, Taken(q)
      PROVE  pc'[p] = pc[p] /\ \A e \in Instances(p) : state'[e] = state[e]
  <2>1. p \in Processes \ {q} /\ q \in Processes \ {p}
    BY <1>2 DEF Taken
  <2>2. Summary(q)
    BY <1>2 DEF Taken
  <2>3. pc'[p] = pc[p]
    BY <2>1, <2>2 DEF Summary, Others
  <2> QED BY <2>1, <2>2, <2>3, OthersKept
<1> QED BY <1>1, <1>2

(* What has come to its end stays there.                                   *)
LEMMA OverStays ==
  ASSUME TypeOK, Still \/ \E q \in Processes : Taken(q), NEW w \in Workers, Over(w)
  PROVE  Over(w)'
<1>1. CASE UNCHANGED state
  BY <1>1 DEF Over
<1>2. ASSUME NEW q \in Processes, MoveStep(q) PROVE Over(w)'
  <2>1. C(w) \in Endpoints
    BY DEF C, Endpoints, Sides
  <2>2. C(w) # At(q)
    <3> SUFFICES ASSUME C(w) = At(q) PROVE FALSE
      OBVIOUS
    <3>1. SideOf(q) = "coord"
      BY <1>2, AtFacts DEF C
    <3> QED BY <1>2, <3>1 DEF MoveStep, Over
  <2> QED BY <1>2, <2>1, <2>2, MoveFacts DEF Over
<1> QED BY <1>1, <1>2 DEF Still, Taken, Summary

(* A worker that failed to listen is never connected to.                   *)
LEMMA NeverListenedStays ==
  ASSUME TypeOK, Still \/ \E q \in Processes : Taken(q), NEW w \in Workers, NeverListened(w)
  PROVE  NeverListened(w)'
<1>1. w \in Processes
  BY WorkerFacts
<1>2. pc'[w] = "panicked" /\ pc[w] = "panicked" /\ conn[W(w)] = "none"
  BY <1>1, HaltedStays DEF NeverListened, Halted, W
<1>3. CASE Unmade
  BY <1>2, <1>3 DEF Unmade, NeverListened, W, Endpoints, Sides
<1>4. CASE Connect
  BY <1>2, <1>4, ConnectAt DEF NeverListened, W
<1> QED BY <1>3, <1>4, NextLinks

(* A reason to fail does not go away.                                      *)
LEMMA SoundBefore ==
  ASSUME TypeOK, LinkInv, Still \/ \E q \in Processes : Taken(q),
         Sound'
  PROVE  Sound
<1>0. Coordinator \in Processes
  BY NAssumption DEF Processes, Coordinator
<1>1. ASSUME NEW p \in Processes PROVE pc[p] # "crashed"
  BY <1>1, HaltedStays DEF Sound, Undisturbed, Halted
<1>2. ASSUME NEW w \in Workers, CouldNotSpawn(w) PROVE FALSE
  <2>1. w \in Processes /\ W(w) \in Instances(w)
    BY <1>2, WorkerFacts
  <2>2. pc'[w] = pc[w] /\ state'[W(w)] = state[W(w)]
    BY <1>2, <2>1, HaltedStays DEF CouldNotSpawn, Halted
  <2>3. CouldNotSpawn(w)'
    BY <1>2, <2>2 DEF CouldNotSpawn, W
  <2> QED BY <2>3 DEF Sound, Undisturbed
<1>3. ASSUME ConnectFailed PROVE FALSE
  <2>1. PICK w \in Workers : conn[C(w)] = "none"
    BY <1>3 DEF ConnectFailed, C
  <2>2. pc[Coordinator] = "panicked" /\ pc'[Coordinator] = "panicked"
    BY <1>0, <1>3, HaltedStays DEF ConnectFailed, Halted
  <2>3. Unmade
    BY <2>2 DEF Still, Taken, Fate, Connect
  <2>4. conn'[C(w)] = "none"
    BY <2>1, <2>3 DEF Unmade, C, Endpoints, Sides
  <2>5. ConnectFailed'
    BY <2>2, <2>4 DEF ConnectFailed, C
  <2> QED BY <2>5 DEF Sound
<1>4. ASSUME NEW w \in Workers, NotAccepted(w) PROVE FALSE
  <2>1. conn'[W(w)] = "dropped"
    BY <1>4, NextLinks, DroppedStays DEF NotAccepted, W
  <2>2. NotAccepted(w)'
    BY <2>1 DEF NotAccepted, W
  <2> QED BY <2>2 DEF Sound, Undisturbed
<1> QED BY <1>1, <1>2, <1>3, <1>4 DEF Sound, Undisturbed

--------------------------------------------------------------------------------
(* A process that closes in good order leaves the coordinator's endpoint of*)
(* every connection it had at its end.                                     *)
LEMMA AtLast ==
  ASSUME IInv, FinishLast, NEW p \in Processes, ~HasGoal(p), NEW e \in Instances(p)
  PROVE  Finished(SideOf(p), state[e]) /\ Reached(e, LastOf(SideOf(p)))
<1> DEFINE s == SideOf(p)
           last == LastOf(s)
<1>1. /\ e \in Endpoints /\ e[1] = s /\ s \in Sides
      /\ Len(Targets[s]) \in Nat
      /\ \A i \in 1..Len(Targets[s]) : TargetOf(p, i) \in States(e[1])
  BY TargetFacts
<1>2. Len(Targets[s]) > 0 /\ last = TargetOf(p, Len(Targets[s]))
  BY <1>1, TableAssumption DEF TargetOf, LastOf
<1>3. last \in States(s) /\ Finished(s, last)
  BY <1>1, <1>2 DEF FinishLast
<1>4. Len(Targets[s]) \in 1..(goal[p] - 1)
  BY <1>1, <1>2 DEF HasGoal, IInv, TypeOK
<1>5. Reached(e, last)
  BY <1>2, <1>4 DEF IInv, Barrier
<1>6. state[e] \in States(s)
  BY <1>1 DEF IInv, TypeOK
<1>7. Rank[s][state[e]] = Rank[s][last]
  <2>1. Rank[s][state[e]] \in Nat /\ Rank[s][last] \in Nat
    BY <1>1, <1>3, <1>6, PathAssumption
  <2>2. Rank[s][state[e]] <= Rank[s][last]
    BY <1>1, <1>3, <1>6 DEF FinishLast
  <2>3. Rank[s][state[e]] >= Rank[s][last]
    BY <1>1, <1>5 DEF Reached, RankOf
  <2> QED BY <2>1, <2>2, <2>3
<1>8. state[e] = last
  BY <1>1, <1>3, <1>6, <1>7, PathAssumption
<1> QED BY <1>3, <1>5, <1>8

LEMMA ClosedIsOver ==
  ASSUME NInv, FinishLast, NEW p \in Processes, ~HasGoal(p)
  PROVE  \A w \in Workers : p = Coordinator \/ p = w => Over(w)
<1> SUFFICES ASSUME NEW w \in Workers, p = Coordinator \/ p = w PROVE Over(w)
  OBVIOUS
<1>0. IInv /\ TypeOK
  BY DEF NInv, IInv
<1>1. CASE p = Coordinator
  <2>1. C(w) \in Instances(p) /\ SideOf(p) = "coord"
    BY <1>1, PairFacts DEF SideOf
  <2> QED BY <1>0, <2>1, AtLast DEF Over
<1>2. CASE p = w
  <2>1. W(w) \in Instances(p) /\ SideOf(p) = "worker"
    BY <1>0, <1>2, WorkerFacts
  <2>2. Reached(W(w), LastOf("worker"))
    BY <1>0, <2>1, AtLast
  <2>3. PICK x \in States("worker") :
          /\ Awaits("worker", x) /\ Finished("coord", Step["worker"][x])
          /\ Rank["worker"][x] < Rank["worker"][LastOf("worker")]
    BY DEF FinishLast
  <2>4. LastOf("worker") \in States("worker")
    BY TableAssumption DEF LastOf, Sides
  <2> DEFINE f == Step["worker"][x]
  <2>5. Ahead(W(w), x)
    <3>1. /\ Rank["worker"][x] \in Nat /\ Rank["worker"][LastOf("worker")] \in Nat
          /\ Rank["worker"][state[W(w)]] \in Nat
      BY <2>4, PairFacts, PathAssumption DEF Sides
    <3> QED BY <2>2, <2>3, <3>1 DEF Reached, Ahead, RankOf, W
  <2>6. Reached(C(w), f)
    BY <2>3, <2>5, PairFacts
  <2>7. f \in States("coord") /\ state[C(w)] \in States("coord")
    BY <2>3, PairFacts, TableAssumption DEF Awaits, Sides, OtherSide
  <2>8. Rank["coord"][state[C(w)]] = Rank["coord"][f]
    <3>1. Rank["coord"][state[C(w)]] \in Nat /\ Rank["coord"][f] \in Nat
      BY <2>7, PathAssumption DEF Sides
    <3>2. Rank["coord"][state[C(w)]] <= Rank["coord"][f]
      BY <2>3, <2>7 DEF FinishLast, Sides
    <3>3. Rank["coord"][state[C(w)]] >= Rank["coord"][f]
      BY <2>6 DEF Reached, RankOf, C
    <3> QED BY <3>1, <3>2, <3>3
  <2>9. state[C(w)] = f
    BY <2>7, <2>8, PathAssumption DEF Sides
  <2> QED BY <2>3, <2>9 DEF Over
<1> QED BY <1>1, <1>2

(* The endpoints a process is at an end of.                                *)
LEMMA EndsOf ==
  ASSUME NEW e \in Endpoints, NEW p \in Processes, Owner(e) = p \/ Owner(Peer(e)) = p
  PROVE  e[2] \in Workers /\ (p = Coordinator \/ p = e[2])
  BY DEF Endpoints, Owner, Peer, OtherSide, Sides

(* A process that halts while there is no reason to fail leaves all its    *)
(* connections at their end, and is not a coordinator that panics.         *)
LEMMA HaltsOver ==
  ASSUME NInv, LateInv, Sound, FinishLast, NEW p \in Processes, Reason(p), Sound'
  PROVE  /\ p = Coordinator => pc'[p] # "panicked"
         /\ \A w \in Workers : p = Coordinator \/ p = w => Over(w)
<1>0. TypeOK
  BY DEF NInv, IInv
<1>1. /\ pc'[p] # "crashed" /\ ~(p = Coordinator /\ ConnectFailed')
      /\ ~(p \in Workers /\ CouldNotSpawn(p)')
  BY DEF Sound, Undisturbed
<1>2. CASE pc'[p] = "closed" /\ ~HasGoal(p)
  BY <1>2, ClosedIsOver
<1>3. CASE pc'[p] = "panicked" /\ Broken(At(p)) /\ ~Finished(SideOf(p), state[At(p)])
  <2>1. At(p) \in Endpoints /\ At(p)[1] = SideOf(p)
    BY <1>0, AtFacts
  <2>2. Over(At(p)[2])
    BY <1>3, <2>1 DEF LateInv
  <2>3. CASE p = Coordinator
    <3>1. At(p) = C(At(p)[2]) /\ SideOf(p) = "coord"
      BY <2>3 DEF At, SideOf, C
    <3> QED BY <1>3, <2>2, <3>1 DEF Over
  <2>4. CASE p # Coordinator
    <3>1. p \in Workers
      BY <2>4, NAssumption DEF Processes, Workers, Coordinator
    <3>2. At(p) = W(p)
      BY <1>0, <3>1, WorkerFacts
    <3>3. At(p)[2] = p
      BY <3>2 DEF W
    <3> QED BY <2>2, <2>4, <3>3
  <2> QED BY <2>3, <2>4
<1> QED BY <1>1, <1>2, <1>3 DEF Reason

LEMMA LateKept ==
  ASSUME NInv, LinkInv, LateInv, FinishLast, [Next]_vars
  PROVE  LateInv'
<1> SUFFICES ASSUME Sound'
             PROVE  /\ pc'[Coordinator] # "panicked"
                    /\ pc'[Coordinator] \in Halted => \A w \in Workers : Over(w)'
                    /\ \A w \in Workers : pc'[w] \in Halted => Over(w)' \/ NeverListened(w)'
                    /\ \A e \in Endpoints : Broken(e)' => Over(e[2])'
  BY DEF LateInv
<1>0. /\ TypeOK /\ Coordinator \in Processes /\ Workers \subseteq Processes
      /\ \A e \in Endpoints : e[2] \in Workers
  BY NAssumption DEF NInv, IInv, Processes, Coordinator, Workers, Endpoints
<1>1. Still \/ \E p \in Processes : Taken(p)
  BY NextFate DEF NInv, IInv
<1>2. Sound
  BY <1>0, <1>1, SoundBefore
<1>3. \A w \in Workers : Over(w) => Over(w)'
  BY <1>0, <1>1, OverStays
<1>4. \A w \in Workers : NeverListened(w) => NeverListened(w)'
  BY <1>0, <1>1, NeverListenedStays
<1>6. CASE Still
  BY <1>0, <1>2, <1>3, <1>4, <1>6 DEF Still, Calm, LateInv
<1>5. ASSUME NEW p \in Processes, Taken(p)
      PROVE  /\ pc'[Coordinator] # "panicked"
             /\ pc'[Coordinator] \in Halted => \A w \in Workers : Over(w)'
             /\ \A w \in Workers : pc'[w] \in Halted => Over(w)' \/ NeverListened(w)'
             /\ \A e \in Endpoints : Broken(e)' => Over(e[2])'
  <2>1. \A q \in Processes : q # p => pc'[q] = pc[q]
    BY <1>5 DEF Taken, Summary, Others
  <2>2. CASE Calm /\ (pc'[p] \notin Halted \/ (p \in Workers /\ NeverListened(p)'))
    <3>1. p = Coordinator => pc'[p] \notin Halted
      BY <2>2, NAssumption DEF Workers, Coordinator
    <3>2. pc'[Coordinator] # "panicked"
      BY <1>0, <1>2, <2>1, <3>1 DEF LateInv, Halted
    <3>3. ASSUME pc'[Coordinator] \in Halted, NEW w \in Workers PROVE Over(w)'
      BY <1>0, <1>2, <1>3, <2>1, <3>1, <3>3 DEF LateInv
    <3>4. ASSUME NEW w \in Workers, pc'[w] \in Halted PROVE Over(w)' \/ NeverListened(w)'
      BY <1>0, <1>2, <1>3, <1>4, <2>1, <2>2, <3>4 DEF LateInv
    <3>5. \A e \in Endpoints : Broken(e)' => Over(e[2])'
      BY <1>0, <1>2, <1>3, <2>2 DEF LateInv, Calm
    <3> QED BY <3>2, <3>3, <3>4, <3>5
  <2>3. CASE pc'[p] \in Halted /\ OwnBreaks(p) /\ Reason(p)
    <3>1. OwnBreaks(p) /\ Reason(p)
      BY <2>3
    <3>2. /\ p = Coordinator => pc'[p] # "panicked"
          /\ \A w \in Workers : p = Coordinator \/ p = w => Over(w)
      BY <1>2, <3>1, HaltsOver
    <3>3. pc'[Coordinator] # "panicked"
      BY <1>0, <1>2, <2>1, <3>2 DEF LateInv
    <3>4. ASSUME pc'[Coordinator] \in Halted, NEW w \in Workers PROVE Over(w)'
      BY <1>0, <1>2, <1>3, <2>1, <3>2, <3>4 DEF LateInv
    <3>5. ASSUME NEW w \in Workers, pc'[w] \in Halted PROVE Over(w)' \/ NeverListened(w)'
      BY <1>0, <1>2, <1>3, <1>4, <2>1, <3>2, <3>5 DEF LateInv
    <3>6. ASSUME NEW e \in Endpoints, Broken(e)' PROVE Over(e[2])'
      <4>1. CASE Broken(e)
        BY <1>0, <1>2, <1>3, <4>1 DEF LateInv
      <4>2. CASE Owner(e) = p \/ Owner(Peer(e)) = p
        BY <1>0, <1>3, <3>2, <4>2, EndsOf
      <4> QED BY <3>1, <3>6, <4>1, <4>2 DEF OwnBreaks
    <3> QED BY <3>3, <3>4, <3>5, <3>6
  <2>4. ~(p \in Workers /\ NotAccepted(p)')
    BY DEF Sound, Undisturbed
  <2> QED BY <1>5, <2>2, <2>3, <2>4 DEF Taken, Fate
<1> QED BY <1>1, <1>5, <1>6

--------------------------------------------------------------------------------
FInv == NInv /\ LinkInv /\ LateInv

LEMMA InitFailures == Init => FInv
<1> SUFFICES ASSUME Init PROVE LinkInv /\ LateInv
  BY InitNetbench DEF FInv
<1>1. \A e \in Endpoints : conn[e] = "none"
  BY DEF Init
<1>2. LinkInv
  BY <1>1 DEF LinkInv, ConnectInv, BindInv, MadeTogether, C, W, Endpoints, Sides
<1>3. \A p \in Processes : pc[p] \in {"connect", "bind"}
  BY DEF Init, Start
<1>4. Coordinator \in Processes /\ Workers \subseteq Processes
  BY NAssumption DEF Processes, Coordinator, Workers
<1>5. LateInv
  BY <1>1, <1>3, <1>4 DEF LateInv, Broken, Halted
<1> QED BY <1>2, <1>5

LEMMA NextFailures ==
  ASSUME SpawnFirst, FinishLast, FInv, [Next]_vars
  PROVE  FInv'
<1>1. NInv /\ LinkInv /\ LateInv /\ TypeOK /\ Truthful /\ ControlInv
  BY DEF FInv, NInv, IInv
<1>2. Still \/ \E p \in Processes : Taken(p)
  BY <1>1, NextFate
<1>3. LinkInv'
  BY <1>1, <1>2, ConnectKept, BindKept, NextLinks, MadeKept DEF LinkInv
<1> QED BY <1>1, <1>3, NextNetbench, LateKept DEF FInv

(* Without a reason nobody fails before everything of him is over, for     *)
(* every pair of state machines that is driven to its end.                 *)
THEOREM FailureInvariant ==
  ASSUME SpawnFirst, FinishLast
  PROVE  Spec => []FInv
<1>1. Init => FInv
  BY InitFailures
<1>2. FInv /\ [Next]_vars => FInv'
  BY NextFailures
<1> QED BY <1>1, <1>2, PTL DEF Spec

(* OnlyLateFailures says more of the worker: the coordinator's endpoint is *)
(* Done, so its netbench has ended.                                        *)
LEMMA LateFailures ==
  ASSUME FInv,
         \A w \in Workers : Over(w) =>
           /\ state[C(w)] = "Done" /\ proc[w] = "gone"
           /\ state[W(w)] \in {"Stopped", "Done"}
  PROVE  OnlyLateFailures
<1> SUFFICES ASSUME Undisturbed
             PROVE  /\ pc[Coordinator] = "panicked" => ConnectFailed
                    /\ \A w \in Workers :
                         pc[w] = "panicked" /\ ~ConnectFailed /\ ~NeverListened(w) =>
                           /\ proc[w] = "gone" /\ state[W(w)] \in {"Stopped", "Done"}
                           /\ state[C(w)] = "Done"
  BY DEF OnlyLateFailures, W, C
<1>1. ASSUME pc[Coordinator] = "panicked", ~ConnectFailed PROVE FALSE
  BY <1>1 DEF FInv, LateInv, Sound
<1>2. ASSUME NEW w \in Workers, pc[w] = "panicked", ~ConnectFailed, ~NeverListened(w)
      PROVE  Over(w)
  BY <1>2 DEF FInv, LateInv, Sound, Halted
<1> QED BY <1>1, <1>2

--------------------------------------------------------------------------------
(* The tables of the server and of the client.                             *)
LEMMA ServerFinish ==
  ASSUME ServerTables
  PROVE  FinishLast /\ \A x \in States("coord") : Finished("coord", x) => x = "Done"
<1> USE DEF ServerTables, ServerStep, ServerTargets, ServerRank, ServerCoordStep, ServerWorkerStep,
            States, Finished
<1>1. /\ LastOf("coord") = "Done" /\ LastOf("worker") = "Done"
      /\ Finished("coord", "Done") /\ Finished("worker", "Done")
  BY DEF LastOf
<1>2. \A x, y \in States("coord") :
        Finished("coord", x) => x = "Done" /\ Rank["coord"][y] <= Rank["coord"][x]
  OBVIOUS
<1>3. \A x, y \in States("worker") : Finished("worker", x) => Rank["worker"][y] <= Rank["worker"][x]
  OBVIOUS
<1>4. /\ "Stopped" \in States("worker") /\ Step["worker"]["Stopped"] = "Done"
      /\ Rank["worker"]["Stopped"] < Rank["worker"]["Done"]
  OBVIOUS
<1>5. Awaits("worker", "Stopped")
  BY <1>4 DEF Awaits, Kinds
<1> HIDE DEF ServerTables, ServerStep, ServerTargets, ServerRank, ServerCoordStep,
             ServerWorkerStep, States, Finished
<1> QED BY <1>1, <1>2, <1>3, <1>4, <1>5 DEF FinishLast, Sides

LEMMA ClientFinish ==
  ASSUME ClientTables
  PROVE  FinishLast /\ \A x \in States("coord") : Finished("coord", x) => x = "Done"
<1> USE DEF ClientTables, ClientStep, ClientTargets, ClientRank, ClientCoordStep, ClientWorkerStep,
            States, Finished
<1>1. /\ LastOf("coord") = "Done" /\ LastOf("worker") = "Done"
      /\ Finished("coord", "Done") /\ Finished("worker", "Done")
  BY DEF LastOf
<1>2. \A x, y \in States("coord") :
        Finished("coord", x) => x = "Done" /\ Rank["coord"][y] <= Rank["coord"][x]
  OBVIOUS
<1>3. \A x, y \in States("worker") : Finished("worker", x) => Rank["worker"][y] <= Rank["worker"][x]
  OBVIOUS
<1>4. /\ "Stopped" \in States("worker") /\ Step["worker"]["Stopped"] = "Done"
      /\ Rank["worker"]["Stopped"] < Rank["worker"]["Done"]
  OBVIOUS
<1>5. Awaits("worker", "Stopped")
  BY <1>4 DEF Awaits, Kinds
<1> HIDE DEF ClientTables, ClientStep, ClientTargets, ClientRank, ClientCoordStep,
             ClientWorkerStep, States, Finished
<1> QED BY <1>1, <1>2, <1>3, <1>4, <1>5 DEF FinishLast, Sides

(* A server worker whose coordinator endpoint is Done has killed netbench. *)
LEMMA ServerOver ==
  ASSUME ServerTables, NInv, NEW w \in Workers, Over(w)
  PROVE  /\ state[C(w)] = "Done" /\ proc[w] = "gone"
         /\ state[W(w)] \in {"Stopped", "Done"}
<1>1. state[C(w)] = "Done"
  BY ServerFinish, PairFacts DEF Over
<1>2. Reached(C(w), "Done")
  BY <1>1, PairFacts, RankType DEF Reached, C
<1>3. Reached(W(w), "Stopped")
  BY <1>2, ServerRanks, ServerAwaits, ServerFacts, PairFacts
<1>4. proc[w] = "gone"
  BY <1>3, ServerRanks, ServerFacts, PairFacts DEF ProcessHere
<1>5. state[W(w)] \in {"Stopped", "Done"}
  <2>1. Rank["worker"][state[W(w)]] >= Rank["worker"]["Stopped"]
    BY <1>3 DEF Reached, RankOf, W
  <2>2. state[W(w)] \in {"WaitCoordInit", "Ready", "Run", "RunningAwaitKill", "Killing", "Stopped",
                         "Done"}
    BY PairFacts, ServerFacts
  <2> QED BY <2>1, <2>2 DEF ServerTables, ServerRank
<1> QED BY <1>1, <1>4, <1>5

(* One of a client has seen it end.                                        *)
LEMMA ClientOver ==
  ASSUME ClientTables, NInv, NEW w \in Workers, Over(w)
  PROVE  /\ state[C(w)] = "Done" /\ proc[w] = "gone"
         /\ state[W(w)] \in {"Stopped", "Done"}
<1>1. state[C(w)] = "Done"
  BY ClientFinish, PairFacts DEF Over
<1>2. Reached(C(w), "Done")
  BY <1>1, PairFacts, RankType DEF Reached, C
<1>3. Reached(W(w), "Stopped")
  BY <1>2, ClientRanks, ClientAwaits, ClientFacts, PairFacts
<1>4. proc[w] = "gone"
  BY <1>3, ClientRanks, ClientFacts, PairFacts DEF ProcessHere
<1>5. state[W(w)] \in {"Stopped", "Done"}
  <2>1. Rank["worker"][state[W(w)]] >= Rank["worker"]["Stopped"]
    BY <1>3 DEF Reached, RankOf, W
  <2>2. state[W(w)] \in {"WaitCoordInit", "Ready", "Run", "Running", "RunningAwaitComplete",
                         "Stopped", "Done"}
    BY PairFacts, ClientFacts
  <2> QED BY <2>1, <2>2 DEF ClientTables, ClientRank
<1> QED BY <1>1, <1>4, <1>5

(* OnlyLateFailures of the server protocol, for any number of servers.     *)
THEOREM ServerOnlyLateFailures ==
  ASSUME ServerTables
  PROVE  Spec => []OnlyLateFailures
<1>1. FInv => OnlyLateFailures
  <2> SUFFICES ASSUME FInv PROVE OnlyLateFailures
    OBVIOUS
  <2>1. NInv
    BY DEF FInv
  <2> QED BY <2>1, ServerOver, LateFailures
<1>2. Spec => []FInv
  BY FailureInvariant, ServerFacts, ServerFinish
<1> QED BY <1>1, <1>2, PTL

(* OnlyLateFailures of the client protocol, for any number of clients.     *)
THEOREM ClientOnlyLateFailures ==
  ASSUME ClientTables
  PROVE  Spec => []OnlyLateFailures
<1>1. FInv => OnlyLateFailures
  <2> SUFFICES ASSUME FInv PROVE OnlyLateFailures
    OBVIOUS
  <2>1. NInv
    BY DEF FInv
  <2> QED BY <2>1, ClientOver, LateFailures
<1>2. Spec => []FInv
  BY FailureInvariant, ClientFacts, ClientFinish
<1> QED BY <1>1, <1>2, PTL

=================================================================================
