------------------------------ MODULE RussulaProofs ------------------------------
EXTENDS Russula, SequenceTheorems, TLAPS

(* The ends of a connection.                                               *)
LEMMA PeerFacts ==
  ASSUME NEW e \in Endpoints
  PROVE  /\ Peer(e) \in Endpoints /\ Peer(e) # e /\ Peer(Peer(e)) = e
         /\ Peer(e)[1] = OtherSide(e[1]) /\ OtherSide(Peer(e)[1]) = e[1]
         /\ e[1] \in Sides /\ OtherSide(e[1]) \in Sides
         /\ e[2] \in Workers /\ Owner(e) \in Processes /\ SideOf(Owner(e)) = e[1]
  BY NAssumption DEF Endpoints, Peer, OtherSide, Sides, Owner, Processes, Workers, SideOf,
     Coordinator

(* The instance a process polls is one of its own.                         *)
LEMMA AtFacts ==
  ASSUME TypeOK, NEW p \in Processes
  PROVE  /\ At(p) \in Endpoints /\ Owner(At(p)) = p /\ At(p)[1] = SideOf(p)
         /\ SideOf(p) \in Sides /\ At(p) \in Instances(p)
<1>1. turn[p] \in Nat /\ First(p) <= turn[p] /\ turn[p] <= Last(p)
  BY DEF TypeOK
<1>2. turn[p] \in Workers /\ (p # Coordinator => turn[p] = p)
  BY <1>1, NAssumption DEF First, Last, Workers, Processes, Coordinator
<1>3. SideOf(p) \in Sides
  BY DEF SideOf, Sides
<1>4. At(p) \in Endpoints /\ At(p)[1] = SideOf(p) /\ At(p)[2] = turn[p]
  BY <1>2, <1>3 DEF At, Endpoints
<1>5. Owner(At(p)) = p
  BY <1>2, <1>4 DEF Owner, SideOf
<1> QED BY <1>3, <1>4, <1>5 DEF Instances

(* The state a process would move to is a state of its side, one further   *)
(* on its path unless it is finished.                                      *)
LEMMA NextFacts ==
  ASSUME TypeOK, NEW p \in Processes
  PROVE  /\ state[At(p)] \in States(SideOf(p))
         /\ NewState(p) \in States(SideOf(p))
         /\ ~Finished(SideOf(p), state[At(p)]) =>
              RankOf(At(p), NewState(p)) = RankOf(At(p), state[At(p)]) + 1
<1>1. state[At(p)] \in States(SideOf(p))
  BY AtFacts DEF TypeOK
<1>2. NewState(p) \in States(SideOf(p))
  BY <1>1, AtFacts, TableAssumption DEF NewState
<1> QED BY <1>1, <1>2, AtFacts, PathAssumption DEF NewState, RankOf

--------------------------------------------------------------------------------
(* TypeOK, cut into what the network, the control flow and the netbench    *)
(* processes contribute.                                                   *)
BoxOK(box) ==
  /\ box \in [Endpoints -> Seq(AllStates)]
  /\ \A e \in Endpoints : box[e] \in Seq(States(OtherSide(e[1])))

ConnOK == conn \in [Endpoints -> Alive \cup {"none", "closed", "dropped"}]

StateOK ==
  /\ state \in [Endpoints -> AllStates]
  /\ \A e \in Endpoints : state[e] \in States(e[1])

ControlOK ==
  /\ pc \in [Processes -> {"bind", "accept", "connect", "idle", "poll", "recv",
                           "finish"} \cup Halted]
  /\ turn \in [Processes -> Nat]
  /\ \A p \in Processes : First(p) <= turn[p] /\ turn[p] <= Last(p)
  /\ count \in [Processes -> Nat]
  /\ goal \in [Processes -> Nat \ {0}]

ReadyOK == ready \in [Endpoints -> BOOLEAN]

ProcOK ==
  /\ proc \in [Workers -> {"none", "running", "gone"}]
  /\ pid \in [Workers -> {"placeholder", "child"}]
  /\ busy \in [Workers -> 0..MaxBusyPolls]

(* TypeOK, split into the parts the lemmas below prove one by one.         *)
LEMMA TypeParts ==
  TypeOK <=> StateOK /\ BoxOK(inbox) /\ ReadyOK /\ ConnOK /\ ControlOK /\ ProcOK
  BY DEF TypeOK, StateOK, BoxOK, ReadyOK, ConnOK, ControlOK, ProcOK

(* Every element of the inboxes after a step was in box, or is one of the  *)
(* messages sent to the peer of e.                                         *)
Delivers(box, e, msgs) ==
  \A x \in Endpoints : \A i \in DOMAIN inbox'[x] :
    \/ \E j \in DOMAIN box[x] : inbox'[x][i] = box[x][j]
    \/ x = Peer(e) /\ \E j \in DOMAIN msgs : inbox'[x][i] = msgs[j]

(* Closing the sockets of a process keeps the connections well-typed.      *)
LEMMA ShutdownType ==
  ASSUME ConnOK, NEW p, NEW box, Shutdown(p, box)
  PROVE  ConnOK'
  BY DEF ConnOK, Shutdown, Alive

(* What one notification may do to the network.                            *)
LEMMA TransmitNet ==
  ASSUME ConnOK, NEW e \in Endpoints, NEW msgs \in Seq(States(e[1])),
         NEW box, BoxOK(box), Transmit(e, msgs, box)
  PROVE  BoxOK(inbox)' /\ ConnOK' /\ Delivers(box, e, msgs)
<1> DEFINE d == Peer(e)
<1>0. d \in Endpoints /\ OtherSide(d[1]) = e[1]
  BY PeerFacts
<1>1. ConnOK'
  BY DEF Transmit, ConnOK, Alive
<1>2. CASE inbox' = box
  BY <1>1, <1>2 DEF BoxOK, Delivers
<1>3. CASE inbox' = [box EXCEPT ![d] = @ \o msgs]
  <2>1. box[d] \in Seq(States(e[1])) /\ e[1] \in Sides
    BY <1>0, PeerFacts DEF BoxOK
  <2>2. /\ box[d] \o msgs \in Seq(States(e[1]))
        /\ Len(box[d] \o msgs) = Len(box[d]) + Len(msgs)
        /\ Len(box[d]) \in Nat /\ Len(msgs) \in Nat
        /\ DOMAIN (box[d] \o msgs) = 1..Len(box[d] \o msgs)
        /\ DOMAIN box[d] = 1..Len(box[d]) /\ DOMAIN msgs = 1..Len(msgs)
    BY <2>1
  <2>3. \A i \in 1..(Len(box[d]) + Len(msgs)) :
          (box[d] \o msgs)[i] = IF i <= Len(box[d]) THEN box[d][i]
                                ELSE msgs[i - Len(box[d])]
    BY <2>1
  <2>4. States(e[1]) \subseteq AllStates
    BY <2>1 DEF AllStates, Sides
  <2>5. box[d] \o msgs \in Seq(AllStates)
    BY <2>2, <2>4
  <2>6. inbox' \in [Endpoints -> Seq(AllStates)]
    BY <1>3, <2>5 DEF BoxOK
  <2>7. \A x \in Endpoints : inbox'[x] = IF x = d THEN box[d] \o msgs ELSE box[x]
    BY <1>3, <1>0 DEF BoxOK
  <2>8. BoxOK(inbox)'
    BY <2>6, <2>7, <2>2, <1>0 DEF BoxOK
  <2>9. Delivers(box, e, msgs)
    <3> SUFFICES ASSUME NEW x \in Endpoints, NEW i \in DOMAIN inbox'[x]
                 PROVE  \/ \E j \in DOMAIN box[x] : inbox'[x][i] = box[x][j]
                        \/ x = d /\ \E j \in DOMAIN msgs : inbox'[x][i] = msgs[j]
      BY DEF Delivers
    <3>1. CASE x # d
      BY <3>1, <2>7
    <3>2. CASE x = d
      <4>1. i \in 1..(Len(box[d]) + Len(msgs)) /\ inbox'[x][i] = (box[d] \o msgs)[i]
        BY <3>2, <2>7, <2>2
      <4>2. CASE i <= Len(box[d])
        BY <3>2, <4>1, <4>2, <2>2, <2>3
      <4>3. CASE ~(i <= Len(box[d]))
        <5>1. i - Len(box[d]) \in DOMAIN msgs
          BY <4>1, <4>3, <2>2
        <5>2. inbox'[x][i] = msgs[i - Len(box[d])]
          BY <4>1, <4>3, <2>3
        <5> QED BY <5>1, <5>2, <3>2
      <4> QED BY <4>2, <4>3
    <3> QED BY <3>1, <3>2
  <2> QED BY <1>1, <2>8, <2>9
<1> QED BY <1>2, <1>3 DEF Transmit

(* A process that panics sends nothing.                                    *)
LEMMA PanicNet ==
  ASSUME ConnOK, NEW p, NEW e, NEW msgs, NEW box, BoxOK(box), Panic(p, box)
  PROVE  BoxOK(inbox)' /\ ConnOK' /\ Delivers(box, e, msgs)
<1>1. ConnOK'
  BY ShutdownType DEF Panic
<1> QED BY <1>1 DEF Panic, BoxOK, Delivers

(* Whether it succeeds or fails, Notify keeps the types of the network and *)
(* delivers nothing but what was there and the messages sent.              *)
LEMMA NotifyNet ==
  ASSUME TypeOK, NEW p \in Processes, NEW msgs \in Seq(States(SideOf(p))),
         NEW box, BoxOK(box), Transmit(At(p), msgs, box) \/ Panic(p, box)
  PROVE  BoxOK(inbox)' /\ ConnOK' /\ Delivers(box, At(p), msgs)
<1>1. At(p) \in Endpoints /\ msgs \in Seq(States(At(p)[1])) /\ ConnOK
  BY AtFacts, TypeParts
<1> QED BY <1>1, TransmitNet, PanicNet

(* Reading a message takes it from its inbox and leaves the others.        *)
LEMMA PoppedBox ==
  ASSUME BoxOK(inbox), NEW e \in Endpoints, inbox[e] # <<>>
  PROVE  /\ BoxOK(Popped(e))
         /\ \A x \in Endpoints : \A j \in DOMAIN Popped(e)[x] :
              \E k \in DOMAIN inbox[x] : Popped(e)[x][j] = inbox[x][k]
         /\ 1 \in DOMAIN inbox[e] /\ Head(inbox[e]) = inbox[e][1]
<1> DEFINE S == States(OtherSide(e[1]))
<1>1. inbox[e] \in Seq(S) /\ inbox[e] \in Seq(AllStates)
  BY DEF BoxOK
<1>2. /\ Tail(inbox[e]) \in Seq(S) /\ Tail(inbox[e]) \in Seq(AllStates)
      /\ Len(inbox[e]) \in Nat \ {0} /\ DOMAIN inbox[e] = 1..Len(inbox[e])
      /\ DOMAIN Tail(inbox[e]) = 1..(Len(inbox[e]) - 1)
      /\ \A j \in 1..(Len(inbox[e]) - 1) : Tail(inbox[e])[j] = inbox[e][j + 1]
      /\ Head(inbox[e]) = inbox[e][1]
  <2>1. Len(inbox[e]) \in Nat \ {0} /\ DOMAIN inbox[e] = 1..Len(inbox[e])
    BY <1>1, LenProperties, EmptySeq
  <2>2. /\ Tail(inbox[e]) \in Seq(S) /\ Tail(inbox[e]) \in Seq(AllStates)
        /\ Len(Tail(inbox[e])) = Len(inbox[e]) - 1
        /\ \A j \in 1..Len(Tail(inbox[e])) : Tail(inbox[e])[j] = inbox[e][j + 1]
    BY <1>1, HeadTailProperties
  <2>3. DOMAIN Tail(inbox[e]) = 1..Len(Tail(inbox[e]))
    BY <2>2, LenProperties
  <2>4. Head(inbox[e]) = inbox[e][1]
    BY <1>1
  <2> QED BY <2>1, <2>2, <2>3, <2>4
<1>3. \A x \in Endpoints : Popped(e)[x] = IF x = e THEN Tail(inbox[e]) ELSE inbox[x]
  BY DEF Popped, BoxOK
<1>4. BoxOK(Popped(e))
  BY <1>2, <1>3 DEF BoxOK, Popped
<1>5. ASSUME NEW x \in Endpoints, NEW j \in DOMAIN Popped(e)[x]
      PROVE  \E k \in DOMAIN inbox[x] : Popped(e)[x][j] = inbox[x][k]
  <2>1. CASE x # e
    BY <1>3, <2>1
  <2>2. CASE x = e
    <3>1. j \in 1..(Len(inbox[e]) - 1) /\ Popped(e)[x][j] = inbox[e][j + 1]
      BY <1>2, <1>3, <2>2
    <3>2. j + 1 \in DOMAIN inbox[x]
      BY <1>2, <2>2, <3>1
    <3> QED BY <3>1, <3>2, <2>2
  <2> QED BY <2>1, <2>2
<1> QED BY <1>2, <1>4, <1>5

--------------------------------------------------------------------------------
(* The control flow.                                                       *)
LEMMA BoundsFacts ==
  ASSUME NEW p \in Processes
  PROVE  First(p) \in Nat /\ Last(p) \in Nat /\ First(p) <= Last(p)
  BY NAssumption DEF First, Last, Processes, Coordinator

(* NextInstance leaves pc, turn and goal in their types.                   *)
LEMMA NextInstanceType ==
  ASSUME TypeOK, NEW p \in Processes, NEW s, NextInstance(p, s), count' \in [Processes -> Nat]
  PROVE  ControlOK'
<1>1. /\ turn \in [Processes -> Nat] /\ turn[p] \in Nat /\ goal \in [Processes -> Nat \ {0}]
      /\ \A q \in Processes : First(q) <= turn[q] /\ turn[q] <= Last(q)
      /\ First(p) \in Nat /\ Last(p) \in Nat /\ First(p) <= Last(p)
  BY BoundsFacts DEF TypeOK
<1>2. CASE turn[p] < Last(p)
  <2>1. turn' = [turn EXCEPT ![p] = turn[p] + 1] /\ goal' = goal
    BY <1>2 DEF NextInstance
  <2>2. turn' \in [Processes -> Nat]
    BY <2>1, <1>1
  <2>3. \A q \in Processes : turn'[q] = IF q = p THEN turn[p] + 1 ELSE turn[q]
    BY <2>1, <1>1
  <2>4. \A q \in Processes : First(q) <= turn'[q] /\ turn'[q] <= Last(q)
    BY <2>3, <1>1, <1>2
  <2>5. pc' = [pc EXCEPT ![p] = "poll"]
    BY <1>2 DEF NextInstance
  <2> QED BY <2>1, <2>2, <2>4, <2>5 DEF ControlOK, TypeOK, First, Last
<1>3. CASE ~(turn[p] < Last(p))
  <2>1. turn' = [turn EXCEPT ![p] = First(p)]
    BY <1>3 DEF NextInstance
  <2>2. turn' \in [Processes -> Nat]
    BY <2>1, <1>1
  <2>3. \A q \in Processes : First(q) <= turn'[q] /\ turn'[q] <= Last(q)
    BY <2>1, <1>1
  <2>4. goal' \in [Processes -> Nat \ {0}]
    BY <1>1, <1>3 DEF NextInstance
  <2>5. pc' = [pc EXCEPT ![p] = "idle"] \/ pc' = [pc EXCEPT ![p] = "poll"]
    BY <1>3 DEF NextInstance
  <2> QED BY <2>2, <2>3, <2>4, <2>5 DEF ControlOK, TypeOK, First, Last
<1> QED BY <1>2, <1>3

(* So does the end of run_current.                                         *)
LEMMA EndRunType ==
  ASSUME TypeOK, NEW p \in Processes, NEW s, EndRun(p, s)
  PROVE  ControlOK'
<1>1. CASE Finished(SideOf(p), s)
  BY <1>1, BoundsAssumption DEF EndRun, TypeOK, ControlOK, First, Last
<1>2. CASE ~Finished(SideOf(p), s)
  BY <1>2, NextInstanceType DEF EndRun, TypeOK
<1> QED BY <1>1, <1>2

(* So does a panic.                                                        *)
LEMMA PanicType ==
  ASSUME TypeOK, NEW p \in Processes, NEW box, Panic(p, box)
  PROVE  ControlOK'
  BY DEF Panic, TypeOK, ControlOK, Halted, First, Last

(* So does the beginning of await_next_msg.                                *)
LEMMA ReadingType ==
  ASSUME TypeOK, NEW p \in Processes, Reading(p)
  PROVE  ControlOK'
  BY DEF Reading, TypeOK, ControlOK, First, Last

(* transition_next leaves every endpoint in a state of its side.           *)
LEMMA TransitionType ==
  ASSUME TypeOK, NEW p \in Processes, Transition(p)
  PROVE  StateOK'
<1>1. SideOf(p) \in Sides /\ At(p)[1] = SideOf(p) /\ NewState(p) \in States(SideOf(p))
  BY NextFacts, AtFacts
<1>2. NewState(p) \in AllStates
  BY <1>1 DEF AllStates, Sides
<1> QED BY <1>1, <1>2 DEF Transition, StateOK, TypeOK

--------------------------------------------------------------------------------
(* The inductive invariant.  A process that polls has a target, and one    *)
(* that reads does so in a state that awaits a message and is not the      *)
(* target: this is what makes a step of the code a step of Rendezvous.     *)
ControlHere(p) ==
  /\ pc[p] \in {"poll", "recv", "finish"} => HasGoal(p)
  /\ pc[p] = "recv" => ~AtTarget(p, At(p)) /\ Awaits(SideOf(p), state[At(p)])

ControlInv == \A p \in Processes : ControlHere(p)

(* A process is never driven further than its last target.                 *)
GoalInv == \A p \in Processes : goal[p] <= Len(Targets[SideOf(p)]) + 1

IInv == TypeOK /\ ControlInv /\ GoalInv /\ Truthful /\ InStep /\ Barrier

(* Process p moves the instance it polls: the one way a state changes.     *)
MoveStep(p) ==
  /\ HasGoal(p)
  /\ ~AtTarget(p, At(p))
  /\ ~Finished(SideOf(p), state[At(p)])
  /\ Awaits(SideOf(p), state[At(p)]) =>
       Reached(Peer(At(p)), Step[SideOf(p)][state[At(p)]])
  /\ Transition(p)

(* Process p reaches its target: the one way a goal changes.               *)
SettleStep(p) ==
  /\ HasGoal(p)
  /\ \A e \in Instances(p) : state'[e] = Target(p)
  /\ goal' = [goal EXCEPT ![p] = @ + 1]

Others(p) == \A q \in Processes \ {p} : pc'[q] = pc[q] /\ turn'[q] = turn[q]

(* What every step of process p amounts to.                                *)
Summary(p) ==
  /\ TypeOK'
  /\ UNCHANGED state \/ MoveStep(p)
  /\ UNCHANGED goal \/ SettleStep(p)
  /\ Truthful'
  /\ ControlHere(p)'
  /\ Others(p)

(* A move leaves the other instances alone and never goes back.            *)
LEMMA MoveFacts ==
  ASSUME TypeOK, NEW p \in Processes, MoveStep(p)
  PROVE  /\ StateOK'
         /\ state'[At(p)] = NewState(p)
         /\ \A e \in Endpoints \ {At(p)} : state'[e] = state[e]
         /\ RankOf(At(p), state'[At(p)]) = RankOf(At(p), state[At(p)]) + 1
<1>1. At(p) \in Endpoints /\ state' = [state EXCEPT ![At(p)] = NewState(p)]
  BY AtFacts DEF MoveStep, Transition
<1>2. state'[At(p)] = NewState(p) /\ \A e \in Endpoints \ {At(p)} : state'[e] = state[e]
  BY <1>1 DEF TypeOK
<1>3. RankOf(At(p), NewState(p)) = RankOf(At(p), state[At(p)]) + 1
  BY NextFacts DEF MoveStep
<1>4. StateOK'
  BY TransitionType DEF MoveStep
<1> QED BY <1>2, <1>3, <1>4

(* The rank of a state is a natural number.                                *)
LEMMA RankType ==
  ASSUME NEW e \in Endpoints, NEW x \in States(e[1])
  PROVE  RankOf(e, x) \in Nat
  BY PeerFacts, PathAssumption DEF RankOf

(* No step moves an endpoint back on its path.                             *)
LEMMA RankGrows ==
  ASSUME TypeOK, NEW p \in Processes, UNCHANGED state \/ MoveStep(p),
         NEW e \in Endpoints
  PROVE  /\ state[e] \in States(e[1]) /\ state'[e] \in States(e[1])
         /\ RankOf(e, state[e]) <= RankOf(e, state'[e])
         /\ RankOf(e, state[e]) \in Nat /\ RankOf(e, state'[e]) \in Nat
<1>1. state[e] \in States(e[1]) /\ RankOf(e, state[e]) \in Nat
  BY RankType DEF TypeOK
<1>2. CASE UNCHANGED state
  BY <1>1, <1>2
<1>3. CASE MoveStep(p)
  <2>1. state'[e] \in States(e[1]) /\ RankOf(e, state'[e]) \in Nat
    BY <1>3, MoveFacts, RankType DEF StateOK
  <2>2. RankOf(e, state[e]) <= RankOf(e, state'[e])
    BY <1>1, <1>3, <2>1, MoveFacts
  <2> QED BY <1>1, <2>1, <2>2
<1> QED BY <1>2, <1>3

(* Messages that name states their sender has come to keep Truthful.       *)
LEMMA TruthfulStep ==
  ASSUME TypeOK, Truthful, NEW p \in Processes, UNCHANGED state \/ MoveStep(p),
         NEW box, NEW msgs \in Seq(States(SideOf(p))),
         BoxOK(box),
         \A x \in Endpoints : \A j \in DOMAIN box[x] :
           \E k \in DOMAIN inbox[x] : box[x][j] = inbox[x][k],
         Delivers(box, At(p), msgs),
         \A j \in DOMAIN msgs : RankOf(At(p), msgs[j]) <= RankOf(At(p), state'[At(p)])
  PROVE  Truthful'
<1> SUFFICES ASSUME NEW x \in Endpoints, NEW i \in DOMAIN inbox'[x]
             PROVE  RankOf(Peer(x), state'[Peer(x)]) >= RankOf(Peer(x), inbox'[x][i])
  BY DEF Truthful, Reached, RankOf
<1>0. Peer(x) \in Endpoints /\ Peer(x)[1] = OtherSide(x[1])
  BY PeerFacts
<1>1. CASE \E j \in DOMAIN box[x] : inbox'[x][i] = box[x][j]
  <2>1. PICK k \in DOMAIN inbox[x] : inbox'[x][i] = inbox[x][k]
    BY <1>1
  <2>2. inbox[x] \in Seq(States(Peer(x)[1]))
    BY <1>0 DEF TypeOK
  <2>3. inbox[x][k] \in States(Peer(x)[1])
    BY <2>2, <2>1, ElementOfSeq, LenProperties
  <2>4. RankOf(Peer(x), inbox[x][k]) \in Nat
    BY <2>3, <1>0, RankType
  <2>5. RankOf(Peer(x), state[Peer(x)]) >= RankOf(Peer(x), inbox[x][k])
    BY DEF Truthful, Reached
  <2> QED BY <2>1, <2>4, <2>5, <1>0, RankGrows
<1>2. CASE x = Peer(At(p)) /\ \E j \in DOMAIN msgs : inbox'[x][i] = msgs[j]
  <2>1. Peer(x) = At(p) /\ At(p) \in Endpoints /\ At(p)[1] = SideOf(p)
    BY <1>2, AtFacts, PeerFacts
  <2>2. PICK j \in DOMAIN msgs : inbox'[x][i] = msgs[j]
    BY <1>2
  <2>3. msgs[j] \in States(At(p)[1])
    BY <2>1, ElementOfSeq, LenProperties
  <2>4. RankOf(At(p), msgs[j]) \in Nat /\ RankOf(At(p), state'[At(p)]) \in Nat
    BY <2>1, <2>3, RankType, RankGrows
  <2> QED BY <2>1, <2>2, <2>4
<1> QED BY <1>1, <1>2 DEF Delivers

--------------------------------------------------------------------------------
(* The ways a step of process p ends.                                      *)
LEMMA NextInstanceFacts ==
  ASSUME TypeOK, NEW p \in Processes, HasGoal(p), NEW s, NextInstance(p, s),
         state'[At(p)] = s, \A e \in Endpoints \ {At(p)} : state'[e] = state[e]
  PROVE  /\ UNCHANGED goal \/ SettleStep(p)
         /\ ControlHere(p)' /\ Others(p)
<1>1. At(p) \in Endpoints
  BY AtFacts
<1>2. Others(p)
  BY DEF Others, NextInstance, TypeOK
<1>3. pc'[p] = "idle" \/ (pc'[p] = "poll" /\ goal' = goal)
  BY DEF NextInstance, TypeOK
<1>4. ControlHere(p)'
  BY <1>3 DEF ControlHere, HasGoal
<1>5. AllAtTarget(p, s) => \A e \in Instances(p) : state'[e] = Target(p)
  BY <1>1 DEF AllAtTarget, Instances
<1>6. UNCHANGED goal \/ (AllAtTarget(p, s) /\ goal' = [goal EXCEPT ![p] = @ + 1])
  BY DEF NextInstance
<1> QED BY <1>2, <1>4, <1>5, <1>6 DEF SettleStep

(* The end of run_current settles a target or leaves the goals alone.      *)
LEMMA EndRunFacts ==
  ASSUME TypeOK, NEW p \in Processes, HasGoal(p), NEW s, EndRun(p, s),
         state'[At(p)] = s, \A e \in Endpoints \ {At(p)} : state'[e] = state[e]
  PROVE  /\ UNCHANGED goal \/ SettleStep(p)
         /\ ControlHere(p)' /\ Others(p)
<1>1. CASE Finished(SideOf(p), s)
  BY <1>1 DEF EndRun, ControlHere, Others, HasGoal, TypeOK
<1>2. CASE ~Finished(SideOf(p), s)
  BY <1>2, NextInstanceFacts DEF EndRun
<1> QED BY <1>1, <1>2

(* A panic leaves the goals alone.                                         *)
LEMMA PanicFacts ==
  ASSUME TypeOK, NEW p \in Processes, NEW box, Panic(p, box)
  PROVE  UNCHANGED goal /\ ControlHere(p)' /\ Others(p)
  BY DEF Panic, ControlHere, Others, TypeOK

(* A step that ends the run of an instance with a notification.            *)
LEMMA NotifyRun ==
  ASSUME TypeOK, Truthful, NEW p \in Processes, HasGoal(p),
         UNCHANGED state \/ MoveStep(p),
         NEW s, NEW box, NEW msgs \in Seq(States(SideOf(p))),
         BoxOK(box),
         \A x \in Endpoints : \A j \in DOMAIN box[x] :
           \E k \in DOMAIN inbox[x] : box[x][j] = inbox[x][k],
         Notify(p, msgs, box, EndRun(p, s)),
         CanWrite(At(p)) =>
           /\ state'[At(p)] = s
           /\ \A j \in DOMAIN msgs : RankOf(At(p), msgs[j]) <= RankOf(At(p), s),
         ReadyOK', ProcOK'
  PROVE  Summary(p)
<1>0. /\ StateOK'
      /\ \A e \in Endpoints \ {At(p)} : state'[e] = state[e]
  BY MoveFacts, TypeParts DEF StateOK
<1>1. CASE CanWrite(At(p))
  <2>1. Transmit(At(p), msgs, box) /\ EndRun(p, s)
    BY <1>1 DEF Notify
  <2>2. BoxOK(inbox)' /\ ConnOK' /\ Delivers(box, At(p), msgs)
    BY <2>1, NotifyNet
  <2>3. Truthful'
    BY <1>1, <2>2, TruthfulStep
  <2>4. ControlOK'
    BY <2>1, EndRunType
  <2>5. (UNCHANGED goal \/ SettleStep(p)) /\ ControlHere(p)' /\ Others(p)
    BY <1>0, <1>1, <2>1, EndRunFacts
  <2>6. TypeOK'
    BY <1>0, <2>2, <2>4, TypeParts DEF StateOK, BoxOK, ReadyOK, ConnOK, ControlOK, ProcOK, TypeOK
  <2> QED BY <2>3, <2>5, <2>6 DEF Summary
<1>2. CASE ~CanWrite(At(p))
  <2>1. Panic(p, box)
    BY <1>2 DEF Notify
  <2>2. <<>> \in Seq(States(SideOf(p))) /\ DOMAIN <<>> = {}
    BY EmptySeq
  <2>3. BoxOK(inbox)' /\ ConnOK' /\ Delivers(box, At(p), <<>>)
    BY <2>1, <2>2, NotifyNet
  <2>4. Truthful'
    BY <2>2, <2>3, TruthfulStep
  <2>5. ControlOK' /\ UNCHANGED goal /\ ControlHere(p)' /\ Others(p)
    BY <2>1, PanicType, PanicFacts
  <2>6. TypeOK'
    BY <1>0, <2>3, <2>5, TypeParts DEF StateOK, BoxOK, ReadyOK, ConnOK, ControlOK, ProcOK, TypeOK
  <2> QED BY <2>4, <2>5, <2>6 DEF Summary
<1> QED BY <1>1, <1>2

--------------------------------------------------------------------------------
(* The actions of a process, one lemma each.                               *)
LEMMA OneMessage ==
  ASSUME NEW S, NEW x \in S
  PROVE  <<x>> \in Seq(S) /\ DOMAIN <<x>> = {1} /\ <<x>>[1] = x
  OBVIOUS

(* What the guard of a run() that does not wait for a message says.        *)
LEMMA RunsFacts ==
  ASSUME TypeOK, ControlInv, NEW p \in Processes, NEW kind,
         kind \in {"advance", "spawn", "kill", "join"}, Runs(p, kind)
  PROVE  /\ HasGoal(p) /\ state[At(p)] \in States(SideOf(p))
         /\ Transition(p) => MoveStep(p)
<1>1. HasGoal(p) /\ ~AtTarget(p, At(p)) /\ Run[SideOf(p)][state[At(p)]] = kind
  BY DEF Runs, Polling, ControlInv, ControlHere
<1>2. state[At(p)] \in States(SideOf(p)) /\ SideOf(p) \in Sides
  BY NextFacts, AtFacts
<1>3. ~Awaits(SideOf(p), state[At(p)]) /\ ~Finished(SideOf(p), state[At(p)])
  BY <1>1, <1>2, TableAssumption
<1> QED BY <1>1, <1>2, <1>3 DEF MoveStep

(* What the guard of a read says: its instance awaits a message, so it is  *)
(* not Finished.                                                           *)
LEMMA WaitingFacts ==
  ASSUME TypeOK, ControlInv, NEW p \in Processes, Waiting(p)
  PROVE  /\ HasGoal(p) /\ ~AtTarget(p, At(p))
         /\ Awaits(SideOf(p), state[At(p)]) /\ ~Finished(SideOf(p), state[At(p)])
         /\ state[At(p)] \in States(SideOf(p))
<1>1. HasGoal(p) /\ ~AtTarget(p, At(p)) /\ Awaits(SideOf(p), state[At(p)])
  BY DEF Waiting, ControlInv, ControlHere
<1> QED BY <1>1, NextFacts DEF Awaits, Finished, Kinds

(* A run that ends with one notification of the state it leaves behind.    *)
LEMMA NotifyState ==
  ASSUME TypeOK, Truthful, NEW p \in Processes, HasGoal(p),
         UNCHANGED state \/ MoveStep(p),
         NEW box, BoxOK(box),
         \A x \in Endpoints : \A j \in DOMAIN box[x] :
           \E k \in DOMAIN inbox[x] : box[x][j] = inbox[x][k],
         Notify(p, <<state'[At(p)]>>, box, EndRun(p, state'[At(p)])),
         ReadyOK', ProcOK'
  PROVE  Summary(p)
<1> DEFINE s == state'[At(p)]
<1>1. At(p) \in Endpoints /\ At(p)[1] = SideOf(p)
  BY AtFacts
<1>2. s \in States(SideOf(p)) /\ RankOf(At(p), s) \in Nat
  BY <1>1, RankGrows
<1>3. <<s>> \in Seq(States(SideOf(p))) /\ DOMAIN <<s>> = {1} /\ <<s>>[1] = s
  BY <1>2, OneMessage
<1>4. \A j \in DOMAIN <<s>> : RankOf(At(p), <<s>>[j]) <= RankOf(At(p), s)
  BY <1>2, <1>3
<1>5. Notify(p, <<s>>, box, EndRun(p, s))
  OBVIOUS
<1> HIDE DEF s
<1> QED BY <1>3, <1>4, <1>5, NotifyRun DEF s

(* transition_self_or_user_driven is a summarised step.                    *)
LEMMA RunAdvanceStep ==
  ASSUME TypeOK, Truthful, ControlInv, NEW p \in Processes, RunAdvance(p)
  PROVE  Summary(p)
<1>1. HasGoal(p) /\ MoveStep(p)
  BY RunsFacts DEF RunAdvance
<1>2. state'[At(p)] = NewState(p)
  BY <1>1, MoveFacts
<1>3. Notify(p, <<state'[At(p)]>>, inbox, EndRun(p, state'[At(p)]))
  BY <1>2 DEF RunAdvance
<1>4. BoxOK(inbox) /\ ReadyOK' /\ ProcOK'
  BY TypeParts DEF RunAdvance, procVars, ReadyOK, ProcOK
<1> QED BY <1>1, <1>3, <1>4, NotifyState

(* Killing netbench and reporting Stopped is a summarised step.            *)
LEMMA RunKillStep ==
  ASSUME TypeOK, Truthful, ControlInv, NEW w \in Workers, RunKill(w)
  PROVE  Summary(w)
<1>0. w \in Processes
  BY NAssumption DEF Workers, Processes
<1>1. HasGoal(w) /\ MoveStep(w)
  BY <1>0, RunsFacts DEF RunKill
<1>2. state'[At(w)] = NewState(w)
  BY <1>0, <1>1, MoveFacts
<1>3. Notify(w, <<state'[At(w)]>>, inbox, EndRun(w, state'[At(w)]))
  BY <1>2 DEF RunKill
<1>4. BoxOK(inbox) /\ ReadyOK' /\ ProcOK'
  BY TypeParts DEF RunKill, ReadyOK, ProcOK
<1> QED BY <1>0, <1>1, <1>3, <1>4, NotifyState

(* A poll that finds netbench running is a summarised step.                *)
LEMMA RunJoinBusyStep ==
  ASSUME TypeOK, Truthful, ControlInv, NEW w \in Workers, RunJoinBusy(w)
  PROVE  Summary(w)
<1>0. w \in Processes
  BY NAssumption DEF Workers, Processes
<1>1. HasGoal(w) /\ UNCHANGED state
  BY <1>0, RunsFacts DEF RunJoinBusy
<1>3. Notify(w, <<state'[At(w)]>>, inbox, EndRun(w, state'[At(w)]))
  BY <1>1 DEF RunJoinBusy
<1>4. BoxOK(inbox) /\ ReadyOK'
  BY TypeParts DEF RunJoinBusy, ReadyOK
<1>5. ProcOK'
  BY BoundsAssumption DEF RunJoinBusy, ProcOK, TypeOK
<1> QED BY <1>0, <1>1, <1>3, <1>4, <1>5, NotifyState

(* The worker says that it still runs, then that it has stopped: two       *)
(* messages, and no move at all if the connection has failed.              *)
LEMMA RunJoinedStep ==
  ASSUME TypeOK, Truthful, ControlInv, NEW w \in Workers, RunJoined(w)
  PROVE  Summary(w)
<1> DEFINE old == state[At(w)]
           new == NewState(w)
           S == States(SideOf(w))
<1>0. w \in Processes
  BY NAssumption DEF Workers, Processes
<1>1. HasGoal(w) /\ (Transition(w) => MoveStep(w)) /\ old \in S /\ new \in S
  BY <1>0, RunsFacts, NextFacts DEF RunJoined
<1>2. UNCHANGED state \/ MoveStep(w)
  BY <1>1 DEF RunJoined
<1>3. /\ <<old, new>> \in Seq(S) /\ DOMAIN <<old, new>> = {1, 2}
      /\ <<old, new>>[1] = old /\ <<old, new>>[2] = new
  BY <1>1
<1>4. CanWrite(At(w)) =>
        /\ state'[At(w)] = new
        /\ RankOf(At(w), old) <= RankOf(At(w), new)
        /\ RankOf(At(w), new) <= RankOf(At(w), new)
  <2>1. At(w) \in Endpoints
    BY <1>0, AtFacts
  <2>2. CanWrite(At(w)) => MoveStep(w)
    BY <1>1 DEF RunJoined
  <2> QED BY <1>0, <2>1, <2>2, MoveFacts, RankGrows
<1>5. Notify(w, <<old, new>>, inbox, EndRun(w, new))
  BY DEF RunJoined
<1>6. BoxOK(inbox) /\ ReadyOK' /\ ProcOK'
  BY TypeParts DEF RunJoined, procVars, ReadyOK, ProcOK
<1>7. CanWrite(At(w)) =>
        /\ state'[At(w)] = new
        /\ \A j \in DOMAIN <<old, new>> : RankOf(At(w), <<old, new>>[j]) <= RankOf(At(w), new)
  BY <1>3, <1>4
<1> HIDE DEF old, new
<1> QED BY <1>0, <1>1, <1>2, <1>3, <1>5, <1>6, <1>7, NotifyRun

(* Truthful reads nothing but states and messages.                         *)
LEMMA TruthfulQuiet ==
  ASSUME Truthful, UNCHANGED <<state, inbox>>
  PROVE  Truthful'
  BY DEF Truthful, Reached, RankOf

(* A step that keeps the states, the messages and the goals.               *)
LEMMA QuietStep ==
  ASSUME TypeOK, Truthful, NEW p \in Processes, UNCHANGED <<state, inbox, goal>>,
         ReadyOK', ConnOK', ControlOK', ProcOK', ControlHere(p)', Others(p)
  PROVE  Summary(p)
<1>1. TypeOK'
  BY DEF TypeOK, ReadyOK, ConnOK, ControlOK, ProcOK
<1> QED BY <1>1, TruthfulQuiet DEF Summary

(* Starting netbench is a summarised step.                                 *)
LEMMA RunSpawnStep ==
  ASSUME TypeOK, Truthful, ControlInv, NEW w \in Workers, RunSpawn(w)
  PROVE  Summary(w)
<1>0. w \in Processes
  BY NAssumption DEF Workers, Processes
<1>1. HasGoal(w) /\ MoveStep(w)
  BY <1>0, RunsFacts DEF RunSpawn
<1>2. state'[At(w)] = NewState(w) /\ StateOK' /\ \A e \in Endpoints \ {At(w)} : state'[e] = state[e]
  BY <1>0, <1>1, MoveFacts
<1>3. ControlOK'
  BY <1>0, EndRunType DEF RunSpawn
<1>4. (UNCHANGED goal \/ SettleStep(w)) /\ ControlHere(w)' /\ Others(w)
  BY <1>0, <1>1, <1>2, EndRunFacts DEF RunSpawn
<1>5. TypeOK'
  BY <1>2, <1>3 DEF RunSpawn, netVars, TypeOK, StateOK, ControlOK
<1>6. Truthful'
  <2> SUFFICES ASSUME NEW x \in Endpoints, NEW i \in DOMAIN inbox[x]
               PROVE  RankOf(Peer(x), state'[Peer(x)]) >= RankOf(Peer(x), inbox[x][i])
    BY DEF RunSpawn, netVars, Truthful, Reached, RankOf
  <2>1. Peer(x) \in Endpoints /\ Peer(x)[1] = OtherSide(x[1])
    BY PeerFacts
  <2>2. inbox[x][i] \in States(Peer(x)[1])
    BY <2>1, ElementOfSeq, LenProperties DEF TypeOK
  <2>3. RankOf(Peer(x), inbox[x][i]) \in Nat
    BY <2>1, <2>2, RankType
  <2> QED BY <1>0, <1>1, <2>1, <2>3, RankGrows DEF Truthful, Reached
<1> QED BY <1>1, <1>4, <1>5, <1>6 DEF Summary

(* A process that starts to read has not reached its target, and its state *)
(* awaits a message.                                                       *)
LEMMA ReadingFacts ==
  ASSUME TypeOK, ControlInv, NEW p \in Processes, UNCHANGED state,
         Runs(p, "notify_await") \/ Runs(p, "await"), Reading(p)
  PROVE  UNCHANGED goal /\ ControlHere(p)' /\ Others(p)
<1>1. HasGoal(p) /\ ~AtTarget(p, At(p))
  BY DEF Runs, Polling, ControlInv, ControlHere
<1>2. Awaits(SideOf(p), state[At(p)])
  BY NextFacts, AtFacts, TableAssumption DEF Runs
<1>3. At(p)' = At(p)
  BY DEF Reading, At
<1> QED BY <1>1, <1>2, <1>3 DEF Reading, ControlHere, HasGoal, AtTarget, Target, Others, TypeOK

(* Waiting for the first message is a summarised step.                     *)
LEMMA RunAwaitStep ==
  ASSUME TypeOK, Truthful, ControlInv, NEW p \in Processes, RunAwait(p)
  PROVE  Summary(p)
<1>1. ControlOK' /\ UNCHANGED goal /\ ControlHere(p)' /\ Others(p)
  BY ReadingType, ReadingFacts DEF RunAwait
<1>2. ReadyOK' /\ ConnOK' /\ ProcOK' /\ UNCHANGED <<state, inbox>>
  BY DEF RunAwait, netVars, procVars, TypeOK, ReadyOK, ConnOK, ProcOK
<1> QED BY <1>1, <1>2, QuietStep

(* Notifying the peer and waiting for it is a summarised step.             *)
LEMMA RunNotifyAwaitStep ==
  ASSUME TypeOK, Truthful, ControlInv, NEW p \in Processes, RunNotifyAwait(p)
  PROVE  Summary(p)
<1> DEFINE s == state[At(p)]
           sent == <<s>>
<1>0. UNCHANGED state /\ s \in States(SideOf(p)) /\ At(p) \in Endpoints
  BY NextFacts, AtFacts DEF RunNotifyAwait
<1>1. sent \in Seq(States(SideOf(p))) /\ DOMAIN sent = {1} /\ sent[1] = s
  BY <1>0, OneMessage
<1>2. (Transmit(At(p), sent, inbox) /\ Reading(p)) \/ Panic(p, inbox)
  BY DEF RunNotifyAwait, Notify
<1>3. BoxOK(inbox)' /\ ConnOK' /\ Delivers(inbox, At(p), sent)
  BY <1>1, <1>2, TypeParts, NotifyNet
<1>4. RankOf(At(p), s) \in Nat /\ state'[At(p)] = s
  BY <1>0, AtFacts, RankType
<1>5. \A j \in DOMAIN sent : RankOf(At(p), sent[j]) <= RankOf(At(p), state'[At(p)])
  BY <1>1, <1>4
<1> HIDE DEF sent
<1>6. Truthful'
  BY <1>0, <1>1, <1>3, <1>5, TypeParts, TruthfulStep
<1>7. ControlOK' /\ UNCHANGED goal /\ ControlHere(p)' /\ Others(p)
  BY <1>0, <1>2, ReadingType, ReadingFacts, PanicType, PanicFacts DEF RunNotifyAwait
<1>8. TypeOK'
  BY <1>0, <1>3, <1>7 DEF RunNotifyAwait, procVars, TypeOK, BoxOK, ConnOK, ControlOK
<1> QED BY <1>0, <1>6, <1>7, <1>8 DEF Summary

(* Polling an instance at its target is a summarised step.                 *)
LEMMA PollAtTargetStep ==
  ASSUME TypeOK, Truthful, ControlInv, NEW p \in Processes, PollAtTarget(p)
  PROVE  Summary(p)
<1>1. HasGoal(p) /\ UNCHANGED <<state, inbox>>
  BY DEF PollAtTarget, Polling, ControlInv, ControlHere, netVars
<1>2. ControlOK' /\ (UNCHANGED goal \/ SettleStep(p)) /\ ControlHere(p)' /\ Others(p)
  BY <1>1, EndRunType, EndRunFacts DEF PollAtTarget
<1>3. TypeOK'
  BY <1>2 DEF PollAtTarget, netVars, procVars, TypeOK, ControlOK
<1> QED BY <1>1, <1>2, <1>3, TruthfulQuiet DEF Summary

(* A notification of the final state is a summarised step.                 *)
LEMMA NotifyFinishedStep ==
  ASSUME TypeOK, Truthful, ControlInv, NEW p \in Processes, NotifyFinished(p)
  PROVE  Summary(p)
<1> DEFINE s == state[At(p)]
           sent == <<s>>
<1>0. /\ UNCHANGED state /\ s \in States(SideOf(p)) /\ At(p) \in Endpoints
      /\ HasGoal(p)
  BY NextFacts, AtFacts DEF NotifyFinished, ControlInv, ControlHere
<1>1. sent \in Seq(States(SideOf(p))) /\ DOMAIN sent = {1} /\ sent[1] = s
  BY <1>0, OneMessage
<1>2. Transmit(At(p), sent, inbox)
  BY DEF NotifyFinished
<1>3. BoxOK(inbox)' /\ ConnOK' /\ Delivers(inbox, At(p), sent)
  BY <1>1, <1>2, TypeParts, NotifyNet
<1>4. RankOf(At(p), s) \in Nat /\ state'[At(p)] = s
  BY <1>0, AtFacts, RankType
<1>5. \A j \in DOMAIN sent : RankOf(At(p), sent[j]) <= RankOf(At(p), state'[At(p)])
  BY <1>1, <1>4
<1> HIDE DEF sent
<1>6. Truthful'
  BY <1>0, <1>1, <1>3, <1>5, TypeParts, TruthfulStep
<1>7. CASE count[p] > 1
  <2>1. count' = [count EXCEPT ![p] = @ - 1] /\ UNCHANGED <<pc, turn, goal>>
    BY <1>7 DEF NotifyFinished
  <2>2. count' \in [Processes -> Nat]
    BY <1>7, <2>1 DEF TypeOK
  <2>3. ControlOK'
    BY <2>1, <2>2 DEF ControlOK, TypeOK, First, Last
  <2>4. ControlHere(p)' /\ Others(p)
    BY <1>0, <2>1 DEF NotifyFinished, ControlHere, HasGoal, Others
  <2>5. TypeOK'
    BY <1>0, <1>3, <2>3 DEF NotifyFinished, procVars, TypeOK, BoxOK, ConnOK, ControlOK
  <2> QED BY <1>0, <1>6, <2>1, <2>4, <2>5 DEF Summary
<1>8. CASE ~(count[p] > 1)
  <2>1. NextInstance(p, s) /\ count' = [count EXCEPT ![p] = 0]
    BY <1>8 DEF NotifyFinished
  <2>2. count' \in [Processes -> Nat]
    BY <2>1 DEF TypeOK
  <2>3. ControlOK'
    BY <2>1, <2>2, NextInstanceType
  <2>4. (UNCHANGED goal \/ SettleStep(p)) /\ ControlHere(p)' /\ Others(p)
    BY <1>0, <1>4, <2>1, NextInstanceFacts
  <2>5. TypeOK'
    BY <1>0, <1>3, <2>3 DEF NotifyFinished, procVars, TypeOK, BoxOK, ConnOK, ControlOK
  <2> QED BY <1>0, <1>6, <2>4, <2>5 DEF Summary
<1> QED BY <1>7, <1>8

(* A message that matches names a state its sender has come to.            *)
LEMMA RecvMatchStep ==
  ASSUME TypeOK, Truthful, ControlInv, NEW p \in Processes, RecvMatch(p)
  PROVE  Summary(p)
<1> DEFINE e == At(p)
<1>0. /\ e \in Endpoints /\ e[1] = SideOf(p) /\ inbox[e] # <<>>
      /\ Waiting(p) /\ Matches(e, Head(inbox[e])) /\ Transition(p)
  BY AtFacts DEF RecvMatch
<1>1. /\ BoxOK(Popped(e)) /\ 1 \in DOMAIN inbox[e] /\ Head(inbox[e]) = inbox[e][1]
      /\ \A x \in Endpoints : \A j \in DOMAIN Popped(e)[x] :
           \E k \in DOMAIN inbox[x] : Popped(e)[x][j] = inbox[x][k]
  BY <1>0, PoppedBox, TypeParts
<1>2. Reached(Peer(e), Step[SideOf(p)][state[e]])
  BY <1>0, <1>1 DEF Truthful, Matches
<1>3. HasGoal(p) /\ MoveStep(p)
  BY <1>0, <1>2, WaitingFacts DEF MoveStep
<1>4. state'[e] = NewState(p)
  BY <1>3, MoveFacts
<1>5. Notify(p, <<state'[e]>>, Popped(e), EndRun(p, state'[e]))
  BY <1>4 DEF RecvMatch
<1>6. ReadyOK' /\ ProcOK'
  BY DEF RecvMatch, procVars, TypeOK, ReadyOK, ProcOK
<1> QED BY <1>1, <1>3, <1>5, <1>6, NotifyState

(* Reading a message that is not awaited is a summarised step.             *)
LEMMA RecvOtherStep ==
  ASSUME TypeOK, Truthful, ControlInv, NEW p \in Processes, RecvOther(p)
  PROVE  Summary(p)
<1> DEFINE e == At(p)
<1>0. e \in Endpoints /\ inbox[e] # <<>> /\ inbox' = Popped(e)
  BY AtFacts DEF RecvOther
<1>1. /\ BoxOK(Popped(e))
      /\ \A x \in Endpoints : \A j \in DOMAIN Popped(e)[x] :
           \E k \in DOMAIN inbox[x] : Popped(e)[x][j] = inbox[x][k]
  BY <1>0, PoppedBox, TypeParts
<1>2. Truthful'
  BY <1>0, <1>1, PeerFacts DEF Truthful, Reached, RankOf, RecvOther
<1>3. TypeOK'
  BY <1>0, <1>1 DEF RecvOther, procVars, TypeOK, BoxOK, First, Last
<1>4. ControlHere(p)' /\ Others(p)
  BY DEF RecvOther, ControlInv, ControlHere, HasGoal, AtTarget, Target, At, Others
<1> QED BY <1>2, <1>3, <1>4 DEF Summary, RecvOther

(* A read that finds nothing, or the end of the connection.                *)
LEMMA RecvNothingStep ==
  ASSUME TypeOK, Truthful, ControlInv, NEW p \in Processes, RecvBlocked(p) \/ RecvEof(p)
  PROVE  Summary(p)
<1>1. HasGoal(p) /\ UNCHANGED state
  BY WaitingFacts DEF RecvBlocked, RecvEof
<1>2. Notify(p, <<state'[At(p)]>>, inbox, EndRun(p, state'[At(p)]))
  BY <1>1 DEF RecvBlocked, RecvEof
<1>3. BoxOK(inbox) /\ ReadyOK' /\ ProcOK'
  BY DEF RecvBlocked, RecvEof, procVars, TypeOK, BoxOK, ReadyOK, ProcOK
<1> QED BY <1>1, <1>2, <1>3, NotifyState

(* A panic ends the process and sends nothing.                             *)
LEMMA PanicStep ==
  ASSUME TypeOK, Truthful, NEW p \in Processes, Panic(p, inbox),
         UNCHANGED <<state, ready, procVars>>
  PROVE  Summary(p)
<1>1. ControlOK' /\ UNCHANGED goal /\ ControlHere(p)' /\ Others(p)
  BY PanicType, PanicFacts
<1>2. UNCHANGED inbox /\ ConnOK' /\ ReadyOK' /\ ProcOK'
  BY ShutdownType, TypeParts DEF Panic, procVars, ReadyOK, ProcOK
<1> QED BY <1>1, <1>2, QuietStep

(* Calling run_till_<target> is a summarised step.                         *)
LEMMA CallStep ==
  ASSUME TypeOK, Truthful, NEW p \in Processes, Call(p)
  PROVE  Summary(p)
<1>1. TypeOK'
  BY DEF Call, netVars, procVars, TypeOK, First, Last
<1>2. ControlHere(p)' /\ Others(p)
  BY DEF Call, ControlHere, HasGoal, Others, TypeOK
<1> QED BY <1>1, <1>2, TruthfulQuiet DEF Summary, Call, netVars

(* The end of a process, by Close or Crash.                                *)
LEMMA EndStep ==
  ASSUME TypeOK, Truthful, NEW p \in Processes, Close(p) \/ Crash(p)
  PROVE  Summary(p)
<1>1. UNCHANGED <<state, inbox, goal, ready, procVars, turn, count>> /\ Shutdown(p, inbox)
  BY DEF Close, Crash
<1>2. pc' = [pc EXCEPT ![p] = "closed"] \/ pc' = [pc EXCEPT ![p] = "crashed"]
  BY DEF Close, Crash
<1>3. ConnOK' /\ ReadyOK' /\ ProcOK'
  BY <1>1, ShutdownType, TypeParts DEF procVars, ReadyOK, ProcOK
<1>4. ControlOK'
  BY <1>1, <1>2 DEF ControlOK, TypeOK, Halted, First, Last
<1>5. ControlHere(p)' /\ Others(p)
  BY <1>1, <1>2 DEF ControlHere, Others, TypeOK
<1> QED BY <1>1, <1>3, <1>4, <1>5, QuietStep

(* The messages a coordinator is left with when a host is lost are the     *)
(* first ones of those it had.                                             *)
LEMMA VanishBox ==
  ASSUME BoxOK(inbox), NEW w \in Workers, Vanish(w)
  PROVE  /\ BoxOK(inbox)'
         /\ \A x \in Endpoints : \A j \in DOMAIN inbox'[x] :
              \E k \in DOMAIN inbox[x] : inbox'[x][j] = inbox[x][k]
<1> DEFINE e == <<"coord", w>>
           S == States(OtherSide(e[1]))
<1>0. e \in Endpoints
  BY DEF Endpoints, Sides
<1>1. inbox[e] \in Seq(S) /\ inbox[e] \in Seq(AllStates)
  BY <1>0 DEF BoxOK
<1>2. PICK n \in 0..Len(inbox[e]) : inbox' = [inbox EXCEPT ![e] = SubSeq(@, 1, n)]
  BY DEF Vanish
<1>3. /\ Len(inbox[e]) \in Nat /\ DOMAIN inbox[e] = 1..Len(inbox[e])
      /\ SubSeq(inbox[e], 1, n) \in Seq(S) /\ SubSeq(inbox[e], 1, n) \in Seq(AllStates)
      /\ DOMAIN SubSeq(inbox[e], 1, n) = 1..n
      /\ \A j \in 1..n : SubSeq(inbox[e], 1, n)[j] = inbox[e][j]
  <2>1. Len(inbox[e]) \in Nat /\ DOMAIN inbox[e] = 1..Len(inbox[e])
    BY <1>1, LenProperties
  <2>2. n \in Nat /\ n <= Len(inbox[e])
    BY <1>2, <2>1
  <2>3. \A i \in 1..n : inbox[e][i] \in S /\ inbox[e][i] \in AllStates
    BY <1>1, <2>1, <2>2, ElementOfSeq
  <2>4. /\ SubSeq(inbox[e], 1, n) \in Seq(S) /\ SubSeq(inbox[e], 1, n) \in Seq(AllStates)
        /\ Len(SubSeq(inbox[e], 1, n)) = n
        /\ \A j \in 1..n : SubSeq(inbox[e], 1, n)[j] = inbox[e][j]
    BY <1>1, <2>1, <2>2, <2>3, SubSeqProperties
  <2>5. DOMAIN SubSeq(inbox[e], 1, n) = 1..n
    BY <2>4, LenProperties
  <2> QED BY <2>1, <2>4, <2>5
<1>4. \A x \in Endpoints : inbox'[x] = IF x = e THEN SubSeq(inbox[e], 1, n) ELSE inbox[x]
  BY <1>2 DEF BoxOK
<1>5. BoxOK(inbox)'
  BY <1>2, <1>3, <1>4 DEF BoxOK
<1>6. ASSUME NEW x \in Endpoints, NEW j \in DOMAIN inbox'[x]
      PROVE  \E k \in DOMAIN inbox[x] : inbox'[x][j] = inbox[x][k]
  <2>1. CASE x = e
    <3>1. inbox'[x] = SubSeq(inbox[e], 1, n) /\ inbox[x] = inbox[e]
      BY <1>4, <2>1
    <3>2. j \in 1..n
      BY <1>3, <3>1
    <3>3. j \in 1..Len(inbox[e])
      BY <1>2, <1>3, <3>2
    <3>4. j \in DOMAIN inbox[x] /\ inbox'[x][j] = inbox[x][j]
      BY <1>3, <3>1, <3>2, <3>3
    <3> HIDE DEF e, S
    <3> QED BY <3>4
  <2>2. CASE x # e
    <3>1. inbox'[x] = inbox[x]
      BY <1>4, <2>2
    <3> QED BY <3>1
  <2> QED BY <2>1, <2>2
<1> QED BY <1>5, <1>6

(* The loss of a host is a summarised step of its worker.                  *)
LEMMA VanishStep ==
  ASSUME TypeOK, Truthful, NEW w \in Workers, Vanish(w)
  PROVE  Summary(w)
<1>0. w \in Processes
  BY NAssumption DEF Workers, Processes
<1>1. /\ UNCHANGED <<state, goal, ready, procVars, turn, count>>
      /\ pc' = [pc EXCEPT ![w] = "crashed"]
  BY DEF Vanish
<1>2. ConnOK'
  BY TypeParts DEF Vanish, ConnOK, Alive
<1>3. ReadyOK' /\ ProcOK' /\ ControlOK' /\ StateOK'
  BY <1>1, TypeParts DEF procVars, ReadyOK, ProcOK, ControlOK, StateOK, Halted, First, Last
<1>4. /\ BoxOK(inbox)'
      /\ \A x \in Endpoints : \A j \in DOMAIN inbox'[x] :
           \E k \in DOMAIN inbox[x] : inbox'[x][j] = inbox[x][k]
  BY VanishBox, TypeParts
<1>5. Truthful'
  BY <1>1, <1>4, PeerFacts DEF Truthful, Reached, RankOf
<1>6. TypeOK'
  BY <1>2, <1>3, <1>4 DEF TypeOK, ReadyOK, ConnOK, ControlOK, ProcOK, StateOK, BoxOK
<1>7. ControlHere(w)' /\ Others(w)
  BY <1>0, <1>1 DEF ControlHere, Others, TypeOK
<1> QED BY <1>1, <1>5, <1>6, <1>7 DEF Summary

(* A worker's bind and accept are summarised steps.                        *)
LEMMA BindStep ==
  ASSUME TypeOK, Truthful, NEW w \in Workers, Bind(w) \/ Accept(w)
  PROVE  Summary(w)
<1>0. w \in Processes
  BY NAssumption DEF Workers, Processes
<1>1. pc' = [pc EXCEPT ![w] = "accept"] \/ pc' = [pc EXCEPT ![w] = "idle"]
  BY DEF Bind, Accept
<1>2. /\ UNCHANGED <<state, inbox, conn, goal, ready, procVars, turn>>
      /\ count' = count \/ count' = [count EXCEPT ![w] = 0]
  BY DEF Bind, Accept, netVars
<1>3. ReadyOK' /\ ConnOK' /\ ProcOK'
  BY <1>2, TypeParts DEF ReadyOK, ConnOK, ProcOK, procVars
<1>4. ControlOK'
  <2>1. ControlOK
    BY TypeParts
  <2>2. pc' \in [Processes -> {"bind", "accept", "connect", "idle", "poll", "recv", "finish"} \cup Halted]
    BY <1>1, <2>1 DEF ControlOK
  <2>3. count' \in [Processes -> Nat]
    BY <1>2, <2>1 DEF ControlOK
  <2>4. UNCHANGED <<turn, goal>>
    BY <1>2
  <2> QED BY <2>1, <2>2, <2>3, <2>4 DEF ControlOK
<1>5. ControlHere(w)' /\ Others(w)
  BY <1>0, <1>1, <1>2 DEF ControlHere, Others, TypeOK
<1> QED BY <1>0, <1>2, <1>3, <1>4, <1>5, QuietStep

(* So is a failed accept: what was sent to the worker is gone.             *)
LEMMA AcceptFailsStep ==
  ASSUME TypeOK, Truthful, NEW w \in Workers, AcceptFails(w)
  PROVE  Summary(w)
<1> DEFINE e == <<"worker", w>>
<1>0. w \in Processes /\ e \in Endpoints /\ count[w] - 1 \in Nat
  <2>1. w \in Processes /\ e \in Endpoints
    BY NAssumption DEF Workers, Processes, Endpoints, Sides
  <2>2. count[w] \in Nat /\ count[w] > 0
    BY <2>1 DEF TypeOK, AcceptFails
  <2> QED BY <2>1, <2>2
<1>1. /\ UNCHANGED <<state, goal, ready, procVars, turn>>
      /\ pc' = [pc EXCEPT ![w] = "bind"]
      /\ count' = [count EXCEPT ![w] = @ - 1]
      /\ inbox' = [inbox EXCEPT ![e] = <<>>]
  BY DEF AcceptFails
<1>2. ConnOK'
  BY TypeParts DEF AcceptFails, ConnOK, Alive
<1>3. ReadyOK' /\ ProcOK' /\ ControlOK' /\ StateOK'
  BY <1>0, <1>1, TypeParts DEF procVars, ReadyOK, ProcOK, ControlOK, StateOK, First, Last
<1>4. BoxOK(inbox)'
  <2>1. <<>> \in Seq(AllStates) /\ <<>> \in Seq(States(OtherSide(e[1])))
    BY EmptySeq
  <2> QED BY <1>1, <2>1, TypeParts DEF BoxOK
<1>5. Truthful'
  <2>1. \A x \in Endpoints : inbox'[x] = <<>> \/ inbox'[x] = inbox[x]
    BY <1>1 DEF TypeOK
  <2>2. DOMAIN <<>> = {}
    BY EmptySeq
  <2> QED BY <1>1, <2>1, <2>2 DEF Truthful, Reached, RankOf
<1>6. TypeOK'
  BY <1>2, <1>3, <1>4 DEF TypeOK, ReadyOK, ConnOK, ControlOK, ProcOK, StateOK, BoxOK
<1>7. ControlHere(w)' /\ Others(w)
  BY <1>0, <1>1 DEF ControlHere, Others, TypeOK
<1> QED BY <1>1, <1>5, <1>6, <1>7 DEF Summary

(* Connecting to a worker is a summarised step.                            *)
LEMMA ConnectStep ==
  ASSUME TypeOK, Truthful, Connect
  PROVE  Summary(Coordinator)
<1> DEFINE w == turn[Coordinator]
<1>0. /\ Coordinator \in Processes /\ First(Coordinator) = 1 /\ Last(Coordinator) = N
      /\ N \in Nat /\ 1 <= N /\ w \in Nat /\ 1 <= w /\ w <= N
      /\ \A q \in Processes : First(q) <= turn[q] /\ turn[q] <= Last(q)
  BY NAssumption DEF Processes, Coordinator, TypeOK, First, Last
<1>1. ConnOK'
  BY DEF Connect, TypeOK, ConnOK, Alive
<1>2. /\ UNCHANGED <<state, inbox, goal, ready, procVars>>
      /\ ReadyOK' /\ ProcOK'
  BY DEF Connect, TypeOK, procVars, ReadyOK, ProcOK
<1>3. CASE w = N
  <2>1. /\ pc' = [pc EXCEPT ![Coordinator] = "idle"]
        /\ turn' = [turn EXCEPT ![Coordinator] = 1]
        /\ count' = [count EXCEPT ![Coordinator] = 0]
    BY <1>0, <1>3 DEF Connect
  <2>2. \A q \in Processes : First(q) <= turn'[q] /\ turn'[q] <= Last(q)
    BY <2>1, <1>0 DEF TypeOK
  <2>3. ControlOK'
    BY <2>1, <2>2, <1>2 DEF TypeOK, ControlOK, First, Last
  <2>4. ControlHere(Coordinator)' /\ Others(Coordinator)
    BY <2>1, <1>0 DEF ControlHere, Others, TypeOK
  <2> QED BY <1>0, <1>1, <1>2, <2>3, <2>4, QuietStep
<1>4. CASE w # N
  <2>1. /\ pc' = pc
        /\ turn' = [turn EXCEPT ![Coordinator] = w + 1]
        /\ count' = [count EXCEPT ![Coordinator] = RetryAttempts]
    BY <1>4 DEF Connect
  <2>2. \A q \in Processes : First(q) <= turn'[q] /\ turn'[q] <= Last(q)
    <3> SUFFICES ASSUME NEW q \in Processes
                 PROVE  First(q) <= turn'[q] /\ turn'[q] <= Last(q)
      OBVIOUS
    <3>1. CASE q = Coordinator
      BY <3>1, <2>1, <1>0, <1>4 DEF TypeOK
    <3>2. CASE q # Coordinator
      BY <3>2, <2>1, <1>0 DEF TypeOK
    <3> QED BY <3>1, <3>2
  <2>3. turn' \in [Processes -> Nat] /\ count' \in [Processes -> Nat]
    BY <2>1, <1>0, BoundsAssumption DEF TypeOK
  <2>4. ControlOK'
    BY <2>1, <2>2, <2>3, <1>2 DEF TypeOK, ControlOK, First, Last
  <2>5. ControlHere(Coordinator)' /\ Others(Coordinator)
    BY <2>1, <1>0 DEF ControlHere, Others, TypeOK, Connect
  <2> QED BY <1>0, <1>1, <1>2, <2>4, <2>5, QuietStep
<1> QED BY <1>3, <1>4

(* A refused attempt to connect is a summarised step.                      *)
LEMMA ConnectRefusedStep ==
  ASSUME TypeOK, Truthful, ConnectRefused
  PROVE  Summary(Coordinator)
<1>0. Coordinator \in Processes
  BY NAssumption DEF Processes, Coordinator
<1>1. count' \in [Processes -> Nat]
  BY <1>0 DEF ConnectRefused, TypeOK
<1>2. TypeOK'
  BY <1>1 DEF ConnectRefused, netVars, procVars, TypeOK, First, Last
<1>3. ControlHere(Coordinator)' /\ Others(Coordinator)
  BY DEF ConnectRefused, ControlHere, Others
<1> QED BY <1>2, <1>3, TruthfulQuiet DEF Summary, ConnectRefused, netVars

(* The steps of the environment.                                           *)
LEMMA ExitStep ==
  ASSUME TypeOK, Truthful, NEW w \in Workers, Exit(w)
  PROVE  TypeOK' /\ Truthful' /\ UNCHANGED <<state, goal, pc, turn>>
<1>1. TypeOK'
  BY DEF Exit, netVars, TypeOK, First, Last
<1> QED BY <1>1, TruthfulQuiet DEF Exit, netVars

(* The arrival of a reset changes no state, message, goal or pc.           *)
LEMMA ResetStep ==
  ASSUME TypeOK, Truthful, NEW e \in Endpoints, ResetArrives(e)
  PROVE  TypeOK' /\ Truthful' /\ UNCHANGED <<state, goal, pc, turn>>
<1>1. TypeOK'
  BY DEF ResetArrives, procVars, TypeOK, Alive, First, Last
<1> QED BY <1>1, TruthfulQuiet DEF ResetArrives

(* Nor does a timeout of the coordinator's kernel.                         *)
LEMMA TimesOutStep ==
  ASSUME TypeOK, Truthful, NEW w \in Workers, TimesOut(w)
  PROVE  TypeOK' /\ Truthful' /\ UNCHANGED <<state, goal, pc, turn>>
<1>1. TypeOK'
  BY DEF TimesOut, procVars, TypeOK, Alive, First, Last
<1> QED BY <1>1, TruthfulQuiet DEF TimesOut

--------------------------------------------------------------------------------
(* Every step is one of a process, or of the environment.                  *)
LEMMA PollStep ==
  ASSUME TypeOK, Truthful, ControlInv, NEW p \in Processes, Poll(p)
  PROVE  Summary(p)
<1>1. CASE Call(p)
  BY <1>1, CallStep
<1>2. CASE PollAtTarget(p)
  BY <1>2, PollAtTargetStep
<1>3. CASE NotifyFinished(p)
  BY <1>3, NotifyFinishedStep
<1>4. CASE RunNotifyAwait(p)
  BY <1>4, RunNotifyAwaitStep
<1>5. CASE RunAdvance(p)
  BY <1>5, RunAdvanceStep
<1>6. CASE RecvMatch(p)
  BY <1>6, RecvMatchStep
<1>7. CASE RecvOther(p)
  BY <1>7, RecvOtherStep
<1>8. CASE RecvBlocked(p) \/ RecvEof(p)
  BY <1>8, RecvNothingStep
<1>9. CASE RecvReset(p)
  BY <1>9, PanicStep DEF RecvReset
<1>10. CASE Close(p)
  BY <1>10, EndStep
<1> QED BY <1>1, <1>2, <1>3, <1>4, <1>5, <1>6, <1>7, <1>8, <1>9, <1>10 DEF Poll

(* Every step of the coordinator is a summarised step.                     *)
LEMMA CoordinatorStepSummary ==
  ASSUME TypeOK, Truthful, ControlInv, CoordinatorStep
  PROVE  Summary(Coordinator)
<1>0. Coordinator \in Processes
  BY NAssumption DEF Processes, Coordinator
<1>1. CASE BuildGivesUp(Coordinator)
  BY <1>0, <1>1, PanicStep DEF BuildGivesUp
<1> QED BY <1>0, <1>1, ConnectStep, ConnectRefusedStep, PollStep DEF CoordinatorStep

(* Every step of a worker is a summarised step.                            *)
LEMMA WorkerStepSummary ==
  ASSUME TypeOK, Truthful, ControlInv, NEW w \in Workers, WorkerStep(w)
  PROVE  Summary(w)
<1>0. w \in Processes
  BY NAssumption DEF Workers, Processes
<1>1. CASE Bind(w) \/ Accept(w)
  BY <1>1, BindStep
<1>2. CASE Poll(w)
  BY <1>0, <1>2, PollStep
<1>3. CASE RunAwait(w)
  BY <1>0, <1>3, RunAwaitStep
<1>4. CASE RunSpawn(w)
  BY <1>4, RunSpawnStep
<1>5. CASE RunKill(w)
  BY <1>5, RunKillStep
<1>6. CASE RunJoinBusy(w) \/ RunJoined(w)
  BY <1>6, RunJoinBusyStep, RunJoinedStep
<1>7. CASE SpawnFails(w) \/ BindFails(w) \/ BuildGivesUp(w)
  BY <1>0, <1>7, PanicStep DEF SpawnFails, BindFails, BuildGivesUp
<1>8. CASE AcceptFails(w)
  BY <1>8, AcceptFailsStep
<1> QED BY <1>1, <1>2, <1>3, <1>4, <1>5, <1>6, <1>7, <1>8 DEF WorkerStep

Quiet == TypeOK' /\ Truthful' /\ UNCHANGED <<state, goal, pc, turn>>

(* Every step of Russula is a summarised step or quiet.                    *)
LEMMA NextSummary ==
  ASSUME TypeOK, Truthful, ControlInv, [Next]_vars
  PROVE  Quiet \/ \E p \in Processes : Summary(p)
<1>0. /\ Coordinator \in Processes /\ Workers \subseteq Processes /\ Mortal \subseteq Processes
      /\ MayVanish \subseteq Workers
  BY NAssumption, BoundsAssumption DEF Processes, Coordinator, Workers
<1>1. CASE CoordinatorStep
  BY <1>0, <1>1, CoordinatorStepSummary
<1>2. ASSUME NEW w \in Workers, WorkerStep(w) \/ Exit(w)
      PROVE  Quiet \/ \E p \in Processes : Summary(p)
  BY <1>0, <1>2, WorkerStepSummary, ExitStep DEF Quiet
<1>3. ASSUME NEW p \in Mortal, Crash(p)
      PROVE  Quiet \/ \E q \in Processes : Summary(q)
  BY <1>0, <1>3, EndStep
<1>4. ASSUME NEW e \in Endpoints, ResetArrives(e)
      PROVE  Quiet
  BY <1>4, ResetStep DEF Quiet
<1>5. CASE UNCHANGED vars
  <2>1. UNCHANGED <<state, inbox, ready, conn, pc, turn, count, goal, proc, pid, busy>>
    BY <1>5 DEF vars
  <2>2. TypeOK'
    BY <2>1 DEF TypeOK, First, Last
  <2> QED BY <2>1, <2>2, TruthfulQuiet DEF Quiet
<1>6. ASSUME NEW w \in MayVanish, Vanish(w) \/ TimesOut(w)
      PROVE  Quiet \/ \E p \in Processes : Summary(p)
  BY <1>0, <1>6, VanishStep, TimesOutStep DEF Quiet
<1> QED BY <1>1, <1>2, <1>3, <1>4, <1>5, <1>6 DEF Next, Terminating

--------------------------------------------------------------------------------
(* What a step of one process leaves of the invariant.                     *)
LEMMA OthersKept ==
  ASSUME TypeOK, NEW p \in Processes, Summary(p), NEW q \in Processes \ {p}
  PROVE  /\ goal'[q] = goal[q]
         /\ \A e \in Instances(q) : state'[e] = state[e]
<1>1. goal'[q] = goal[q]
  BY DEF Summary, SettleStep, TypeOK
<1>2. ASSUME NEW e \in Instances(q) PROVE state'[e] = state[e]
  <2>1. e \in Endpoints /\ e # At(p)
    BY AtFacts DEF Instances
  <2> QED BY <2>1, MoveFacts DEF Summary
<1> QED BY <1>1, <1>2

(* A summarised step preserves ControlInv.                                 *)
LEMMA ControlKept ==
  ASSUME TypeOK, ControlInv, NEW p \in Processes, Summary(p)
  PROVE  ControlInv'
<1> SUFFICES ASSUME NEW q \in Processes \ {p} PROVE ControlHere(q)'
  BY DEF ControlInv, Summary
<1>1. pc'[q] = pc[q] /\ turn'[q] = turn[q] /\ goal'[q] = goal[q]
  BY OthersKept DEF Summary, Others
<1>2. At(q)' = At(q) /\ state'[At(q)] = state[At(q)]
  BY <1>1, AtFacts, OthersKept DEF At
<1> QED BY <1>1, <1>2 DEF ControlInv, ControlHere, HasGoal, AtTarget, Target

(* A step that awaits its peer before it moves preserves InStep.           *)
LEMMA InStepKept ==
  ASSUME TypeOK, InStep, NEW p \in Processes, UNCHANGED state \/ MoveStep(p)
  PROVE  InStep'
<1> SUFFICES ASSUME NEW e \in Endpoints, NEW s \in States(e[1]), Awaits(e[1], s),
                    RankOf(e, state'[e]) > RankOf(e, s)
             PROVE  RankOf(Peer(e), state'[Peer(e)]) >= RankOf(Peer(e), Step[e[1]][s])
  BY DEF InStep, Ahead, Reached, RankOf
<1> DEFINE m == Step[e[1]][s]
<1>0. Peer(e) \in Endpoints /\ Peer(e) # e /\ Peer(e)[1] = OtherSide(e[1]) /\ e[1] \in Sides
  BY PeerFacts
<1>1. RankOf(Peer(e), m) \in Nat /\ RankOf(e, s) \in Nat
  <2>1. m \in States(Peer(e)[1])
    BY <1>0, TableAssumption DEF Awaits
  <2> QED BY <1>0, <2>1, RankType
<1>2. SUFFICES Reached(Peer(e), m)
  BY <1>0, <1>1, RankGrows DEF Reached
<1>3. CASE RankOf(e, state[e]) > RankOf(e, s)
  BY <1>3 DEF InStep, Ahead
<1>4. CASE ~(RankOf(e, state[e]) > RankOf(e, s))
  <2>1. MoveStep(p) /\ e = At(p)
    BY <1>4, MoveFacts
  <2>2. RankOf(e, state'[e]) = RankOf(e, state[e]) + 1 /\ state[e] \in States(e[1])
        /\ RankOf(e, state[e]) \in Nat
    BY <2>1, MoveFacts, RankGrows
  <2>3. RankOf(e, state[e]) = RankOf(e, s)
    BY <1>1, <1>4, <2>2
  <2>4. state[e] = s
    BY <1>0, <2>2, <2>3, PathAssumption DEF RankOf
  <2> QED BY <2>1, <2>4, AtFacts DEF MoveStep
<1> QED BY <1>3, <1>4

(* The targets of a process lie in order on its instances' path.           *)
LEMMA TargetFacts ==
  ASSUME NEW q \in Processes, NEW e \in Instances(q)
  PROVE  /\ e \in Endpoints /\ e[1] = SideOf(q) /\ SideOf(q) \in Sides
         /\ Len(Targets[SideOf(q)]) \in Nat
         /\ \A i \in 1..Len(Targets[SideOf(q)]) :
              TargetOf(q, i) \in States(e[1]) /\ RankOf(e, TargetOf(q, i)) \in Nat
         /\ \A i, j \in 1..Len(Targets[SideOf(q)]) :
              i <= j => RankOf(e, TargetOf(q, i)) <= RankOf(e, TargetOf(q, j))
<1>1. e \in Endpoints /\ e[1] = SideOf(q) /\ SideOf(q) \in Sides
  BY PeerFacts DEF Instances
<1>2. Targets[SideOf(q)] \in Seq(States(e[1]))
  BY <1>1, TableAssumption
<1>3. /\ Len(Targets[SideOf(q)]) \in Nat
      /\ DOMAIN Targets[SideOf(q)] = 1..Len(Targets[SideOf(q)])
      /\ \A i \in 1..Len(Targets[SideOf(q)]) : TargetOf(q, i) \in States(e[1])
  BY <1>2 DEF TargetOf
<1> QED BY <1>1, <1>3, RankType, PathAssumption DEF RankOf, TargetOf

(* A summarised step preserves GoalInv.                                    *)
LEMMA GoalKept ==
  ASSUME TypeOK, GoalInv, NEW p \in Processes, UNCHANGED goal \/ SettleStep(p)
  PROVE  GoalInv'
<1> SUFFICES ASSUME NEW q \in Processes PROVE goal'[q] <= Len(Targets[SideOf(q)]) + 1
  BY DEF GoalInv
<1>1. goal[q] \in Nat /\ goal[q] <= Len(Targets[SideOf(q)]) + 1
  BY DEF GoalInv, TypeOK
<1>2. CASE q # p \/ UNCHANGED goal
  BY <1>1, <1>2 DEF SettleStep, TypeOK
<1>3. CASE q = p /\ SettleStep(p)
  <2>1. goal'[q] = goal[q] + 1 /\ goal[q] <= Len(Targets[SideOf(q)])
    BY <1>3 DEF SettleStep, HasGoal, TypeOK
  <2>2. Len(Targets[SideOf(q)]) \in Nat
    BY TableAssumption DEF SideOf, Sides
  <2> QED BY <1>1, <2>1, <2>2
<1> QED BY <1>2, <1>3

(* The heart of the barrier: an instance moves only while it is short of   *)
(* the target, and the target changes only when every instance is at it.   *)
LEMMA BarrierKept ==
  ASSUME TypeOK, GoalInv, Barrier, NEW p \in Processes, Summary(p)
  PROVE  Barrier'
<1> SUFFICES ASSUME NEW q \in Processes, NEW e \in Instances(q)
             PROVE  /\ \A i \in 1..(goal'[q] - 1) :
                         RankOf(e, state'[e]) >= RankOf(e, TargetOf(q, i))
                    /\ goal'[q] <= Len(Targets[SideOf(q)]) =>
                         ~(RankOf(e, state'[e]) > RankOf(e, TargetOf(q, goal'[q])))
  BY DEF Barrier, Reached, Ahead, RankOf, HasGoal, Target
<1> DEFINE L == Len(Targets[SideOf(q)])
           T(i) == TargetOf(q, i)
<1>0. /\ e \in Endpoints /\ L \in Nat /\ goal[q] \in Nat \ {0} /\ goal[q] <= L + 1
      /\ \A i \in 1..L : T(i) \in States(e[1]) /\ RankOf(e, T(i)) \in Nat
      /\ \A i, j \in 1..L : i <= j => RankOf(e, T(i)) <= RankOf(e, T(j))
  BY TargetFacts DEF TypeOK, GoalInv
<1>1. /\ \A i \in 1..(goal[q] - 1) : RankOf(e, state[e]) >= RankOf(e, T(i))
      /\ goal[q] <= L => ~(RankOf(e, state[e]) > RankOf(e, T(goal[q])))
  BY DEF Barrier, Reached, Ahead, HasGoal, Target
<1>2. /\ RankOf(e, state[e]) \in Nat /\ RankOf(e, state'[e]) \in Nat
      /\ RankOf(e, state[e]) <= RankOf(e, state'[e])
      /\ state[e] \in States(e[1])
  BY <1>0, RankGrows DEF Summary
<1>3. \A i \in 1..(goal[q] - 1) : RankOf(e, state'[e]) >= RankOf(e, T(i))
  <2> TAKE i \in 1..(goal[q] - 1)
  <2>1. i \in 1..L
    BY <1>0
  <2>2. RankOf(e, T(i)) \in Nat /\ RankOf(e, state[e]) >= RankOf(e, T(i))
    BY <1>0, <1>1, <2>1
  <2> QED BY <1>2, <2>2
<1>4. CASE q # p
  BY <1>1, <1>4, OthersKept
<1>5. CASE q = p /\ UNCHANGED goal
  <2>1. ASSUME goal[q] <= L
        PROVE  ~(RankOf(e, state'[e]) > RankOf(e, T(goal[q])))
    <3>1. CASE state'[e] = state[e]
      BY <1>1, <2>1, <3>1
    <3>2. CASE state'[e] # state[e]
      <4>1. MoveStep(p) /\ e = At(p)
        BY <1>0, <3>2, MoveFacts DEF Summary
      <4>2. RankOf(e, state'[e]) = RankOf(e, state[e]) + 1 /\ state[e] # T(goal[q])
        BY <1>5, <4>1, MoveFacts DEF MoveStep, AtTarget, Target
      <4>3. goal[q] \in 1..L
        BY <1>0, <2>1
      <4>4. T(goal[q]) \in States(e[1]) /\ RankOf(e, T(goal[q])) \in Nat
        BY <1>0, <4>3
      <4>5. RankOf(e, state[e]) # RankOf(e, T(goal[q]))
        BY <1>0, <1>2, <4>2, <4>4, PeerFacts, PathAssumption DEF RankOf
      <4> QED BY <1>1, <1>2, <2>1, <4>2, <4>4, <4>5
    <3> QED BY <3>1, <3>2
  <2> QED BY <1>3, <1>5, <2>1
<1>6. CASE q = p /\ SettleStep(p)
  <2>1. goal'[q] = goal[q] + 1 /\ goal[q] <= L /\ state'[e] = T(goal[q])
    BY <1>6 DEF SettleStep, HasGoal, Target, TypeOK
  <2>2. RankOf(e, state'[e]) = RankOf(e, T(goal[q])) /\ goal[q] \in 1..L
    BY <1>0, <2>1
  <2>3. ASSUME NEW i \in 1..(goal'[q] - 1)
        PROVE  RankOf(e, state'[e]) >= RankOf(e, T(i))
    <3>1. i \in 1..(goal[q] - 1) \/ i = goal[q]
      BY <1>0, <2>1
    <3> QED BY <1>2, <1>3, <2>2, <3>1
  <2>4. ASSUME goal'[q] <= L
        PROVE  ~(RankOf(e, state'[e]) > RankOf(e, T(goal'[q])))
    <3>1. goal'[q] \in 1..L /\ goal[q] <= goal'[q]
      BY <1>0, <2>1, <2>4
    <3>2. RankOf(e, T(goal[q])) <= RankOf(e, T(goal'[q]))
      BY <1>0, <2>2, <3>1
    <3>3. RankOf(e, T(goal'[q])) \in Nat
      BY <1>0, <3>1
    <3> HIDE DEF T
    <3> QED BY <1>2, <2>2, <3>2, <3>3
  <2> QED BY <2>3, <2>4
<1> QED BY <1>4, <1>5, <1>6 DEF Summary

(* A step of the environment.                                              *)
LEMMA QuietKept ==
  ASSUME ControlInv, GoalInv, InStep, Barrier, Quiet
  PROVE  ControlInv' /\ GoalInv' /\ InStep' /\ Barrier'
<1>1. UNCHANGED <<state, goal, pc, turn>>
  BY DEF Quiet
<1>2. ControlInv'
  BY <1>1 DEF ControlInv, ControlHere, HasGoal, AtTarget, Target, At
<1>3. GoalInv' /\ InStep' /\ Barrier'
  BY <1>1 DEF GoalInv, InStep, Barrier, Ahead, Reached, RankOf, HasGoal, Target
<1> QED BY <1>2, <1>3

--------------------------------------------------------------------------------
(* The invariant holds initially.                                          *)
LEMMA InitInvariant == Init => IInv
<1> SUFFICES ASSUME Init PROVE IInv
  OBVIOUS
<1>0. \A e \in Endpoints : e[1] \in Sides /\ state[e] = Initial[e[1]] /\ inbox[e] = <<>>
  BY PeerFacts DEF Init
<1>1. \A e \in Endpoints :
        /\ state[e] \in States(e[1]) /\ state[e] \in AllStates
        /\ RankOf(e, state[e]) = 0
        /\ inbox[e] \in Seq(AllStates) /\ inbox[e] \in Seq(States(OtherSide(e[1])))
  <2> TAKE e \in Endpoints
  <2>1. e[1] \in Sides /\ state[e] = Initial[e[1]] /\ inbox[e] = <<>>
    BY <1>0
  <2>2. state[e] \in States(e[1]) /\ RankOf(e, state[e]) = 0
    BY <2>1, TableAssumption, PathAssumption DEF RankOf
  <2>3. state[e] \in AllStates
    BY <2>1, <2>2 DEF AllStates, Sides
  <2> QED BY <2>1, <2>2, <2>3, EmptySeq
<1>2. TypeOK
  <2>1. StateOK /\ BoxOK(inbox) /\ ReadyOK /\ ConnOK
    BY <1>0, <1>1 DEF Init, StateOK, BoxOK, ReadyOK, ConnOK
  <2>2. ControlOK
    <3>1. \A p \in Processes : First(p) \in Nat /\ First(p) <= Last(p)
      BY BoundsFacts
    <3> QED BY <3>1, BoundsAssumption DEF Init, Start, ControlOK
  <2>3. ProcOK
    BY BoundsAssumption DEF Init, ProcOK
  <2> QED BY <2>1, <2>2, <2>3, TypeParts
<1>3. ControlInv
  BY DEF Init, Start, ControlInv, ControlHere
<1>4. GoalInv
  <2>1. \A p \in Processes : Len(Targets[SideOf(p)]) \in Nat /\ goal[p] = 1
    BY TableAssumption DEF SideOf, Sides, Init
  <2> QED BY <2>1 DEF GoalInv
<1>5. Truthful
  BY <1>0 DEF Truthful
<1>6. InStep
  <2> SUFFICES ASSUME NEW e \in Endpoints, NEW s \in States(e[1])
               PROVE  ~Ahead(e, s)
    BY DEF InStep
  <2> QED BY <1>1, RankType DEF Ahead
<1>7. Barrier
  <2> SUFFICES ASSUME NEW p \in Processes, NEW e \in Instances(p), goal[p] = 1
               PROVE  /\ \A i \in 1..(goal[p] - 1) : Reached(e, TargetOf(p, i))
                      /\ HasGoal(p) => ~Ahead(e, Target(p))
    BY DEF Barrier, Init
  <2>1. e \in Endpoints /\ (HasGoal(p) => RankOf(e, Target(p)) \in Nat)
    BY TargetFacts DEF HasGoal, Target
  <2> QED BY <1>1, <2>1 DEF Ahead
<1> QED BY <1>2, <1>3, <1>4, <1>5, <1>6, <1>7 DEF IInv

(* Every step preserves the invariant.                                     *)
LEMMA NextInvariant == IInv /\ [Next]_vars => IInv'
<1> SUFFICES ASSUME IInv, [Next]_vars PROVE IInv'
  OBVIOUS
<1>1. TypeOK /\ ControlInv /\ GoalInv /\ Truthful /\ InStep /\ Barrier
  BY DEF IInv
<1>2. CASE Quiet
  BY <1>1, <1>2, QuietKept DEF IInv, Quiet
<1>3. ASSUME NEW p \in Processes, Summary(p) PROVE IInv'
  <2>1. TypeOK' /\ Truthful'
    BY <1>3 DEF Summary
  <2>2. ControlInv'
    BY <1>1, <1>3, ControlKept
  <2>3. InStep'
    BY <1>1, <1>3, InStepKept DEF Summary
  <2>4. GoalInv' /\ Barrier'
    BY <1>1, <1>3, GoalKept, BarrierKept DEF Summary
  <2> QED BY <2>1, <2>2, <2>3, <2>4 DEF IInv
<1> QED BY <1>1, <1>2, <1>3, NextSummary

(* The strengthening is an invariant: the facts of a process that polls or *)
(* reads (ControlInv, GoalInv) are what makes the three properties below   *)
(* inductive.                                                              *)
THEOREM Invariant == Spec => []IInv
BY InitInvariant, NextInvariant, PTL DEF Spec

(* Every variable keeps its type, in any protocol of this shape and for any*)
(* number of workers.                                                      *)
THEOREM TypeCorrect == Spec => []TypeOK
<1>1. IInv => TypeOK
  BY DEF IInv
<1> QED BY <1>1, Invariant, PTL

(* No end of a connection runs ahead of the other, however often messages  *)
(* are repeated and however late they are read, whoever crashes.           *)
THEOREM LockstepHolds == Spec => []Lockstep
<1>1. IInv => Lockstep
  BY DEF IInv, Lockstep
<1> QED BY <1>1, Invariant, PTL

(* The instances of a process pass every target together.                  *)
THEOREM BarrierHolds == Spec => []Barrier
<1>1. IInv => Barrier
  BY DEF IInv
<1> QED BY <1>1, Invariant, PTL

--------------------------------------------------------------------------------
(* The refinement.                                                         *)
LEMMA MoveImplements ==
  ASSUME TypeOK, NEW p \in Processes, MoveStep(p)
  PROVE  R!Move(At(p)) /\ Owner(At(p)) = p
<1>1. At(p) \in Endpoints /\ Owner(At(p)) = p /\ At(p)[1] = SideOf(p)
  BY AtFacts
<1>2. state' = [state EXCEPT ![At(p)] = NextState[SideOf(p)][state[At(p)]]]
  BY DEF MoveStep, Transition, NewState
<1> QED BY <1>1, <1>2 DEF MoveStep, R!Move, R!HasGoal, R!Reached, HasGoal, AtTarget,
           Target, TargetOf, Reached, RankOf, R!TargetOf, R!SideOf, R!Owner, R!Coordinator,
           R!Awaits, R!Finished, R!Peer, R!OtherSide, R!Kinds, Awaits, Finished, Peer,
           OtherSide, Kinds, Owner, SideOf, Coordinator

(* Reaching a target here is reaching it in the rendezvous.                *)
LEMMA SettleImplements ==
  ASSUME TypeOK, NEW p \in Processes, SettleStep(p)
  PROVE  R!Settle(p, state')
BY DEF SettleStep, R!Settle, R!HasGoal, HasGoal, Target, TargetOf, R!TargetOf, R!SideOf,
       SideOf, R!Instances, Instances, R!Endpoints, Endpoints, R!Owner, Owner, R!Sides, Sides,
       R!Workers, Workers, R!Coordinator, Coordinator

(* Every step is a step of the rendezvous or a stutter.                    *)
LEMMA NextImplements ==
  IInv /\ [Next]_vars => [R!Next]_<<state, goal>>
<1> SUFFICES ASSUME IInv, [Next]_vars PROVE [R!Next]_<<state, goal>>
  OBVIOUS
<1>1. CASE Quiet
  BY <1>1 DEF Quiet
<1>2. ASSUME NEW p \in Processes, Summary(p) PROVE [R!Next]_<<state, goal>>
  <2>0. TypeOK /\ p \in R!Processes /\ At(p) \in R!Endpoints
    BY AtFacts DEF IInv, R!Processes, Processes, R!Endpoints, Endpoints, R!Sides, Sides,
       R!Workers, Workers
  <2>1. CASE UNCHANGED <<state, goal>>
    BY <2>1
  <2>2. CASE UNCHANGED state /\ SettleStep(p)
    <3>1. R!Settle(p, state)
      BY <2>0, <2>2, SettleImplements
    <3> QED BY <2>0, <2>2, <3>1 DEF R!Next
  <2>3. CASE MoveStep(p)
    <3>1. R!Move(At(p)) /\ R!Owner(At(p)) = p
      BY <2>0, <2>3, MoveImplements DEF Owner, R!Owner, Coordinator, R!Coordinator
    <3>2. UNCHANGED goal \/ R!Settle(p, state')
      BY <1>2, <2>0, SettleImplements DEF Summary
    <3> QED BY <2>0, <3>1, <3>2 DEF R!Next
  <2> QED BY <1>2, <2>1, <2>2, <2>3 DEF Summary
<1> QED BY <1>1, <1>2, NextSummary DEF IInv

(* Russula implements Rendezvous: what its caller sees of a run is a run of*)
(* the abstract protocol.                                                  *)
THEOREM ImplementsRendezvous == Spec => RendezvousSpec
<1>1. Init => R!Init
  BY DEF Init, R!Init, R!Endpoints, Endpoints, R!Sides, Sides, R!Workers, Workers,
     R!Processes, Processes
<1>2. IInv /\ [Next]_vars => [R!Next]_<<state, goal>>
  BY NextImplements
<1> QED BY <1>1, <1>2, Invariant, PTL DEF Spec, RendezvousSpec, R!Spec

==================================================================================
