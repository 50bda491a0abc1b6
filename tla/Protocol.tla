-------------------------------- MODULE Protocol --------------------------------
(***************************************************************************)
(* What a Russula protocol is (src/russula/protocol.rs, states.rs): a pair *)
(* of state machines, one per side of a connection, given as data, and the *)
(* processes that own the ends of the N connections between a coordinator  *)
(* and its workers.                                                        *)
(*                                                                         *)
(* Process 0 is the coordinator, processes 1..N are the workers.  An       *)
(* endpoint <<side, w>> is one ProtocolInstance: the coordinator owns      *)
(* <<"coord", w>> for every w, worker w owns <<"worker", w>>.              *)
(***************************************************************************)
EXTENDS Integers, Sequences, FiniteSets

CONSTANTS
  N,              \* number of workers
  Run,            \* what run() does in each state of a side
  Step,           \* transition_step() of each state of a side
  NextState,      \* next_state() of each state of a side
  Initial,        \* the state a new protocol instance of a side starts in
  Targets,        \* the states its caller drives each side to, in order
  Rank            \* position of a state on its side's path (for properties)

Coordinator == 0
Workers     == 1..N
Processes   == 0..N
Sides       == {"coord", "worker"}
Endpoints   == Sides \X Workers
States(s)   == DOMAIN Step[s]
AllStates   == States("coord") \cup States("worker")

OtherSide(s) == IF s = "coord" THEN "worker" ELSE "coord"
Peer(e)      == <<OtherSide(e[1]), e[2]>>
Owner(e)     == IF e[1] = "coord" THEN Coordinator ELSE e[2]
SideOf(p)    == IF p = Coordinator THEN "coord" ELSE "worker"
Instances(p) == {e \in Endpoints : Owner(e) = p}

TargetOf(p, i) == Targets[SideOf(p)][i]

(* transition_step() is AwaitNext(m), written as the awaited state m of the*)
(* peer, or one of Kinds.  Done is the only state that is Finished.        *)
Kinds    == {"UserDriven", "SelfDriven", "Finished"}
RunKinds == {"notify_await", "await", "advance", "spawn", "kill", "join", "notify"}

Finished(side, s) == Step[side][s] = "Finished"
Awaits(side, s)   == Step[side][s] \notin Kinds

ASSUME NAssumption == N \in Nat \ {0}

(* The tables are total on the states of their side, a message awaited is a*)
(* state of the other side, and run() reads messages exactly in the states *)
(* that await one.                                                         *)
ASSUME TableAssumption ==
  \A s \in Sides :
    /\ Run[s] \in [States(s) -> RunKinds]
    /\ NextState[s] \in [States(s) -> States(s)]
    /\ Initial[s] \in States(s)
    /\ Targets[s] \in Seq(States(s))
    /\ Len(Targets[s]) > 0
    /\ \A x \in States(s) :
         /\ Step[s][x] \in Kinds \cup States(OtherSide(s))
         /\ Awaits(s, x) <=> Run[s][x] \in {"await", "notify_await"}
         /\ Finished(s, x) <=> Run[s][x] = "notify"

(* Each side walks one path from its initial state, a step of next_state() *)
(* at a time, and its targets lie on the path in the order they are asked  *)
(* for.                                                                    *)
ASSUME PathAssumption ==
  \A s \in Sides :
    /\ Rank[s] \in [States(s) -> Nat]
    /\ Rank[s][Initial[s]] = 0
    /\ \A x, y \in States(s) : Rank[s][x] = Rank[s][y] => x = y
    /\ \A x \in States(s) :
         ~Finished(s, x) => Rank[s][NextState[s][x]] = Rank[s][x] + 1
    /\ \A i, j \in DOMAIN Targets[s] :
         i <= j => Rank[s][Targets[s][i]] <= Rank[s][Targets[s][j]]
=================================================================================
