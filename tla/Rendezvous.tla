------------------------------- MODULE Rendezvous -------------------------------
(***************************************************************************)
(* What Russula promises its caller, without messages, connections or      *)
(* polling: the two ends of every connection walk their paths in lockstep, *)
(* and the instances of one process pass each target together.             *)
(*                                                                         *)
(* An endpoint moves to its next state when the peer state it awaits has   *)
(* been reached, and never beyond the target its process is driven to.  A  *)
(* process is given its next target when all its instances are at this one.*)
(***************************************************************************)
EXTENDS Protocol

VARIABLES state, goal

HasGoal(p) == goal[p] <= Len(Targets[SideOf(p)])
Reached(e, s) == Rank[e[1]][state[e]] >= Rank[e[1]][s]

Init ==
  /\ state = [e \in Endpoints |-> Initial[e[1]]]
  /\ goal = [p \in Processes |-> 1]

Move(e) ==
  /\ HasGoal(Owner(e))
  /\ state[e] # TargetOf(Owner(e), goal[Owner(e)])
  /\ ~Finished(e[1], state[e])
  /\ Awaits(e[1], state[e]) => Reached(Peer(e), Step[e[1]][state[e]])
  /\ state' = [state EXCEPT ![e] = NextState[e[1]][@]]

(* Every instance of p is at its target in the states st.                  *)
Settle(p, st) ==
  /\ HasGoal(p)
  /\ \A e \in Instances(p) : st[e] = TargetOf(p, goal[p])
  /\ goal' = [goal EXCEPT ![p] = @ + 1]

Next ==
  \/ \E e \in Endpoints : Move(e) /\ (UNCHANGED goal \/ Settle(Owner(e), state'))
  \/ \E p \in Processes : Settle(p, state) /\ UNCHANGED state

Spec == Init /\ [][Next]_<<state, goal>>
=================================================================================
