----------------------------- MODULE BacklogProofs ------------------------------
(***************************************************************************)
(* Backlog, for any number of workers, any delays and any failures: what   *)
(* is unread on a connection is bounded by how far its ends have come.     *)
(*                                                                         *)
(* At any time one end of a connection can move, the mover: the message it *)
(* awaits, if any, has been sent or will be, and the other end waits for   *)
(* it or is at its end.  Both read what is left from before.  A message    *)
(* costs its reader at most two: the notification of the read that finds   *)
(* nothing after it, and the one of the next poll.  The mover skips what   *)
(* was sent before the message it awaits, and stops there; the other end   *)
(* answers what the mover sends meanwhile.  So the two numbers of unread   *)
(* messages are bounded while the mover stays (Room for the end that       *)
(* waits, Echo for the mover), and when it has moved on they bound the     *)
(* numbers of the next exchange.                                           *)
(***************************************************************************)
EXTENDS FailureProofs

(* An end of side d in state x waits for the other end, in state y.        *)
Awaiting(d, x, y) ==
  Awaits(d, x) /\ Rank[OtherSide(d)][y] < Rank[OtherSide(d)][Step[d][x]]

Moving(d, x, y) == ~Finished(d, x) /\ ~Awaiting(d, x, y)

(* What InStep says of two ends in states x and y.                         *)
Linked(d, x, y) ==
  \A s \in States(d) :
    Awaits(d, s) /\ Rank[d][x] > Rank[d][s] =>
      Rank[OtherSide(d)][y] >= Rank[OtherSide(d)][Step[d][s]]

Waits(f) == Awaiting(f[1], state[f], state[Peer(f)])
Mover(f) == Moving(f[1], state[f], state[Peer(f)])

(* How many messages may be unread at the end that waits and at the mover, *)
(* k moves after the beginning, when b polls have found netbench running.  *)
ServerRoom == <<0, 1, 2, 7, 8, 21, 22, 55, 56, 137, 138, 335, 335>>
ServerEcho == <<1, 6, 7, 20, 21, 54, 55, 136, 137, 334, 335, 335, 335>>

ClientRoom(b) ==
  <<0, 1, 2, 7, 8, 21, 54, 55 + b, 136 + 2 * b, 332 + 5 * b, 332 + 5 * b, 332 + 5 * b, 332 + 5 * b>>
ClientEcho(b) ==
  <<1, 6, 7, 20, 21, 54, 133, 134 + 2 * b, 332 + 5 * b, 332 + 5 * b, 332 + 5 * b, 332 + 5 * b,
    332 + 5 * b>>

Room(k, b)  == IF Step = ServerStep THEN ServerRoom[k + 1] ELSE ClientRoom(b)[k + 1]
Echo(k, b)  == IF Step = ServerStep THEN ServerEcho[k + 1] ELSE ClientEcho(b)[k + 1]
Limit(k, b) == Unread[k + 1] + 5 * b

(* What a step from x sends beside the state it moves to.                  *)
Extra(d, x) == IF Run[d][x] = "join" THEN 1 ELSE 0

(* What the tables and the numbers must satisfy.                           *)
Together(d, x, y) == Linked(d, x, y) /\ Linked(OtherSide(d), y, x)

BudgetHere(d, x, y, z, k, b) ==
  /\ Room(k, b) \in Nat /\ Echo(k, b) \in Nat /\ Limit(k, b) \in Nat
  /\ Room(k, b) <= Limit(k, b) /\ Echo(k, b) <= Limit(k, b)
  /\ Limit(k, b + 1) \in Nat /\ Limit(k, b + 1) >= Limit(k, b)
  /\ Awaiting(d, x, y) => Moving(OtherSide(d), y, x)
  /\ Moving(d, x, y) =>
       /\ Finished(OtherSide(d), y) \/ Awaiting(OtherSide(d), y, x)
       /\ Awaits(d, x) => y = Step[d][x]
       /\ Limit(k + 1, b) >= Limit(k, b)
       /\ Run[d][x] = "join" =>
            Room(k, b + 1) >= Room(k, b) + 1 /\ Echo(k, b + 1) >= Echo(k, b) + 2
       /\ Moving(d, z, y) =>
            /\ Awaits(d, x) /\ ~Awaits(d, z)
            /\ Room(k + 1, b) >= Room(k, b) + 1 /\ Echo(k + 1, b) >= Echo(k, b) + 1
       /\ ~Moving(d, z, y) =>
            /\ ~Finished(OtherSide(d), y) =>
                 Moving(OtherSide(d), y, z) /\ Room(k + 1, b) >= Echo(k, b) + 2 * Extra(d, x)
            /\ ~Finished(d, z) =>
                 /\ ~Finished(OtherSide(d), y)
                 /\ Echo(k + 1, b) >= Room(k, b) + 2 * Echo(k, b) + 4 + 5 * Extra(d, x)
            /\ Finished(d, z) => Run[d][x] # "join"

BudgetTable ==
  \A d \in Sides : \A x \in States(d) : \A y \in States(OtherSide(d)) : \A b \in Nat :
    Together(d, x, y) =>
      BudgetHere(d, x, y, NextState[d][x], Rank[d][x] + Rank[OtherSide(d)][y], b)

BudgetStart ==
  \A d \in Sides :
    /\ ~Finished(d, Initial[d])
    /\ Moving(d, Initial[d], Initial[OtherSide(d)]) =>
         Run[d][Initial[d]] = "await" /\ Echo(0, 0) >= 1

--------------------------------------------------------------------------------
(* Nothing more can be sent from e.                                        *)
Mute(e) == Broken(e) \/ pc[Owner(e)] \in Halted

(* What e sends before it reads another message.                           *)
Reads(e) == pc[Owner(e)] = "recv" /\ At(Owner(e)) = e

Credit(e) ==
  IF Mute(e) THEN 0
  ELSE (IF ready[e] THEN 2 ELSE 0)
       + (IF Reads(e) \/ Run[e[1]][state[e]] = "await" THEN 0 ELSE 1)

(* What f sends before it reads the message it awaits, n messages away.    *)
Debt(f, n) == IF Awaits(f[1], state[f]) /\ ~Mute(f) THEN 2 * n + Credit(f) ELSE 0

Held(f, n) ==
  LET e == Peer(f)
      k == Position(f[2])
      b == busy[f[2]]
  IN
  /\ Awaits(f[1], state[f]) =>
       \A i \in DOMAIN inbox[f] : i > n => inbox[f][i] = Step[f[1]][state[f]]
  /\ Len(inbox[e]) + Debt(f, n) <= Room(k, b)
  /\ Waits(e) => Len(inbox[f]) + Credit(e) + 2 * (Len(inbox[e]) + Debt(f, n)) <= Echo(k, b)

MoverHere(f) == Mover(f) => \E n \in Nat : Held(f, n)

(* Beyond the bound a finished end has sent nothing but its final state.   *)
FinalHere(f) ==
  Finished(f[1], state[f]) =>
    \A i \in DOMAIN inbox[Peer(f)] : i > Hold(f[2]) => Finished(f[1], inbox[Peer(f)][i])

Alone(f) == f[1] = "worker" \/ N = 1

LastHere(f) ==
  Finished(f[1], state[f]) /\ Alone(f) =>
    LET p == Owner(f) IN
    /\ pc[p] \in Halted \cup {"finish"} \/ ~HasGoal(p)
    /\ pc[p] = "finish" => count[p] > 0
    /\ Len(inbox[Peer(f)]) + (IF pc[p] = "finish" THEN count[p] ELSE 0)
         <= Hold(f[2]) + NotifyDone + 1

BacklogInv == \A f \in Endpoints : MoverHere(f) /\ FinalHere(f) /\ LastHere(f)

--------------------------------------------------------------------------------
(* What is known of the two ends of a connection, before and after a step. *)
LEMMA EndFacts ==
  ASSUME TypeOK, NEW f \in Endpoints
  PROVE  /\ state[f] \in States(f[1]) /\ busy[f[2]] \in Nat
         /\ Len(inbox[f]) \in Nat /\ DOMAIN inbox[f] = 1..Len(inbox[f])
         /\ Credit(f) \in Nat /\ Credit(f) <= 3
         /\ Position(f[2]) = Rank[f[1]][state[f]] + Rank[OtherSide(f[1])][state[Peer(f)]]
<1>1. inbox[f] \in Seq(AllStates)
  BY DEF TypeOK
<1>2. busy[f[2]] \in Nat
  BY PeerFacts, BoundsAssumption DEF TypeOK
<1>3. Credit(f) \in Nat /\ Credit(f) <= 3
  BY DEF Credit
<1>4. Position(f[2]) = Rank[f[1]][state[f]] + Rank[OtherSide(f[1])][state[Peer(f)]]
  <2>1. /\ state[Peer(f)] \in States(OtherSide(f[1])) /\ state[f] \in States(f[1])
        /\ OtherSide(f[1]) \in Sides /\ f[1] \in Sides
    BY PeerFacts DEF TypeOK
  <2>2. /\ Rank[f[1]][state[f]] \in Nat
        /\ Rank[OtherSide(f[1])][state[Peer(f)]] \in Nat
    BY <2>1, PathAssumption
  <2>3. CASE f[1] = "coord"
    <3>1. f = <<"coord", f[2]>> /\ Peer(f) = <<"worker", f[2]>> /\ OtherSide(f[1]) = "worker"
      BY <2>3 DEF Endpoints, Peer, OtherSide
    <3> QED BY <2>2, <2>3, <3>1, Zenon DEF Position
  <2>4. CASE f[1] = "worker"
    <3>1. f = <<"worker", f[2]>> /\ Peer(f) = <<"coord", f[2]>> /\ OtherSide(f[1]) = "coord"
      BY <2>4 DEF Endpoints, Peer, OtherSide
    <3>2. Position(f[2]) = Rank["coord"][state[Peer(f)]] + Rank["worker"][state[f]]
      BY <3>1, Zenon DEF Position
    <3> QED BY <2>2, <2>4, <3>1, <3>2
  <2> QED BY <2>1, <2>3, <2>4 DEF Sides
<1> QED BY <1>1, <1>2, <1>3, <1>4 DEF TypeOK

(* And after it.                                                           *)
LEMMA EndFactsNext ==
  ASSUME TypeOK', NEW f \in Endpoints
  PROVE  /\ state'[f] \in States(f[1]) /\ busy'[f[2]] \in Nat
         /\ Len(inbox'[f]) \in Nat /\ DOMAIN inbox'[f] = 1..Len(inbox'[f])
         /\ Credit(f)' \in Nat /\ Credit(f)' <= 3
         /\ Position(f[2])' = Rank[f[1]][state'[f]] + Rank[OtherSide(f[1])][state'[Peer(f)]]
<1>1. inbox'[f] \in Seq(AllStates)
  BY DEF TypeOK
<1>2. busy'[f[2]] \in Nat
  BY PeerFacts, BoundsAssumption DEF TypeOK
<1>3. Credit(f)' \in Nat /\ Credit(f)' <= 3
  BY DEF Credit
<1>4. Position(f[2])' = Rank[f[1]][state'[f]] + Rank[OtherSide(f[1])][state'[Peer(f)]]
  <2>1. /\ state'[Peer(f)] \in States(OtherSide(f[1])) /\ state'[f] \in States(f[1])
        /\ OtherSide(f[1]) \in Sides /\ f[1] \in Sides
    BY PeerFacts DEF TypeOK
  <2>2. /\ Rank[f[1]][state'[f]] \in Nat
        /\ Rank[OtherSide(f[1])][state'[Peer(f)]] \in Nat
    BY <2>1, PathAssumption
  <2>3. CASE f[1] = "coord"
    <3>1. f = <<"coord", f[2]>> /\ Peer(f) = <<"worker", f[2]>> /\ OtherSide(f[1]) = "worker"
      BY <2>3 DEF Endpoints, Peer, OtherSide
    <3> QED BY <2>2, <2>3, <3>1, Zenon DEF Position
  <2>4. CASE f[1] = "worker"
    <3>1. f = <<"worker", f[2]>> /\ Peer(f) = <<"coord", f[2]>> /\ OtherSide(f[1]) = "coord"
      BY <2>4 DEF Endpoints, Peer, OtherSide
    <3>2. Position(f[2])' = Rank["coord"][state'[Peer(f)]] + Rank["worker"][state'[f]]
      BY <3>1, Zenon DEF Position
    <3> QED BY <2>2, <2>4, <3>1, <3>2
  <2> QED BY <2>1, <2>3, <2>4 DEF Sides
<1> QED BY <1>1, <1>2, <1>3, <1>4 DEF TypeOK

(* What the tables say of the states the ends are in.                      *)
LEMMA BudgetFacts ==
  ASSUME BudgetTable, TypeOK, InStep, NEW f \in Endpoints
  PROVE  BudgetHere(f[1], state[f], state[Peer(f)], NextState[f[1]][state[f]],
                    Position(f[2]), busy[f[2]])
<1> DEFINE e == Peer(f)
<1>1. /\ e \in Endpoints /\ Peer(e) = f /\ e[1] = OtherSide(f[1]) /\ f[1] = OtherSide(e[1])
      /\ f[1] \in Sides /\ state[f] \in States(f[1]) /\ state[e] \in States(e[1])
      /\ busy[f[2]] \in Nat
  BY PeerFacts, EndFacts
<1>2. Linked(f[1], state[f], state[e])
  BY <1>1 DEF InStep, Ahead, Reached, RankOf, Linked
<1>3. Linked(e[1], state[e], state[f])
  BY <1>1 DEF InStep, Ahead, Reached, RankOf, Linked
<1>4. Together(f[1], state[f], state[e])
  BY <1>1, <1>2, <1>3, Zenon DEF Together
<1>5. Position(f[2]) = Rank[f[1]][state[f]] + Rank[OtherSide(f[1])][state[e]]
  BY EndFacts
<1> HIDE DEF e
<1>6. BudgetHere(f[1], state[f], state[e], NextState[f[1]][state[f]],
                 Rank[f[1]][state[f]] + Rank[OtherSide(f[1])][state[e]], busy[f[2]])
  BY <1>1, <1>4, Zenon DEF BudgetTable
<1> QED BY <1>5, <1>6, Zenon DEF e

(* And after a step.                                                       *)
LEMMA BudgetFactsNext ==
  ASSUME BudgetTable, TypeOK', InStep', NEW f \in Endpoints
  PROVE  BudgetHere(f[1], state'[f], state'[Peer(f)], NextState[f[1]][state'[f]],
                    Position(f[2])', busy'[f[2]])
<1> DEFINE e == Peer(f)
<1>1. /\ e \in Endpoints /\ Peer(e) = f /\ e[1] = OtherSide(f[1]) /\ f[1] = OtherSide(e[1])
      /\ f[1] \in Sides /\ state'[f] \in States(f[1]) /\ state'[e] \in States(e[1])
      /\ busy'[f[2]] \in Nat
  BY PeerFacts, EndFactsNext
<1>2. Linked(f[1], state'[f], state'[e])
  BY <1>1 DEF InStep, Ahead, Reached, RankOf, Linked
<1>3. Linked(e[1], state'[e], state'[f])
  BY <1>1 DEF InStep, Ahead, Reached, RankOf, Linked
<1>4. Together(f[1], state'[f], state'[e])
  BY <1>1, <1>2, <1>3, Zenon DEF Together
<1>5. Position(f[2])' = Rank[f[1]][state'[f]] + Rank[OtherSide(f[1])][state'[e]]
  BY EndFactsNext
<1> HIDE DEF e
<1>6. BudgetHere(f[1], state'[f], state'[e], NextState[f[1]][state'[f]],
                 Rank[f[1]][state'[f]] + Rank[OtherSide(f[1])][state'[e]], busy'[f[2]])
  BY <1>1, <1>4, Zenon DEF BudgetTable
<1> QED BY <1>5, <1>6, Zenon DEF e
--------------------------------------------------------------------------------
(* What a step does to the ends of one connection.                         *)

(* The inbox of x keeps what was first in it.                              *)
Prefix(x) ==
  /\ Len(inbox'[x]) <= Len(inbox[x])
  /\ \A i \in 1..Len(inbox'[x]) : inbox'[x][i] = inbox[x][i]

(* A message was taken from it.                                            *)
Loses(x) ==
  /\ Len(inbox'[x]) = Len(inbox[x]) - 1
  /\ \A i \in 1..Len(inbox'[x]) : inbox'[x][i] = inbox[x][i + 1]

(* At most one message m was sent to it, after at most k others.           *)
Gets(x, k, m) ==
  /\ Len(inbox'[x]) >= Len(inbox[x]) /\ Len(inbox'[x]) <= Len(inbox[x]) + k + 1
  /\ \A i \in 1..Len(inbox[x]) : inbox'[x][i] = inbox[x][i]
  /\ \A i \in 1..Len(inbox'[x]) : i > Len(inbox[x]) + k => inbox'[x][i] = m

(* The end x does nothing that would make it send more.                    *)
Rests(x) == state'[x] = state[x] /\ Credit(x)' <= Credit(x) /\ (Mute(x) => Mute(x)')

SameBusy(x) == busy'[x[2]] = busy[x[2]]

Eases(x) == Rests(x) /\ Prefix(x) /\ SameBusy(x)

(* What the end a that takes the step may do: tell its state, repeat its   *)
(* final state, report that netbench runs, skip a message, move on.        *)
Says(a) ==
  /\ state'[a] = state[a] /\ (Mute(a) => Mute(a)') /\ SameBusy(a)
  /\ Gets(Peer(a), 0, state[a])
  /\ Credit(a)' + Len(inbox'[Peer(a)]) <= Credit(a) + Len(inbox[Peer(a)])
  /\ Len(inbox'[Peer(a)]) > Len(inbox[Peer(a)]) => Awaits(a[1], state[a])
  /\ Prefix(a) /\ Rests(Peer(a))

Repeats(a) ==
  /\ state'[a] = state[a] /\ Finished(a[1], state[a]) /\ SameBusy(a)
  /\ Gets(Peer(a), 0, state[a])
  /\ Prefix(a) /\ Rests(Peer(a))

Reports(a) ==
  /\ state'[a] = state[a] /\ Run[a[1]][state[a]] = "join" /\ ~Awaits(a[1], state[a])
  /\ ~Finished(a[1], state[a]) /\ busy'[a[2]] = busy[a[2]] + 1
  /\ Gets(Peer(a), 0, state[a])
  /\ Prefix(a) /\ Rests(Peer(a))

Skips(a) ==
  /\ state'[a] = state[a] /\ (Mute(a) => Mute(a)') /\ SameBusy(a)
  /\ Awaits(a[1], state[a]) /\ Len(inbox[a]) > 0 /\ inbox[a][1] # Step[a[1]][state[a]]
  /\ Loses(a) /\ Credit(a)' <= Credit(a) + 2
  /\ Prefix(Peer(a)) /\ Rests(Peer(a))

Goes(a) ==
  /\ Mover(a) /\ state'[a] = NextState[a[1]][state[a]] /\ SameBusy(a)
  /\ Prefix(a) \/ Loses(a)
  /\ Awaits(a[1], state[a]) => Loses(a)
  /\ Gets(Peer(a), Extra(a[1], state[a]), state'[a])
  /\ Rests(Peer(a))

--------------------------------------------------------------------------------
(* Debts are numbers, and grow with n.                                     *)
LEMMA DebtFacts ==
  ASSUME TypeOK, NEW f \in Endpoints, NEW n \in Nat
  PROVE  Debt(f, n) \in Nat /\ (~Awaits(f[1], state[f]) => Debt(f, n) = 0)
         /\ Debt(f, n) <= 2 * n + Credit(f)
  BY EndFacts DEF Debt

LEMMA DebtFactsNext ==
  ASSUME TypeOK', NEW f \in Endpoints, NEW n \in Nat
  PROVE  Debt(f, n)' \in Nat /\ (~Awaits(f[1], state'[f]) => Debt(f, n)' = 0)
         /\ Debt(f, n)' <= 2 * n + Credit(f)'
  BY EndFactsNext DEF Debt

(* A step that leaves the states where they are keeps what is held of the  *)
(* mover if it does not raise the two sums.                                *)
LEMMA StayHeld ==
  ASSUME NEW f \in Endpoints, NEW e, e = Peer(f), TypeOK, TypeOK', BudgetTable, InStep,
         state'[f] = state[f], state'[e] = state[e], SameBusy(f),
         NEW n \in Nat, NEW m \in Nat, Held(f, n),
         Awaits(f[1], state[f]) =>
           \A i \in DOMAIN inbox'[f] : i > m => inbox'[f][i] = Step[f[1]][state[f]],
         Len(inbox'[e]) + Debt(f, m)' <= Len(inbox[e]) + Debt(f, n),
         Waits(e) =>
           Len(inbox'[f]) + Credit(e)' + 2 * (Len(inbox'[e]) + Debt(f, m)')
             <= Len(inbox[f]) + Credit(e) + 2 * (Len(inbox[e]) + Debt(f, n))
  PROVE  Held(f, m)'
<1> DEFINE k == Position(f[2])
           b == busy[f[2]]
           Rm == Room(k, b)
           Ec == Echo(k, b)
           Le == Len(inbox[e])
           Lf == Len(inbox[f])
           De == Debt(f, n)
           Ce == Credit(e)
           Le2 == Len(inbox'[e])
           Lf2 == Len(inbox'[f])
           De2 == Debt(f, m)'
           Ce2 == Credit(e)'
<1>1. e \in Endpoints /\ Peer(e) = f
  BY PeerFacts
<1>2. /\ Le \in Nat /\ Lf \in Nat /\ De \in Nat /\ Ce \in Nat
      /\ Le2 \in Nat /\ Lf2 \in Nat /\ De2 \in Nat /\ Ce2 \in Nat
  BY <1>1, EndFacts, EndFactsNext, DebtFacts, DebtFactsNext
<1>3. Position(f[2])' = k /\ busy'[f[2]] = b /\ (Waits(e)' <=> Waits(e))
  <2>1. Position(f[2])' = k
    BY <1>1, EndFacts, EndFactsNext
  <2>2. Waits(e)' <=> Waits(e)
    BY <1>1 DEF Waits
  <2> QED BY <2>1, <2>2 DEF SameBusy
<1>4. Rm \in Nat /\ Ec \in Nat
  BY BudgetFacts DEF BudgetHere
<1>5. /\ Le + De <= Rm
      /\ Waits(e) => Lf + Ce + 2 * (Le + De) <= Ec
  BY DEF Held
<1>6. /\ Le2 + De2 <= Le + De
      /\ Waits(e) => Lf2 + Ce2 + 2 * (Le2 + De2) <= Lf + Ce + 2 * (Le + De)
  OBVIOUS
<1> HIDE DEF k, b, Rm, Ec, Le, Lf, De, Ce, Le2, Lf2, De2, Ce2
<1>7. Le2 + De2 <= Rm
  BY <1>2, <1>4, <1>5, <1>6
<1>8. Waits(e) => Lf2 + Ce2 + 2 * (Le2 + De2) <= Ec
  <2> DEFINE S == Lf + Ce + 2 * (Le + De)
             S2 == Lf2 + Ce2 + 2 * (Le2 + De2)
  <2>1. S \in Nat /\ S2 \in Nat /\ (Waits(e) => S <= Ec /\ S2 <= S)
    BY <1>2, <1>5, <1>6
  <2> HIDE DEF S, S2
  <2>2. Waits(e) => S2 <= Ec
    BY <1>4, <2>1
  <2> QED BY <2>2 DEF S2
<1>9. Room(Position(f[2])', busy'[f[2]]) = Rm /\ Echo(Position(f[2])', busy'[f[2]]) = Ec
  BY <1>3, Zenon DEF Rm, Ec, k, b
<1> QED BY <1>3, <1>7, <1>8, <1>9 DEF Held, Le2, Lf2, De2, Ce2

(* The second sum falls with its parts.                                    *)
LEMMA StayHeldApart ==
  ASSUME NEW f \in Endpoints, NEW e, e = Peer(f), TypeOK, TypeOK', BudgetTable, InStep,
         state'[f] = state[f], state'[e] = state[e], SameBusy(f),
         NEW n \in Nat, NEW m \in Nat, Held(f, n),
         Awaits(f[1], state[f]) =>
           \A i \in DOMAIN inbox'[f] : i > m => inbox'[f][i] = Step[f[1]][state[f]],
         Len(inbox'[e]) + Debt(f, m)' <= Len(inbox[e]) + Debt(f, n),
         Waits(e) => Len(inbox'[f]) + Credit(e)' <= Len(inbox[f]) + Credit(e)
  PROVE  Held(f, m)'
<1>1. e \in Endpoints
  BY PeerFacts
<1>2. /\ Len(inbox[f]) \in Nat /\ Len(inbox[e]) \in Nat /\ Credit(e) \in Nat
      /\ Len(inbox'[f]) \in Nat /\ Len(inbox'[e]) \in Nat /\ Credit(e)' \in Nat
      /\ Debt(f, n) \in Nat /\ Debt(f, m)' \in Nat
  BY <1>1, EndFacts, EndFactsNext, DebtFacts, DebtFactsNext
<1>3. PICK a \in Nat : a = Len(inbox[f])
  BY <1>2
<1>4. PICK a2 \in Nat : a2 = Len(inbox'[f])
  BY <1>2
<1>5. PICK c \in Nat : c = Credit(e)
  BY <1>2
<1>6. PICK c2 \in Nat : c2 = Credit(e)'
  BY <1>2
<1>7. PICK b \in Nat : b = Len(inbox[e])
  BY <1>2
<1>8. PICK b2 \in Nat : b2 = Len(inbox'[e])
  BY <1>2
<1>9. PICK d \in Nat : d = Debt(f, n)
  BY <1>2
<1>10. PICK d2 \in Nat : d2 = Debt(f, m)'
  BY <1>2
<1>11. b2 + d2 <= b + d /\ (Waits(e) => a2 + c2 <= a + c)
  BY <1>3, <1>4, <1>5, <1>6, <1>7, <1>8, <1>9, <1>10
<1>12. Waits(e) => a2 + c2 + 2 * (b2 + d2) <= a + c + 2 * (b + d)
  BY <1>11
<1>13. Waits(e) =>
         Len(inbox'[f]) + Credit(e)' + 2 * (Len(inbox'[e]) + Debt(f, m)')
           <= Len(inbox[f]) + Credit(e) + 2 * (Len(inbox[e]) + Debt(f, n))
  BY <1>3, <1>4, <1>5, <1>6, <1>7, <1>8, <1>9, <1>10, <1>12, Zenon
<1> QED BY <1>13, StayHeld

(* What the debt of an end that stays where it is can become.              *)
LEMMA DebtChange ==
  ASSUME NEW f \in Endpoints, NEW n \in Nat, NEW m \in Nat,
         state'[f] = state[f], Mute(f) => Mute(f)'
  PROVE  \/ Debt(f, m)' = 0
         \/ /\ Awaits(f[1], state[f]) /\ ~Mute(f)
            /\ Debt(f, n) = 2 * n + Credit(f) /\ Debt(f, m)' = 2 * m + Credit(f)'
  BY DEF Debt

LEMMA DebtFalls ==
  ASSUME TypeOK, TypeOK', NEW f \in Endpoints, NEW n \in Nat, state'[f] = state[f],
         Mute(f) => Mute(f)', Credit(f)' <= Credit(f)
  PROVE  Debt(f, n)' <= Debt(f, n)
<1>1. \/ Debt(f, n)' = 0
      \/ Debt(f, n) = 2 * n + Credit(f) /\ Debt(f, n)' = 2 * n + Credit(f)'
  BY DebtChange
<1>2. Credit(f) \in Nat /\ Credit(f)' \in Nat
  BY EndFacts, EndFactsNext
<1>3. CASE Debt(f, n)' = 0
  <2>1. PICK d \in Nat : d = Debt(f, n)
    BY DebtFacts
  <2>2. 0 <= d
    OBVIOUS
  <2> QED BY <1>3, <2>1, <2>2, Zenon
<1>4. CASE Debt(f, n) = 2 * n + Credit(f) /\ Debt(f, n)' = 2 * n + Credit(f)'
  <2>1. PICK c \in Nat : c = Credit(f)
    BY <1>2
  <2>2. PICK c2 \in Nat : c2 = Credit(f)'
    BY <1>2
  <2>3. PICK g \in Nat : g = n
    OBVIOUS
  <2>4. c2 <= c
    BY <2>1, <2>2
  <2>5. 2 * g + c2 <= 2 * g + c
    BY <2>4
  <2> QED BY <1>4, <2>1, <2>2, <2>3, <2>5, Zenon
<1> QED BY <1>1, <1>3, <1>4

(* A message of an inbox that has lost some of its last was in it.         *)
LEMMA InPrefix ==
  ASSUME TypeOK, TypeOK', NEW f \in Endpoints, Prefix(f), NEW i \in DOMAIN inbox'[f]
  PROVE  i \in DOMAIN inbox[f] /\ inbox'[f][i] = inbox[f][i]
<1>1. /\ Len(inbox[f]) \in Nat /\ Len(inbox'[f]) \in Nat
      /\ DOMAIN inbox[f] = 1..Len(inbox[f]) /\ DOMAIN inbox'[f] = 1..Len(inbox'[f])
  BY EndFacts, EndFactsNext
<1>2. PICK l \in Nat : l = Len(inbox[f])
  BY <1>1
<1>3. PICK l2 \in Nat : l2 = Len(inbox'[f])
  BY <1>1
<1>4. l2 <= l
  BY <1>2, <1>3 DEF Prefix
<1>5. i \in 1..l2
  BY <1>1, <1>3
<1>6. i \in 1..l
  BY <1>4, <1>5
<1>7. inbox'[f][i] = inbox[f][i]
  BY <1>3, <1>5 DEF Prefix
<1> QED BY <1>1, <1>2, <1>6, <1>7

(* The bound of a connection is a number, and grows with its position and  *)
(* with the polls that find netbench running.                              *)
LEMMA HoldFacts ==
  ASSUME TypeOK, BudgetTable, InStep, NEW f \in Endpoints
  PROVE  /\ Hold(f[2]) = Limit(Position(f[2]), busy[f[2]]) /\ Hold(f[2]) \in Nat
         /\ Room(Position(f[2]), busy[f[2]]) \in Nat
         /\ Room(Position(f[2]), busy[f[2]]) <= Hold(f[2])
<1>1. Hold(f[2]) = Limit(Position(f[2]), busy[f[2]])
  BY DEF Hold, Limit
<1> QED BY <1>1, BudgetFacts DEF BudgetHere

(* The bound does not fall while the states stay.                          *)
LEMMA HoldStays ==
  ASSUME TypeOK, TypeOK', BudgetTable, InStep, NEW f \in Endpoints,
         state'[f] = state[f], state'[Peer(f)] = state[Peer(f)],
         SameBusy(f) \/ busy'[f[2]] = busy[f[2]] + 1
  PROVE  Hold(f[2])' \in Nat /\ Hold(f[2])' >= Hold(f[2])
<1>1. Position(f[2])' = Position(f[2])
  BY EndFacts, EndFactsNext
<1>2. Hold(f[2])' = Limit(Position(f[2]), busy'[f[2]])
  BY <1>1 DEF Hold, Limit
<1>3. /\ Hold(f[2]) \in Nat /\ Hold(f[2]) = Limit(Position(f[2]), busy[f[2]])
      /\ Limit(Position(f[2]), busy[f[2]] + 1) \in Nat
      /\ Limit(Position(f[2]), busy[f[2]] + 1) >= Limit(Position(f[2]), busy[f[2]])
  BY HoldFacts, BudgetFacts DEF BudgetHere
<1> QED BY <1>2, <1>3 DEF SameBusy

(* What was sent before it and what is sent now keeps FinalHere.           *)
LEMMA FinalStay ==
  ASSUME NEW f \in Endpoints, NEW e, e = Peer(f), TypeOK, TypeOK',
         state'[f] = state[f], FinalHere(f),
         Hold(f[2]) \in Nat, Hold(f[2])' \in Nat, Hold(f[2])' >= Hold(f[2]),
         Finished(f[1], state[f]) => Prefix(e) \/ Loses(e) \/ Gets(e, 0, state[f])
  PROVE  FinalHere(f)'
<1> SUFFICES ASSUME Finished(f[1], state[f]), NEW i \in DOMAIN inbox'[e], i > Hold(f[2])'
             PROVE  Finished(f[1], inbox'[e][i])
  BY DEF FinalHere
<1>1. e \in Endpoints
  BY PeerFacts
<1>2. /\ Len(inbox[e]) \in Nat /\ Len(inbox'[e]) \in Nat
      /\ DOMAIN inbox[e] = 1..Len(inbox[e]) /\ DOMAIN inbox'[e] = 1..Len(inbox'[e])
  BY <1>1, EndFacts, EndFactsNext
<1>3. i \in Nat /\ i >= 1 /\ i <= Len(inbox'[e])
  BY <1>2
<1>4. \A j \in 1..Len(inbox[e]) : j > Hold(f[2]) => Finished(f[1], inbox[e][j])
  BY <1>2 DEF FinalHere
<1>5. CASE Prefix(e)
  <2>1. i \in 1..Len(inbox[e]) /\ inbox'[e][i] = inbox[e][i] /\ i > Hold(f[2])
    BY <1>2, <1>3, <1>5 DEF Prefix
  <2> QED BY <1>4, <2>1
<1>6. CASE Loses(e)
  <2>1. i + 1 \in 1..Len(inbox[e]) /\ inbox'[e][i] = inbox[e][i + 1] /\ i + 1 > Hold(f[2])
    BY <1>2, <1>3, <1>6 DEF Loses
  <2> QED BY <1>4, <2>1
<1>7. CASE Gets(e, 0, state[f])
  <2>1. CASE i <= Len(inbox[e])
    <3>1. i \in 1..Len(inbox[e]) /\ inbox'[e][i] = inbox[e][i] /\ i > Hold(f[2])
      BY <1>2, <1>3, <1>7, <2>1 DEF Gets
    <3> QED BY <1>4, <3>1
  <2>2. CASE i > Len(inbox[e])
    <3>1. inbox'[e][i] = state[f]
      BY <1>2, <1>3, <1>7, <2>2 DEF Gets
    <3> QED BY <3>1
  <2> QED BY <1>2, <1>3, <2>1, <2>2
<1> QED BY <1>5, <1>6, <1>7

Here(f) == MoverHere(f) /\ FinalHere(f)

(* Both ends rest, messages may be lost.                                   *)
LEMMA EasesKeep ==
  ASSUME NEW f \in Endpoints, TypeOK, TypeOK', BudgetTable, InStep, Here(f),
         Eases(f), Eases(Peer(f))
  PROVE  Here(f)'
<1> DEFINE e == Peer(f)
<1>1. e \in Endpoints /\ Peer(e) = f
  BY PeerFacts
<1>2. /\ state'[f] = state[f] /\ state'[e] = state[e] /\ SameBusy(f)
      /\ (Mute(f) => Mute(f)') /\ Credit(f)' <= Credit(f) /\ Credit(e)' <= Credit(e)
      /\ Prefix(f) /\ Prefix(e)
  BY DEF Eases, Rests
<1>3. FinalHere(f)'
  BY <1>1, <1>2, HoldFacts, HoldStays, FinalStay DEF Here
<1>4. Mover(f)' <=> Mover(f)
  BY <1>2 DEF Mover
<1>5. ASSUME NEW n \in Nat, Held(f, n) PROVE Held(f, n)'
  <2>1. /\ Len(inbox[f]) \in Nat /\ Len(inbox'[f]) \in Nat
        /\ DOMAIN inbox[f] = 1..Len(inbox[f]) /\ DOMAIN inbox'[f] = 1..Len(inbox'[f])
        /\ Len(inbox[e]) \in Nat /\ Len(inbox'[e]) \in Nat
        /\ Credit(f) \in Nat /\ Credit(f)' \in Nat /\ Credit(e) \in Nat /\ Credit(e)' \in Nat
        /\ Debt(f, n) \in Nat /\ Debt(f, n)' \in Nat
    BY <1>1, EndFacts, EndFactsNext, DebtFacts, DebtFactsNext
  <2>2. Len(inbox'[f]) <= Len(inbox[f]) /\ Len(inbox'[e]) <= Len(inbox[e])
    BY <1>2 DEF Prefix
  <2>3. Debt(f, n)' <= Debt(f, n)
    BY <1>2, DebtFalls
  <2>4. Awaits(f[1], state[f]) =>
          \A i \in DOMAIN inbox'[f] : i > n => inbox'[f][i] = Step[f[1]][state[f]]
    <3> SUFFICES ASSUME Awaits(f[1], state[f]), NEW i \in DOMAIN inbox'[f], i > n
                 PROVE  inbox'[f][i] = Step[f[1]][state[f]]
      OBVIOUS
    <3>1. i \in DOMAIN inbox[f] /\ inbox'[f][i] = inbox[f][i]
      BY <1>2, InPrefix
    <3> QED BY <1>5, <3>1 DEF Held
  <2>5. Len(inbox'[e]) + Debt(f, n)' <= Len(inbox[e]) + Debt(f, n)
    BY <2>1, <2>2, <2>3
  <2>6. Len(inbox'[f]) + Credit(e)' <= Len(inbox[f]) + Credit(e)
    BY <1>2, <2>1, <2>2
  <2> QED BY <1>1, <1>2, <1>5, <2>4, <2>5, <2>6, StayHeldApart
<1>6. MoverHere(f)'
  BY <1>4, <1>5 DEF Here, MoverHere
<1> QED BY <1>3, <1>6 DEF Here

(* An end that tells its state, as the mover or as the end that waits.     *)
LEMMA SaysKeeps ==
  ASSUME NEW a \in Endpoints, TypeOK, TypeOK', BudgetTable, InStep, Here(a), Here(Peer(a)),
         Says(a)
  PROVE  Here(a)' /\ Here(Peer(a))'
<1> DEFINE b == Peer(a)
<1>1. b \in Endpoints /\ Peer(b) = a /\ b[2] = a[2]
  BY PeerFacts DEF Peer
<1>2. /\ state'[a] = state[a] /\ state'[b] = state[b] /\ SameBusy(a) /\ SameBusy(b)
      /\ (Mute(a) => Mute(a)') /\ (Mute(b) => Mute(b)')
      /\ Credit(b)' <= Credit(b)
      /\ Credit(a)' + Len(inbox'[b]) <= Credit(a) + Len(inbox[b])
      /\ Len(inbox'[b]) > Len(inbox[b]) => Awaits(a[1], state[a])
      /\ Prefix(a) /\ Gets(b, 0, state[a])
  BY <1>1 DEF Says, Rests, SameBusy
<1>3. FinalHere(a)' /\ FinalHere(b)'
  <2>1. /\ Hold(a[2]) \in Nat /\ Hold(a[2])' \in Nat /\ Hold(a[2])' >= Hold(a[2])
        /\ Hold(b[2]) \in Nat /\ Hold(b[2])' \in Nat /\ Hold(b[2])' >= Hold(b[2])
    BY <1>1, <1>2, HoldFacts, HoldStays
  <2>2. FinalHere(a)'
    BY <1>2, <2>1, FinalStay DEF Here
  <2>3. FinalHere(b)'
    BY <1>1, <1>2, <2>1, FinalStay DEF Here
  <2> QED BY <2>2, <2>3
<1>4. (Mover(a)' <=> Mover(a)) /\ (Mover(b)' <=> Mover(b))
  BY <1>1, <1>2 DEF Mover
<1>5. /\ Len(inbox[a]) \in Nat /\ Len(inbox'[a]) \in Nat
      /\ DOMAIN inbox[a] = 1..Len(inbox[a]) /\ DOMAIN inbox'[a] = 1..Len(inbox'[a])
      /\ DOMAIN inbox[b] = 1..Len(inbox[b]) /\ DOMAIN inbox'[b] = 1..Len(inbox'[b])
      /\ Len(inbox[b]) \in Nat /\ Len(inbox'[b]) \in Nat
      /\ Credit(a) \in Nat /\ Credit(a)' \in Nat /\ Credit(b) \in Nat /\ Credit(b)' \in Nat
  BY <1>1, EndFacts, EndFactsNext
<1>6. Len(inbox'[a]) <= Len(inbox[a]) /\ Len(inbox'[b]) >= Len(inbox[b])
  BY <1>2 DEF Prefix, Gets
<1>7. ASSUME NEW n \in Nat, Held(a, n) PROVE Held(a, n)'
  <2>1. Debt(a, n) \in Nat /\ Debt(a, n)' \in Nat
    BY DebtFacts, DebtFactsNext
  <2>2. Len(inbox'[b]) + Debt(a, n)' <= Len(inbox[b]) + Debt(a, n)
    <3>1. CASE Len(inbox'[b]) > Len(inbox[b])
      <4>1. Awaits(a[1], state[a]) /\ ~Mute(a)
        <5>1. Credit(a) # 0
          BY <1>2, <1>5, <3>1
        <5> QED BY <1>2, <3>1, <5>1 DEF Credit
      <4>2. Debt(a, n) = 2 * n + Credit(a)
        BY <4>1 DEF Debt
      <4>3. Debt(a, n)' <= 2 * n + Credit(a)'
        BY DebtFactsNext
      <4>4. PICK c1 \in Nat : c1 = Credit(a)
        BY <1>5
      <4>5. PICK c2 \in Nat : c2 = Credit(a)'
        BY <1>5
      <4>6. PICK b1 \in Nat : b1 = Len(inbox[b])
        BY <1>5
      <4>7. PICK b2 \in Nat : b2 = Len(inbox'[b])
        BY <1>5
      <4>8. PICK d1 \in Nat : d1 = Debt(a, n)
        BY <2>1
      <4>9. PICK d2 \in Nat : d2 = Debt(a, n)'
        BY <2>1
      <4>10. PICK g \in Nat : g = n
        OBVIOUS
      <4>11. d1 = 2 * g + c1
        BY <4>2, <4>4, <4>8, <4>10
      <4>12. d2 <= 2 * g + c2
        BY <4>3, <4>5, <4>9, <4>10
      <4>13. c2 + b2 <= c1 + b1
        BY <1>2, <4>4, <4>5, <4>6, <4>7
      <4>14. b2 + d2 <= b1 + d1
        BY <4>11, <4>12, <4>13
      <4> QED BY <4>6, <4>7, <4>8, <4>9, <4>14, Zenon
    <3>2. CASE Len(inbox'[b]) = Len(inbox[b])
      <4>1. Credit(a)' <= Credit(a)
        <5>1. PICK l \in Nat : l = Len(inbox[b])
          BY <1>5
        <5>2. PICK c1 \in Nat : c1 = Credit(a)
          BY <1>5
        <5>3. PICK c2 \in Nat : c2 = Credit(a)'
          BY <1>5
        <5>4. c2 + l <= c1 + l
          BY <1>2, <3>2, <5>1, <5>2, <5>3
        <5>5. c2 <= c1
          BY <5>4
        <5> QED BY <5>2, <5>3, <5>5, Zenon
      <4>2. Debt(a, n)' <= Debt(a, n)
        BY <1>2, <4>1, DebtFalls
      <4>3. PICK l \in Nat : l = Len(inbox[b])
        BY <1>5
      <4>4. PICK d1 \in Nat : d1 = Debt(a, n)
        BY <2>1
      <4>5. PICK d2 \in Nat : d2 = Debt(a, n)'
        BY <2>1
      <4>6. d2 <= d1
        BY <4>2, <4>4, <4>5
      <4>7. l + d2 <= l + d1
        BY <4>6
      <4> QED BY <3>2, <4>3, <4>4, <4>5, <4>7, Zenon
    <3> QED BY <1>5, <1>6, <3>1, <3>2
  <2>3. Awaits(a[1], state[a]) =>
          \A i \in DOMAIN inbox'[a] : i > n => inbox'[a][i] = Step[a[1]][state[a]]
    <3> SUFFICES ASSUME Awaits(a[1], state[a]), NEW i \in DOMAIN inbox'[a], i > n
                 PROVE  inbox'[a][i] = Step[a[1]][state[a]]
      OBVIOUS
    <3>1. i \in DOMAIN inbox[a] /\ inbox'[a][i] = inbox[a][i]
      BY <1>2, InPrefix
    <3> QED BY <1>7, <3>1 DEF Held
  <2>4. Len(inbox'[a]) + Credit(b)' <= Len(inbox[a]) + Credit(b)
    BY <1>2, <1>5, <1>6
  <2> QED BY <1>1, <1>2, <1>7, <2>2, <2>3, <2>4, StayHeldApart
<1>8. ASSUME Mover(b), NEW n \in Nat, Held(b, n) PROVE Held(b, n)'
  <2>1. Debt(b, n) \in Nat /\ Debt(b, n)' \in Nat
    BY <1>1, DebtFacts, DebtFactsNext
  <2>2. Debt(b, n)' <= Debt(b, n)
    BY <1>1, <1>2, DebtFalls
  <2>3. Awaits(b[1], state[b]) => state[a] = Step[b[1]][state[b]]
    BY <1>1, <1>8, BudgetFacts DEF BudgetHere, Mover
  <2>4. Awaits(b[1], state[b]) =>
          \A i \in DOMAIN inbox'[b] : i > n => inbox'[b][i] = Step[b[1]][state[b]]
    <3> SUFFICES ASSUME Awaits(b[1], state[b]), NEW i \in DOMAIN inbox'[b], i > n
                 PROVE  inbox'[b][i] = Step[b[1]][state[b]]
      OBVIOUS
    <3>1. CASE i \in 1..Len(inbox[b])
      <4>1. inbox'[b][i] = inbox[b][i]
        BY <1>2, <3>1 DEF Gets
      <4>2. i \in DOMAIN inbox[b]
        BY <1>5, <3>1
      <4> QED BY <1>8, <4>1, <4>2 DEF Held
    <3>2. CASE i > Len(inbox[b])
      <4>1. i \in 1..Len(inbox'[b]) /\ i > Len(inbox[b]) + 0
        BY <1>5, <3>2
      <4>2. inbox'[b][i] = state[a]
        BY <1>2, <4>1 DEF Gets
      <4> QED BY <2>3, <4>2
    <3>3. i \in 1..Len(inbox'[b])
      BY <1>5
    <3>4. i \in 1..Len(inbox[b]) \/ i > Len(inbox[b])
      BY <1>5, <3>3
    <3> QED BY <3>1, <3>2, <3>4
  <2>5. Len(inbox'[a]) + Debt(b, n)' <= Len(inbox[a]) + Debt(b, n)
    BY <1>5, <1>6, <2>1, <2>2
  <2>6. Len(inbox'[b]) + Credit(a)' <= Len(inbox[b]) + Credit(a)
    BY <1>2, <1>5
  <2> QED BY <1>1, <1>2, <1>8, <2>4, <2>5, <2>6, StayHeldApart
<1>9. MoverHere(a)' /\ MoverHere(b)'
  <2>1. MoverHere(a)'
    BY <1>4, <1>7 DEF Here, MoverHere
  <2>2. MoverHere(b)'
    BY <1>4, <1>8 DEF Here, MoverHere
  <2> QED BY <2>1, <2>2
<1> QED BY <1>3, <1>9 DEF Here
(* An end that repeats its final state.                                    *)
LEMMA RepeatsKeeps ==
  ASSUME NEW a \in Endpoints, TypeOK, TypeOK', BudgetTable, InStep, Here(a), Here(Peer(a)),
         Repeats(a)
  PROVE  Here(a)' /\ Here(Peer(a))'
<1> DEFINE b == Peer(a)
<1>1. b \in Endpoints /\ Peer(b) = a /\ b[2] = a[2]
  BY PeerFacts DEF Peer
<1>2. /\ state'[a] = state[a] /\ state'[b] = state[b] /\ SameBusy(a) /\ SameBusy(b)
      /\ (Mute(b) => Mute(b)') /\ Credit(b)' <= Credit(b)
      /\ Finished(a[1], state[a]) /\ ~Awaits(a[1], state[a])
      /\ Prefix(a) /\ Gets(b, 0, state[a])
  BY <1>1 DEF Repeats, Rests, SameBusy, Finished, Awaits, Kinds
<1>3. FinalHere(a)' /\ FinalHere(b)'
  <2>1. /\ Hold(a[2]) \in Nat /\ Hold(a[2])' \in Nat /\ Hold(a[2])' >= Hold(a[2])
        /\ Hold(b[2]) \in Nat /\ Hold(b[2])' \in Nat /\ Hold(b[2])' >= Hold(b[2])
    BY <1>1, <1>2, HoldFacts, HoldStays
  <2>2. FinalHere(a)'
    BY <1>2, <2>1, FinalStay DEF Here
  <2>3. FinalHere(b)'
    BY <1>1, <1>2, <2>1, FinalStay DEF Here
  <2> QED BY <2>2, <2>3
<1>4. ~Mover(a)' /\ (Mover(b)' <=> Mover(b))
  BY <1>1, <1>2 DEF Mover, Moving
<1>5. /\ Len(inbox[a]) \in Nat /\ Len(inbox'[a]) \in Nat
      /\ DOMAIN inbox[b] = 1..Len(inbox[b]) /\ DOMAIN inbox'[b] = 1..Len(inbox'[b])
      /\ Len(inbox[b]) \in Nat /\ Len(inbox'[b]) \in Nat
      /\ Credit(b) \in Nat /\ Credit(b)' \in Nat
      /\ Len(inbox'[a]) <= Len(inbox[a])
  BY <1>1, <1>2, EndFacts, EndFactsNext DEF Prefix
<1>6. ASSUME Mover(b), NEW n \in Nat, Held(b, n) PROVE Held(b, n)'
  <2>1. Debt(b, n) \in Nat /\ Debt(b, n)' \in Nat
    BY <1>1, DebtFacts, DebtFactsNext
  <2>2. Debt(b, n)' <= Debt(b, n)
    BY <1>1, <1>2, DebtFalls
  <2>3. Awaits(b[1], state[b]) => state[a] = Step[b[1]][state[b]]
    BY <1>1, <1>6, BudgetFacts DEF BudgetHere, Mover
  <2>4. Awaits(b[1], state[b]) =>
          \A i \in DOMAIN inbox'[b] : i > n => inbox'[b][i] = Step[b[1]][state[b]]
    <3> SUFFICES ASSUME Awaits(b[1], state[b]), NEW i \in DOMAIN inbox'[b], i > n
                 PROVE  inbox'[b][i] = Step[b[1]][state[b]]
      OBVIOUS
    <3>1. CASE i <= Len(inbox[b])
      <4>1. i \in DOMAIN inbox[b] /\ inbox'[b][i] = inbox[b][i]
        BY <1>2, <1>5, <3>1 DEF Gets
      <4> QED BY <1>6, <4>1 DEF Held
    <3>2. CASE i > Len(inbox[b])
      <4>1. inbox'[b][i] = state[a]
        BY <1>2, <1>5, <3>2 DEF Gets
      <4> QED BY <2>3, <4>1
    <3> QED BY <1>5, <3>1, <3>2
  <2>5. Len(inbox'[a]) + Debt(b, n)' <= Len(inbox[a]) + Debt(b, n)
    BY <1>5, <2>1, <2>2
  <2>6. ~Waits(a)
    BY <1>2 DEF Waits, Awaiting
  <2> QED BY <1>1, <1>2, <1>6, <2>4, <2>5, <2>6, StayHeldApart
<1>7. MoverHere(a)' /\ MoverHere(b)'
  <2>1. MoverHere(a)'
    BY <1>4 DEF MoverHere
  <2>2. MoverHere(b)'
    BY <1>4, <1>6 DEF Here, MoverHere
  <2> QED BY <2>1, <2>2
<1> QED BY <1>3, <1>7 DEF Here

(* A worker that reports that netbench still runs.                         *)
LEMMA ReportsKeeps ==
  ASSUME NEW a \in Endpoints, TypeOK, TypeOK', BudgetTable, InStep, InStep',
         Here(a), Here(Peer(a)), Reports(a)
  PROVE  Here(a)' /\ Here(Peer(a))'
<1> DEFINE b == Peer(a)
           k == Position(a[2])
           u == busy[a[2]]
<1>1. b \in Endpoints /\ Peer(b) = a /\ b[2] = a[2]
  BY PeerFacts DEF Peer
<1>2. /\ state'[a] = state[a] /\ state'[b] = state[b]
      /\ busy'[a[2]] = u + 1 /\ busy'[b[2]] = busy[b[2]] + 1
      /\ (Mute(b) => Mute(b)') /\ Credit(b)' <= Credit(b)
      /\ ~Finished(a[1], state[a]) /\ ~Awaits(a[1], state[a]) /\ Run[a[1]][state[a]] = "join"
      /\ Prefix(a) /\ Gets(b, 0, state[a])
  BY <1>1 DEF Reports, Rests
<1>3. FinalHere(a)' /\ FinalHere(b)'
  <2>1. /\ Hold(a[2]) \in Nat /\ Hold(a[2])' \in Nat /\ Hold(a[2])' >= Hold(a[2])
        /\ Hold(b[2]) \in Nat /\ Hold(b[2])' \in Nat /\ Hold(b[2])' >= Hold(b[2])
    BY <1>1, <1>2, HoldFacts, HoldStays
  <2>2. FinalHere(a)'
    BY <1>2, <2>1, FinalStay DEF Here
  <2>3. FinalHere(b)'
    BY <1>1, <1>2, <2>1, FinalStay DEF Here
  <2> QED BY <2>2, <2>3
<1>4. Mover(a)
  BY <1>2 DEF Mover, Moving, Awaiting
<1>5. /\ Finished(b[1], state[b]) \/ Waits(b)
      /\ Room(k, u) \in Nat /\ Echo(k, u) \in Nat
      /\ Room(k, u + 1) >= Room(k, u) + 1 /\ Echo(k, u + 1) >= Echo(k, u) + 2
  BY <1>1, <1>2, <1>4, BudgetFacts DEF BudgetHere, Mover, Waits, Peer
<1>6. ~Mover(b)'
  BY <1>1, <1>2, <1>5 DEF Mover, Moving, Waits
<1>7. /\ Len(inbox[a]) \in Nat /\ Len(inbox'[a]) \in Nat
      /\ Len(inbox[b]) \in Nat /\ Len(inbox'[b]) \in Nat
      /\ Credit(b) \in Nat /\ Credit(b)' \in Nat
      /\ Len(inbox'[a]) <= Len(inbox[a]) /\ Len(inbox'[b]) <= Len(inbox[b]) + 1
  BY <1>1, <1>2, EndFacts, EndFactsNext DEF Prefix, Gets
<1>8. PICK n \in Nat : Held(a, n)
  BY <1>4 DEF Here, MoverHere
<1>9. /\ Len(inbox[b]) <= Room(k, u)
      /\ Waits(b) => Len(inbox[a]) + Credit(b) + 2 * Len(inbox[b]) <= Echo(k, u)
  <2>1. Debt(a, n) = 0
    BY <1>2 DEF Debt
  <2>2. /\ Len(inbox[b]) + 0 <= Room(k, u)
        /\ Waits(b) => Len(inbox[a]) + Credit(b) + 2 * (Len(inbox[b]) + 0) <= Echo(k, u)
    BY <1>8, <2>1 DEF Held
  <2> QED BY <1>7, <2>2
<1>10. Held(a, 0)'
  <2>1. Debt(a, 0)' = 0 /\ (Waits(b)' <=> Waits(b))
    BY <1>1, <1>2 DEF Debt, Waits
  <2>2. Position(a[2])' = k
    BY <1>2, EndFacts, EndFactsNext
  <2>3. Room(k, u + 1) \in Nat /\ Echo(k, u + 1) \in Nat
    <3> HIDE DEF k, u
    <3>1. /\ Room(Position(a[2])', busy'[a[2]]) \in Nat
          /\ Echo(Position(a[2])', busy'[a[2]]) \in Nat
      BY BudgetFactsNext DEF BudgetHere
    <3>2. busy'[a[2]] = u + 1
      BY <1>2
    <3> QED BY <2>2, <3>1, <3>2, Zenon
  <2>4. Len(inbox'[b]) + 0 <= Room(k, u + 1)
    <3>1. PICK l \in Nat : l = Len(inbox[b])
      BY <1>7
    <3>2. PICK l2 \in Nat : l2 = Len(inbox'[b])
      BY <1>7
    <3>3. PICK r \in Nat : r = Room(k, u)
      BY <1>5
    <3>4. PICK r2 \in Nat : r2 = Room(k, u + 1)
      BY <2>3
    <3>5. l2 <= l + 1 /\ l <= r
      BY <1>7, <1>9, <3>1, <3>2, <3>3
    <3>6. r2 >= r + 1
      BY <1>5, <3>3, <3>4
    <3>7. l2 + 0 <= r2
      BY <3>5, <3>6
    <3> QED BY <3>2, <3>4, <3>7, Zenon
  <2>5. Waits(b) => Len(inbox'[a]) + Credit(b)' + 2 * (Len(inbox'[b]) + 0) <= Echo(k, u + 1)
    <3>1. PICK c1 \in Nat : c1 = Credit(b)
      BY <1>5, <1>7, <2>3
    <3>2. PICK c2 \in Nat : c2 = Credit(b)'
      BY <1>5, <1>7, <2>3
    <3>3. PICK a1 \in Nat : a1 = Len(inbox[a])
      BY <1>5, <1>7, <2>3
    <3>4. PICK a2 \in Nat : a2 = Len(inbox'[a])
      BY <1>5, <1>7, <2>3
    <3>5. PICK b1 \in Nat : b1 = Len(inbox[b])
      BY <1>5, <1>7, <2>3
    <3>6. PICK b2 \in Nat : b2 = Len(inbox'[b])
      BY <1>5, <1>7, <2>3
    <3>7. PICK e1 \in Nat : e1 = Echo(k, u)
      BY <1>5, <1>7, <2>3
    <3>8. PICK e2 \in Nat : e2 = Echo(k, u + 1)
      BY <1>5, <1>7, <2>3
    <3>9. /\ e2 >= e1 + 2 /\ c2 <= c1 /\ a2 <= a1 /\ b2 <= b1 + 1
          /\ Waits(b) => a1 + c1 + 2 * b1 <= e1
      BY <1>2, <1>5, <1>7, <1>9, <3>1, <3>2, <3>3, <3>4, <3>5, <3>6, <3>7, <3>8
    <3>10. Waits(b) => a2 + c2 + 2 * (b2 + 0) <= e2
      BY <3>9
    <3> QED BY <3>1, <3>2, <3>3, <3>4, <3>5, <3>6, <3>7, <3>8, <3>10, Zenon
  <2> HIDE DEF b, k, u
  <2>6. Room(Position(a[2])', busy'[a[2]]) = Room(k, u + 1)
        /\ Echo(Position(a[2])', busy'[a[2]]) = Echo(k, u + 1)
    BY <1>2, <2>2, Zenon
  <2> QED BY <1>2, <2>1, <2>4, <2>5, <2>6 DEF Held, b
<1>11. MoverHere(a)' /\ MoverHere(b)'
  BY <1>6, <1>10 DEF MoverHere
<1> QED BY <1>3, <1>11 DEF Here

(* An end that reads a message it does not await: if it is the mover, the  *)
(* awaited one has come nearer; if it waits, its answers are paid for.     *)
LEMMA SkipsKeeps ==
  ASSUME NEW a \in Endpoints, TypeOK, TypeOK', BudgetTable, InStep, Here(a), Here(Peer(a)),
         Skips(a)
  PROVE  Here(a)' /\ Here(Peer(a))'
<1> DEFINE b == Peer(a)
<1>1. b \in Endpoints /\ Peer(b) = a /\ b[2] = a[2]
  BY PeerFacts DEF Peer
<1>2. /\ state'[a] = state[a] /\ state'[b] = state[b] /\ SameBusy(a) /\ SameBusy(b)
      /\ (Mute(a) => Mute(a)') /\ (Mute(b) => Mute(b)')
      /\ Credit(b)' <= Credit(b) /\ Credit(a)' <= Credit(a) + 2
      /\ Awaits(a[1], state[a]) /\ Len(inbox[a]) > 0
      /\ inbox[a][1] # Step[a[1]][state[a]]
      /\ Loses(a) /\ Prefix(b)
  BY <1>1 DEF Skips, Rests, SameBusy
<1>3. FinalHere(a)' /\ FinalHere(b)'
  <2>1. /\ Hold(a[2]) \in Nat /\ Hold(a[2])' \in Nat /\ Hold(a[2])' >= Hold(a[2])
        /\ Hold(b[2]) \in Nat /\ Hold(b[2])' \in Nat /\ Hold(b[2])' >= Hold(b[2])
    BY <1>1, <1>2, HoldFacts, HoldStays
  <2>2. FinalHere(a)'
    BY <1>2, <2>1, FinalStay DEF Here
  <2>3. FinalHere(b)'
    BY <1>1, <1>2, <2>1, FinalStay DEF Here
  <2> QED BY <2>2, <2>3
<1>4. (Mover(a)' <=> Mover(a)) /\ (Mover(b)' <=> Mover(b))
  BY <1>1, <1>2 DEF Mover
<1>5. /\ Len(inbox[a]) \in Nat /\ Len(inbox'[a]) \in Nat
      /\ DOMAIN inbox[a] = 1..Len(inbox[a]) /\ DOMAIN inbox'[a] = 1..Len(inbox'[a])
      /\ DOMAIN inbox[b] = 1..Len(inbox[b]) /\ DOMAIN inbox'[b] = 1..Len(inbox'[b])
      /\ Len(inbox[b]) \in Nat /\ Len(inbox'[b]) \in Nat
      /\ Credit(a) \in Nat /\ Credit(a)' \in Nat /\ Credit(b) \in Nat /\ Credit(b)' \in Nat
  BY <1>1, EndFacts, EndFactsNext
<1>6. Len(inbox'[a]) = Len(inbox[a]) - 1 /\ Len(inbox'[b]) <= Len(inbox[b])
  BY <1>2 DEF Prefix, Loses
<1>7. ASSUME NEW n \in Nat, Held(a, n) PROVE \E m \in Nat : Held(a, m)'
  <2>1. n # 0
    <3> SUFFICES ASSUME n = 0 PROVE FALSE
      OBVIOUS
    <3>1. 1 \in DOMAIN inbox[a] /\ 1 > n
      BY <1>2, <1>5
    <3> QED BY <1>2, <1>7, <3>1 DEF Held
  <2> DEFINE m == n - 1
  <2>2. m \in Nat
    BY <2>1
  <2>3. Debt(a, n) \in Nat /\ Debt(a, m)' \in Nat
    BY <2>2, DebtFacts, DebtFactsNext
  <2>4. Debt(a, m)' <= Debt(a, n)
    <3>1. \/ Debt(a, m)' = 0
          \/ Debt(a, n) = 2 * n + Credit(a) /\ Debt(a, m)' = 2 * m + Credit(a)'
      BY <1>2, <2>2, DebtChange
    <3>2. PICK d1 \in Nat : d1 = Debt(a, n)
      BY <2>3
    <3>3. PICK d2 \in Nat : d2 = Debt(a, m)'
      BY <2>3
    <3>4. PICK c1 \in Nat : c1 = Credit(a)
      BY <1>5
    <3>5. PICK c2 \in Nat : c2 = Credit(a)'
      BY <1>5
    <3>6. PICK g \in Nat : g = n
      OBVIOUS
    <3>7. c2 <= c1 + 2
      BY <1>2, <3>4, <3>5
    <3>8. d2 = 0 \/ (d1 = 2 * g + c1 /\ d2 = 2 * (g - 1) + c2)
      BY <3>1, <3>2, <3>3, <3>4, <3>5, <3>6, Zenon
    <3>9. d2 <= d1
      BY <3>7, <3>8
    <3> QED BY <3>2, <3>3, <3>9, Zenon
  <2>5. ASSUME NEW i \in DOMAIN inbox'[a], i > m PROVE inbox'[a][i] = Step[a[1]][state[a]]
    <3>1. i \in 1..Len(inbox'[a]) /\ i \in Nat /\ i + 1 > n
      BY <1>5, <2>5
    <3>2. i + 1 \in DOMAIN inbox[a]
      BY <1>5, <1>6, <3>1
    <3>3. inbox'[a][i] = inbox[a][i + 1]
      BY <1>2, <3>1 DEF Loses
    <3>4. inbox[a][i + 1] = Step[a[1]][state[a]]
      BY <1>2, <1>7, <3>1, <3>2 DEF Held
    <3> QED BY <3>3, <3>4
  <2>6. Len(inbox'[b]) + Debt(a, m)' <= Len(inbox[b]) + Debt(a, n)
    <3>1. PICK d1 \in Nat : d1 = Debt(a, n)
      BY <2>3
    <3>2. PICK d2 \in Nat : d2 = Debt(a, m)'
      BY <2>3
    <3>3. PICK b1 \in Nat : b1 = Len(inbox[b])
      BY <1>5
    <3>4. PICK b2 \in Nat : b2 = Len(inbox'[b])
      BY <1>5
    <3>5. d2 <= d1 /\ b2 <= b1
      BY <1>6, <2>4, <3>1, <3>2, <3>3, <3>4
    <3>6. b2 + d2 <= b1 + d1
      BY <3>5
    <3> QED BY <3>1, <3>2, <3>3, <3>4, <3>6, Zenon
  <2>7. Len(inbox'[a]) + Credit(b)' <= Len(inbox[a]) + Credit(b)
    BY <1>2, <1>5, <1>6
  <2> HIDE DEF m
  <2>8. Held(a, m)'
    BY <1>1, <1>2, <1>7, <2>2, <2>5, <2>6, <2>7, StayHeldApart
  <2> QED BY <2>2, <2>8
<1>8. ASSUME NEW n \in Nat, Held(b, n) PROVE Held(b, n)'
  <2>1. Debt(b, n) \in Nat /\ Debt(b, n)' \in Nat
    BY <1>1, DebtFacts, DebtFactsNext
  <2>2. Debt(b, n)' <= Debt(b, n)
    BY <1>1, <1>2, DebtFalls
  <2>3. Awaits(b[1], state[b]) =>
          \A i \in DOMAIN inbox'[b] : i > n => inbox'[b][i] = Step[b[1]][state[b]]
    <3> SUFFICES ASSUME Awaits(b[1], state[b]), NEW i \in DOMAIN inbox'[b], i > n
                 PROVE  inbox'[b][i] = Step[b[1]][state[b]]
      OBVIOUS
    <3>1. i \in DOMAIN inbox[b] /\ inbox'[b][i] = inbox[b][i]
      BY <1>1, <1>2, InPrefix
    <3> QED BY <1>8, <3>1 DEF Held
  <2>4. Len(inbox'[a]) + Debt(b, n)' <= Len(inbox[a]) + Debt(b, n)
    BY <1>5, <1>6, <2>1, <2>2
  <2>5. Len(inbox'[b]) + Credit(a)' + 2 * (Len(inbox'[a]) + Debt(b, n)')
          <= Len(inbox[b]) + Credit(a) + 2 * (Len(inbox[a]) + Debt(b, n))
    <3> DEFINE D == Debt(b, n)
               D2 == Debt(b, n)'
               C1 == Credit(a)
               C2 == Credit(a)'
               A1 == Len(inbox[a])
               A2 == Len(inbox'[a])
               B1 == Len(inbox[b])
               B2 == Len(inbox'[b])
    <3>1. /\ D \in Nat /\ D2 \in Nat /\ C1 \in Nat /\ C2 \in Nat
          /\ A1 \in Nat /\ A2 \in Nat /\ B1 \in Nat /\ B2 \in Nat
          /\ D2 <= D /\ C2 <= C1 + 2 /\ A2 = A1 - 1 /\ B2 <= B1
      BY <1>2, <1>5, <1>6, <2>1, <2>2
    <3> HIDE DEF D, D2, C1, C2, A1, A2, B1, B2
    <3>2. B2 + C2 + 2 * (A2 + D2) <= B1 + C1 + 2 * (A1 + D)
      BY <3>1
    <3> QED BY <3>2 DEF D, D2, C1, C2, A1, A2, B1, B2
  <2> QED BY <1>1, <1>2, <1>8, <2>3, <2>4, <2>5, StayHeld
<1>9. MoverHere(a)' /\ MoverHere(b)'
  <2>1. MoverHere(a)'
    BY <1>4, <1>7 DEF Here, MoverHere
  <2>2. MoverHere(b)'
    BY <1>4, <1>8 DEF Here, MoverHere
  <2> QED BY <2>1, <2>2
<1> QED BY <1>3, <1>9 DEF Here
(* How far the ends have come after a move of one of them.                 *)
LEMMA PositionMoves ==
  ASSUME NEW a \in Endpoints, TypeOK, TypeOK', BudgetTable, InStep, Goes(a)
  PROVE  /\ Position(a[2])' = Position(a[2]) + 1
         /\ Hold(a[2]) \in Nat
         /\ Hold(a[2])' = Limit(Position(a[2]) + 1, busy[a[2]])
         /\ Hold(a[2])' >= Hold(a[2])
<1> DEFINE b == Peer(a)
<1>1. b \in Endpoints /\ b[1] = OtherSide(a[1]) /\ a[1] \in Sides /\ b[1] \in Sides
  BY PeerFacts
<1>2. /\ state'[a] = NextState[a[1]][state[a]] /\ state'[b] = state[b] /\ busy'[a[2]] = busy[a[2]]
      /\ Mover(a) /\ ~Finished(a[1], state[a])
  BY DEF Goes, Rests, SameBusy, Mover, Moving
<1>3. /\ state[a] \in States(a[1]) /\ state[b] \in States(b[1])
      /\ Position(a[2]) = Rank[a[1]][state[a]] + Rank[b[1]][state[b]]
      /\ Position(a[2])' = Rank[a[1]][state'[a]] + Rank[b[1]][state'[b]]
  BY <1>1, EndFacts, EndFactsNext
<1>4. /\ Rank[a[1]][state[a]] \in Nat /\ Rank[b[1]][state[b]] \in Nat
      /\ Rank[a[1]][state'[a]] = Rank[a[1]][state[a]] + 1
  BY <1>1, <1>2, <1>3, PathAssumption
<1>5. Position(a[2])' = Position(a[2]) + 1
  <2>1. Rank[b[1]][state'[b]] = Rank[b[1]][state[b]]
    BY <1>2
  <2> DEFINE r == Rank[a[1]][state[a]]
             r2 == Rank[a[1]][state'[a]]
             q == Rank[b[1]][state[b]]
             q2 == Rank[b[1]][state'[b]]
  <2>2. r \in Nat /\ q \in Nat /\ r2 = r + 1 /\ q2 = q
    BY <1>4, <2>1
  <2>3. Position(a[2]) = r + q /\ Position(a[2])' = r2 + q2
    BY <1>3
  <2> HIDE DEF r, r2, q, q2
  <2> QED BY <2>2, <2>3
<1>6. Hold(a[2])' = Limit(Position(a[2]) + 1, busy[a[2]])
  BY <1>2, <1>5, Zenon DEF Hold, Limit
<1>7. Limit(Position(a[2]) + 1, busy[a[2]]) >= Limit(Position(a[2]), busy[a[2]])
  BY <1>2, BudgetFacts DEF BudgetHere, Mover
<1> QED BY <1>5, <1>6, <1>7, HoldFacts

(* The mover moves on and is still the mover: it has read the message it   *)
(* awaited, and what was sent before it.                                   *)
LEMMA GoesOnMoving ==
  ASSUME NEW a \in Endpoints, TypeOK, TypeOK', BudgetTable, InStep, InStep',
         Here(a), Goes(a), Mover(a)'
  PROVE  MoverHere(a)' /\ MoverHere(Peer(a))'
<1> DEFINE b == Peer(a)
           k == Position(a[2])
           u == busy[a[2]]
<1>1. b \in Endpoints /\ Peer(b) = a /\ b[2] = a[2] /\ b[1] = OtherSide(a[1])
  BY PeerFacts DEF Peer
<1>2. /\ Mover(a) /\ state'[a] = NextState[a[1]][state[a]] /\ state'[b] = state[b]
      /\ busy'[a[2]] = u /\ Credit(b)' <= Credit(b)
  BY DEF Goes, Rests, SameBusy
<1>3. Position(a[2])' = k + 1
  BY PositionMoves
<1>4. /\ Awaits(a[1], state[a]) /\ ~Awaits(a[1], state'[a])
      /\ Room(k, u) \in Nat /\ Echo(k, u) \in Nat
      /\ Room(k + 1, u) >= Room(k, u) + 1 /\ Echo(k + 1, u) >= Echo(k, u) + 1
  <2>1. Moving(a[1], state[a], state[b]) /\ Moving(a[1], NextState[a[1]][state[a]], state[b])
    BY <1>2 DEF Mover
  <2> QED BY <1>2, <2>1, BudgetFacts DEF BudgetHere
<1>5. Room(k + 1, u) \in Nat /\ Echo(k + 1, u) \in Nat
  <2>1. /\ Room(Position(a[2])', busy'[a[2]]) \in Nat
        /\ Echo(Position(a[2])', busy'[a[2]]) \in Nat
    BY BudgetFactsNext DEF BudgetHere
  <2> QED BY <1>2, <1>3, <2>1
<1>6. ~Mover(b)'
  <2>1. Finished(b[1], state'[b]) \/ Awaiting(b[1], state'[b], state'[a])
    BY <1>1, BudgetFactsNext DEF BudgetHere, Mover
  <2> QED BY <1>1, <2>1 DEF Mover, Moving
<1>7. Waits(b)' => Waits(b)
  <2> SUFFICES ASSUME Waits(b)' PROVE Waits(b)
    OBVIOUS
  <2>1. ~Finished(b[1], state[b])
    BY <1>2 DEF Waits, Awaiting, Finished, Awaits, Kinds
  <2> QED BY <1>1, <1>2, <2>1, BudgetFacts DEF BudgetHere, Mover, Waits
<1>8. /\ Len(inbox[a]) \in Nat /\ Len(inbox'[a]) \in Nat
      /\ Len(inbox[b]) \in Nat /\ Len(inbox'[b]) \in Nat
      /\ Credit(b) \in Nat /\ Credit(b)' \in Nat
  BY <1>1, EndFacts, EndFactsNext
<1>9. Len(inbox'[a]) = Len(inbox[a]) - 1 /\ Len(inbox'[b]) <= Len(inbox[b]) + 1
  <2>1. Extra(a[1], state[a]) = 0
    <3>1. a[1] \in Sides /\ state[a] \in States(a[1])
      BY EndFacts, PeerFacts
    <3>2. Run[a[1]][state[a]] # "join"
      BY <1>4, <3>1, TableAssumption
    <3> QED BY <3>2 DEF Extra
  <2> QED BY <1>4, <1>8, <2>1 DEF Goes, Loses, Gets
<1>10. PICK n \in Nat : Held(a, n)
  BY <1>2 DEF Here, MoverHere
<1>11. /\ Len(inbox[b]) + Debt(a, n) <= Room(k, u) /\ Debt(a, n) \in Nat
       /\ Waits(b) => Len(inbox[a]) + Credit(b) + 2 * (Len(inbox[b]) + Debt(a, n)) <= Echo(k, u)
  BY <1>10, DebtFacts DEF Held
<1>12. Held(a, 0)'
  <2>1. Debt(a, 0)' = 0
    BY <1>4 DEF Debt
  <2> DEFINE D == Debt(a, n)
             C1 == Credit(b)
             C2 == Credit(b)'
             A1 == Len(inbox[a])
             A2 == Len(inbox'[a])
             B1 == Len(inbox[b])
             B2 == Len(inbox'[b])
             R1 == Room(k, u)
             R2 == Room(k + 1, u)
             E1 == Echo(k, u)
             E2 == Echo(k + 1, u)
  <2>2. /\ D \in Nat /\ C1 \in Nat /\ C2 \in Nat /\ A1 \in Nat /\ A2 \in Nat
        /\ B1 \in Nat /\ B2 \in Nat
        /\ R1 \in Nat /\ R2 \in Nat /\ E1 \in Nat /\ E2 \in Nat
        /\ R2 >= R1 + 1 /\ E2 >= E1 + 1 /\ C2 <= C1 /\ A2 = A1 - 1 /\ B2 <= B1 + 1
        /\ B1 + D <= R1
        /\ Waits(b)' => A1 + C1 + 2 * (B1 + D) <= E1
    BY <1>2, <1>4, <1>5, <1>7, <1>8, <1>9, <1>11
  <2> HIDE DEF D, C1, C2, A1, A2, B1, B2, R1, R2, E1, E2
  <2>3. B2 + 0 <= R2 /\ (Waits(b)' => A2 + C2 + 2 * (B2 + 0) <= E2)
    BY <2>2
  <2>4. Room(Position(a[2])', busy'[a[2]]) = R2 /\ Echo(Position(a[2])', busy'[a[2]]) = E2
    BY <1>2, <1>3 DEF R2, E2
  <2> HIDE DEF b, k, u
  <2> QED BY <1>4, <2>1, <2>3, <2>4 DEF Held, b, C2, A2, B2
<1> QED BY <1>6, <1>12 DEF MoverHere

(* While one end can move the other one waits, or is at its end.           *)
LEMMA OtherWaits ==
  ASSUME BudgetTable, TypeOK, InStep, NEW a \in Endpoints, Mover(a)
  PROVE  Finished(OtherSide(a[1]), state[Peer(a)]) \/ Waits(Peer(a))
<1>1. Peer(Peer(a)) = a /\ Peer(a)[1] = OtherSide(a[1])
  BY PeerFacts
<1>2. Moving(a[1], state[a], state[Peer(a)])
  BY DEF Mover
<1>3. Finished(OtherSide(a[1]), state[Peer(a)])
        \/ Awaiting(OtherSide(a[1]), state[Peer(a)], state[a])
  BY <1>2, BudgetFacts DEF BudgetHere
<1> QED BY <1>1, <1>3, Zenon DEF Waits

(* What the numbers say when the mover moves on and waits, or is at its    *)
(* end: the other end is now the mover, and skips what was sent before.    *)
LEMMA HandOver ==
  ASSUME NEW a \in Endpoints, NEW b, b = Peer(a), TypeOK, TypeOK', BudgetTable, InStep, InStep',
         Here(a), Goes(a), ~Mover(a)', Mover(b)', NEW x \in Nat, x = Extra(a[1], state[a]),
         NEW m \in Nat, m = Len(inbox[b]) + x
  PROVE  Held(b, m)'
<1> DEFINE k == Position(a[2])
           u == busy[a[2]]
<1>1. /\ b \in Endpoints /\ Peer(b) = a /\ b[2] = a[2]
      /\ b[1] = OtherSide(a[1]) /\ a[1] = OtherSide(b[1])
  BY PeerFacts DEF Peer
<1>2. /\ Mover(a) /\ state'[a] = NextState[a[1]][state[a]] /\ state'[b] = state[b]
      /\ busy'[a[2]] = u /\ busy'[b[2]] = u /\ Credit(b)' <= Credit(b)
      /\ Gets(b, x, state'[a]) /\ x \in {0, 1}
  BY <1>1 DEF Goes, Rests, SameBusy, Extra
<1>3. Position(a[2])' = k + 1 /\ Position(b[2])' = k + 1
  BY <1>1, PositionMoves
<1>4. ~Finished(b[1], state[b]) /\ Waits(b)
  <2>1. ~Finished(b[1], state[b])
    BY <1>2 DEF Mover, Moving
  <2> QED BY <1>1, <1>2, <2>1, OtherWaits
<1>5. /\ Room(k, u) \in Nat /\ Echo(k, u) \in Nat /\ Room(k + 1, u) >= Echo(k, u) + 2 * x
      /\ ~Finished(a[1], state'[a]) => Echo(k + 1, u) >= Room(k, u) + 2 * Echo(k, u) + 4 + 5 * x
  <2>1. Moving(a[1], state[a], state[b]) /\ ~Moving(a[1], NextState[a[1]][state[a]], state[b])
    BY <1>2 DEF Mover
  <2>2. ~Finished(OtherSide(a[1]), state[b])
    BY <1>1, <1>4
  <2>3. /\ Room(k, u) \in Nat /\ Echo(k, u) \in Nat
        /\ Room(k + 1, u) >= Echo(k, u) + 2 * Extra(a[1], state[a])
        /\ ~Finished(a[1], NextState[a[1]][state[a]]) =>
             Echo(k + 1, u) >= Room(k, u) + 2 * Echo(k, u) + 4 + 5 * Extra(a[1], state[a])
    BY <2>1, <2>2, BudgetFacts DEF BudgetHere
  <2> QED BY <1>2, <2>3
<1>6. Room(k + 1, u) \in Nat /\ Echo(k + 1, u) \in Nat
  <2>1. /\ Room(Position(a[2])', busy'[a[2]]) \in Nat
        /\ Echo(Position(a[2])', busy'[a[2]]) \in Nat
    BY BudgetFactsNext DEF BudgetHere
  <2> QED BY <1>2, <1>3, <2>1
<1>7. Waits(a)' => ~Finished(a[1], state'[a])
  BY DEF Waits, Awaiting, Finished, Awaits, Kinds
<1>8. Awaits(b[1], state'[b]) => state'[a] = Step[b[1]][state'[b]]
  BY <1>1, BudgetFactsNext DEF BudgetHere, Mover
<1>9. /\ Len(inbox[a]) \in Nat /\ Len(inbox'[a]) \in Nat
      /\ Len(inbox[b]) \in Nat /\ Len(inbox'[b]) \in Nat
      /\ Credit(b) \in Nat /\ Credit(b)' \in Nat /\ Credit(a)' \in Nat /\ Credit(a)' <= 3
      /\ DOMAIN inbox'[b] = 1..Len(inbox'[b])
  BY <1>1, EndFacts, EndFactsNext
<1>10. Len(inbox'[a]) <= Len(inbox[a]) /\ Len(inbox'[b]) <= Len(inbox[b]) + x + 1
  BY <1>2, <1>9 DEF Goes, Prefix, Loses, Gets
<1>11. PICK n \in Nat : Held(a, n)
  BY <1>2 DEF Here, MoverHere
<1>12. /\ Len(inbox[b]) + Debt(a, n) <= Room(k, u) /\ Debt(a, n) \in Nat
       /\ Len(inbox[a]) + Credit(b) + 2 * (Len(inbox[b]) + Debt(a, n)) <= Echo(k, u)
  BY <1>4, <1>11, DebtFacts DEF Held
<1>13. Awaits(b[1], state'[b]) =>
         \A i \in DOMAIN inbox'[b] : i > m => inbox'[b][i] = Step[b[1]][state'[b]]
  <2>1. \A i \in 1..Len(inbox'[b]) : i > m => inbox'[b][i] = state'[a]
    BY <1>2 DEF Gets
  <2> QED BY <1>8, <1>9, <2>1
<1>14. Debt(b, m)' \in Nat /\ Debt(b, m)' <= 2 * m + Credit(b)'
  BY <1>1, DebtFactsNext
<1>15. PICK d \in Nat : d = Debt(a, n)
  BY <1>12
<1>16. PICK d2 \in Nat : d2 = Debt(b, m)'
  BY <1>14
<1>17. PICK c1 \in Nat : c1 = Credit(b)
  BY <1>9
<1>18. PICK c2 \in Nat : c2 = Credit(b)'
  BY <1>9
<1>19. PICK f2 \in Nat : f2 = Credit(a)'
  BY <1>9
<1>20. PICK a1 \in Nat : a1 = Len(inbox[a])
  BY <1>9
<1>21. PICK a2 \in Nat : a2 = Len(inbox'[a])
  BY <1>9
<1>22. PICK b1 \in Nat : b1 = Len(inbox[b])
  BY <1>9
<1>23. PICK b2 \in Nat : b2 = Len(inbox'[b])
  BY <1>9
<1>24. PICK r1 \in Nat : r1 = Room(k, u)
  BY <1>5
<1>25. PICK r2 \in Nat : r2 = Room(k + 1, u)
  BY <1>6
<1>26. PICK e1 \in Nat : e1 = Echo(k, u)
  BY <1>5
<1>27. PICK e2 \in Nat : e2 = Echo(k + 1, u)
  BY <1>6
<1>28. PICK g \in Nat : g = x
  OBVIOUS
<1>29. /\ g <= 1 /\ c2 <= c1 /\ f2 <= 3 /\ a2 <= a1 /\ b2 <= b1 + g + 1
  <2>1. g <= 1
    BY <1>2, <1>28
  <2>2. c2 <= c1
    BY <1>2, <1>17, <1>18
  <2>3. f2 <= 3
    BY <1>9, <1>19
  <2>4. a2 <= a1
    BY <1>10, <1>20, <1>21
  <2>5. b2 <= b1 + g + 1
    BY <1>10, <1>22, <1>23, <1>28
  <2> QED BY <2>1, <2>2, <2>3, <2>4, <2>5
<1>30. b1 + d <= r1 /\ a1 + c1 + 2 * (b1 + d) <= e1
  BY <1>12, <1>15, <1>17, <1>20, <1>22, <1>24, <1>26
<1>31. d2 <= 2 * (b1 + g) + c2
  BY <1>14, <1>16, <1>18, <1>22, <1>28
<1>32. r2 >= e1 + 2 * g /\ (Waits(a)' => e2 >= r1 + 2 * e1 + 4 + 5 * g)
  BY <1>5, <1>7, <1>24, <1>25, <1>26, <1>27, <1>28
<1>33. a2 + d2 <= e1 + 2 * g
  <2>1. a2 + d2 <= (a1 + c1 + 2 * b1) + 2 * g
    BY <1>29, <1>31
  <2>2. a1 + c1 + 2 * b1 <= e1
    BY <1>30
  <2> QED BY <2>1, <2>2
<1>34. a2 + d2 <= r2
  BY <1>32, <1>33
<1>35. Waits(a)' => b2 + f2 + 2 * (a2 + d2) <= e2
  <2>1. b2 + f2 <= r1 + g + 4
    BY <1>29, <1>30
  <2>2. b2 + f2 + 2 * (a2 + d2) <= r1 + g + 4 + 2 * (e1 + 2 * g)
    BY <1>33, <2>1
  <2> QED BY <1>32, <2>2
<1>36. Room(Position(b[2])', busy'[b[2]]) = r2 /\ Echo(Position(b[2])', busy'[b[2]]) = e2
  BY <1>2, <1>3, <1>25, <1>27
<1>37. /\ Len(inbox'[a]) + Debt(b, m)' <= Room(Position(b[2])', busy'[b[2]])
       /\ Waits(a)' => Len(inbox'[b]) + Credit(a)' + 2 * (Len(inbox'[a]) + Debt(b, m)')
                         <= Echo(Position(b[2])', busy'[b[2]])
  BY <1>16, <1>19, <1>21, <1>23, <1>34, <1>35, <1>36, Zenon
<1> HIDE DEF k, u
<1>38. Peer(b) = a
  BY <1>1
<1> QED BY <1>13, <1>37, <1>38 DEF Held

(* The mover moves on and waits, or has come to its end.                   *)
LEMMA GoesToWait ==
  ASSUME NEW a \in Endpoints, TypeOK, TypeOK', BudgetTable, InStep, InStep',
         Here(a), Goes(a), ~Mover(a)'
  PROVE  MoverHere(a)' /\ MoverHere(Peer(a))'
<1>1. MoverHere(a)'
  BY DEF MoverHere
<1>2. Peer(a) \in Endpoints
  BY PeerFacts
<1>3. PICK x \in Nat : x = Extra(a[1], state[a])
  BY DEF Extra
<1>4. Len(inbox[Peer(a)]) \in Nat
  BY <1>2, EndFacts
<1>5. PICK m \in Nat : m = Len(inbox[Peer(a)]) + x
  BY <1>3, <1>4
<1>6. Mover(Peer(a))' => Held(Peer(a), m)'
  BY <1>3, <1>5, HandOver
<1>7. MoverHere(Peer(a))'
  BY <1>6 DEF MoverHere
<1> QED BY <1>1, <1>7

(* An end that moves on.                                                   *)
LEMMA GoesKeeps ==
  ASSUME NEW a \in Endpoints, TypeOK, TypeOK', BudgetTable, InStep, InStep',
         Here(a), Here(Peer(a)), Goes(a)
  PROVE  Here(a)' /\ Here(Peer(a))'
<1> DEFINE b == Peer(a)
           k == Position(a[2])
           u == busy[a[2]]
<1>1. b \in Endpoints /\ Peer(b) = a /\ b[2] = a[2] /\ b[1] = OtherSide(a[1])
  BY PeerFacts DEF Peer
<1>2. MoverHere(a)' /\ MoverHere(b)'
  BY GoesOnMoving, GoesToWait
<1>3. /\ Hold(a[2]) \in Nat /\ Hold(a[2])' \in Nat /\ Hold(a[2])' >= Hold(a[2])
      /\ Room(k, u) \in Nat /\ Room(k, u) <= Hold(a[2])
  <2>1. Hold(a[2])' \in Nat
    <3>1. Limit(Position(a[2])', busy'[a[2]]) \in Nat
      BY BudgetFactsNext DEF BudgetHere
    <3> QED BY <3>1 DEF Hold, Limit
  <2> QED BY <2>1, PositionMoves, HoldFacts
<1>4. FinalHere(b)'
  <2>1. state'[b] = state[b] /\ (Prefix(a) \/ Loses(a))
    BY DEF Goes, Rests
  <2> QED BY <1>1, <1>3, <2>1, FinalStay DEF Here
<1>5. FinalHere(a)'
  <2> SUFFICES ASSUME Finished(a[1], state'[a]), NEW i \in DOMAIN inbox'[b], i > Hold(a[2])'
               PROVE  Finished(a[1], inbox'[b][i])
    BY DEF FinalHere
  <2>1. Extra(a[1], state[a]) = 0
    <3>1. Moving(a[1], state[a], state[b]) /\ state'[a] = NextState[a[1]][state[a]]
      BY DEF Goes, Mover
    <3>2. Run[a[1]][state[a]] # "join"
      BY <3>1, BudgetFacts DEF BudgetHere, Moving
    <3> QED BY <3>2 DEF Extra
  <2>2. Gets(b, 0, state'[a]) /\ Mover(a)
    BY <2>1 DEF Goes
  <2>3. PICK n \in Nat : Held(a, n)
    BY <2>2 DEF Here, MoverHere
  <2>4. /\ Len(inbox[b]) \in Nat /\ DOMAIN inbox'[b] = 1..Len(inbox'[b]) /\ Debt(a, n) \in Nat
        /\ Len(inbox'[b]) \in Nat
    BY <1>1, EndFacts, EndFactsNext, DebtFacts
  <2>5. Len(inbox[b]) + Debt(a, n) <= Room(k, u)
    BY <2>3 DEF Held
  <2>6. i \in 1..Len(inbox'[b]) /\ i > Len(inbox[b]) + 0
    BY <1>3, <2>4, <2>5
  <2>7. inbox'[b][i] = state'[a]
    BY <2>2, <2>6 DEF Gets
  <2> QED BY <2>7
<1> QED BY <1>2, <1>4, <1>5 DEF Here

--------------------------------------------------------------------------------
(* A connection that was made stays made, and one that broke stays broken. *)
Keeps ==
  \A e \in Endpoints : (conn[e] # "none" => conn'[e] # "none") /\ (Broken(e) => Broken(e)')

(* What process p leaves alone: all but its instance, and all but the      *)
(* connection of that instance.                                            *)
Frame(p) ==
  /\ TypeOK' /\ Others(p) /\ Keeps /\ pc[p] \notin Halted
  /\ \A x \in Endpoints : x # At(p) => state'[x] = state[x] /\ ready'[x] = ready[x]
  /\ \A x \in Endpoints : x[2] # At(p)[2] => inbox'[x] = inbox[x] /\ busy'[x[2]] = busy[x[2]]

(* What a step that polls a is for the messages.                           *)
Exchange(a) ==
  /\ \A x \in Endpoints : x[2] # a[2] => Eases(x)
  /\ \/ Eases(a) /\ Eases(Peer(a))
     \/ Says(a) \/ Repeats(a) \/ Reports(a) \/ Skips(a) \/ Goes(a)

(* A connection does not come back, and what is broken stays so.           *)
LEMMA ShutdownKeeps ==
  ASSUME TypeOK, NEW p \in Processes, NEW box, Shutdown(p, box)
  PROVE  Keeps
<1> SUFFICES ASSUME NEW e \in Endpoints
             PROVE  (conn[e] # "none" => conn'[e] # "none") /\ (Broken(e) => Broken(e)')
  BY DEF Keeps
<1>1. conn'[e] = CASE conn[e] \in {"none", "closed"} -> conn[e]
                   [] conn[e] \in Alive /\ Owner(e) = p -> "closed"
                   [] conn[e] = "open" /\ Owner(Peer(e)) = p ->
                        IF box[Peer(e)] = <<>> THEN "eof" ELSE "rst"
                   [] OTHER -> conn[e]
  BY DEF Shutdown
<1> QED BY <1>1 DEF Broken, Alive

LEMMA TransmitKeeps ==
  ASSUME TypeOK, NEW e \in Endpoints, NEW msgs, NEW box, Transmit(e, msgs, box)
  PROVE  Keeps
  BY DEF Transmit, Keeps, Broken, TypeOK

(* The endpoints p is not polling rest.                                    *)
LEMMA FrameRests ==
  ASSUME TypeOK, NEW p \in Processes, Frame(p), NEW x \in Endpoints
  PROVE  /\ x # At(p) => Rests(x)
         /\ x[2] # At(p)[2] => Eases(x)
         /\ Mute(x) => Mute(x)'
<1> DEFINE o == Owner(x)
<1>0. o \in Processes /\ At(p) \in Endpoints /\ Owner(At(p)) = p
  BY PeerFacts, AtFacts
<1>1. Mute(x) => Mute(x)'
  <2>1. pc[o] \in Halted => o # p /\ pc'[o] = pc[o]
    BY <1>0 DEF Frame, Others
  <2>2. Broken(x) => Broken(x)'
    BY DEF Frame, Keeps
  <2> QED BY <2>1, <2>2 DEF Mute
<1>2. ASSUME x # At(p) PROVE Rests(x)
  <2>1. state'[x] = state[x] /\ ready'[x] = ready[x]
    BY <1>2 DEF Frame
  <2>2. Reads(x) => Reads(x)'
    <3> SUFFICES ASSUME Reads(x) PROVE Reads(x)'
      OBVIOUS
    <3>1. o # p
      BY <1>2 DEF Reads
    <3>2. pc'[o] = pc[o] /\ turn'[o] = turn[o]
      BY <1>0, <3>1 DEF Frame, Others
    <3> QED BY <3>2 DEF Reads, At
  <2>3. ready[x] \in BOOLEAN
    BY DEF TypeOK
  <2>4. Credit(x)' <= Credit(x)
    <3> HIDE DEF o
    <3> QED BY <1>1, <2>1, <2>2, <2>3 DEF Credit
  <2> QED BY <1>1, <2>1, <2>4 DEF Rests
<1>3. ASSUME x[2] # At(p)[2] PROVE Eases(x)
  <2>1. Rests(x)
    BY <1>2, <1>3
  <2>2. inbox'[x] = inbox[x] /\ busy'[x[2]] = busy[x[2]] /\ Len(inbox[x]) \in Nat
    BY <1>3, EndFacts DEF Frame
  <2> QED BY <2>1, <2>2 DEF Eases, Prefix, SameBusy
<1> QED BY <1>1, <1>2, <1>3

(* So does the one it polls, unless it was reading.                        *)
LEMMA FrameHere ==
  ASSUME TypeOK, NEW p \in Processes, Frame(p), NEW a \in Endpoints, a = At(p),
         state'[a] = state[a], ready'[a] = ready[a], pc[p] # "recv" \/ Mute(a)'
  PROVE  Rests(a)
<1>1. Owner(a) = p
  BY AtFacts
<1>2. Mute(a) => Mute(a)'
  BY FrameRests
<1>3. ready[a] \in BOOLEAN
  BY DEF TypeOK
<1>4. pc[p] # "recv" => ~Reads(a)
  BY <1>1 DEF Reads
<1>5. Credit(a)' <= Credit(a)
  BY <1>2, <1>3, <1>4 DEF Credit
<1> QED BY <1>2, <1>5 DEF Rests

(* A step that touches no message.                                         *)
LEMMA QuietExchange ==
  ASSUME TypeOK, TypeOK', NEW p \in Processes, Others(p), Keeps, pc[p] \notin Halted,
         NEW a \in Endpoints, a = At(p),
         UNCHANGED <<state, ready, inbox, busy>>, pc[p] # "recv" \/ Mute(a)'
  PROVE  Exchange(a) /\ Eases(Peer(a))
<1> DEFINE b == Peer(a)
<1>1. b \in Endpoints /\ b # a
  BY PeerFacts
<1>2. Frame(p)
  BY DEF Frame
<1>3. Rests(a) /\ Rests(b)
  BY <1>1, <1>2, FrameRests, FrameHere
<1>4. Len(inbox[a]) \in Nat /\ Len(inbox[b]) \in Nat
  BY <1>1, EndFacts
<1>5. Eases(a) /\ Eases(b)
  BY <1>3, <1>4 DEF Eases, Prefix, SameBusy
<1>6. \A x \in Endpoints : x[2] # a[2] => Eases(x)
  BY <1>2, FrameRests
<1> HIDE DEF b
<1> QED BY <1>5, <1>6 DEF Exchange, b

--------------------------------------------------------------------------------
(* What a step of p does to the end of its run.                            *)
Ending(p, a) ==
  /\ \A q \in Processes : q # p => count'[q] = count[q]
  /\ pc'[p] = "finish" =>
       turn'[p] = turn[p] /\ Finished(a[1], state'[a]) /\ count'[p] > 0
  /\ state'[a] # state[a] /\ Finished(a[1], state'[a]) =>
       pc'[p] \in Halted \/ (pc'[p] = "finish" /\ count'[p] = NotifyDone)
  /\ pc[p] \notin {"poll", "recv"} =>
       \/ NotifyFinished(p)
       \/ /\ Eases(Peer(a)) /\ goal'[p] = goal[p] /\ pc'[p] # "finish"
          /\ pc[p] = "finish" => pc'[p] \in Halted

(* The whole of it.                                                        *)
Deed(p, a) == Summary(p) /\ pc[p] \notin Halted /\ Keeps /\ Exchange(a) /\ Ending(p, a)

(* A step that halts, begins to read or ends a poll.                       *)
LEMMA PolledEnding ==
  ASSUME TypeOK, NEW p \in Processes, NEW a \in Endpoints, a = At(p), pc[p] \in {"poll", "recv"},
         NEW box,
         \/ Panic(p, box)
         \/ Reading(p) /\ state'[a] = state[a]
         \/ EndRun(p, state'[a])
  PROVE  Ending(p, a)
<1>0. a[1] = SideOf(p) /\ NotifyDone > 0
  BY AtFacts, BoundsAssumption
<1>1. CASE Panic(p, box)
  BY <1>1 DEF Panic, Ending, Halted, TypeOK
<1>2. CASE Reading(p) /\ state'[a] = state[a]
  BY <1>2 DEF Reading, Ending, TypeOK
<1>3. CASE EndRun(p, state'[a])
  <2>1. CASE Finished(SideOf(p), state'[a])
    BY <1>0, <1>3, <2>1 DEF EndRun, Ending, TypeOK
  <2>2. CASE ~Finished(SideOf(p), state'[a])
    BY <1>0, <1>3, <2>2 DEF EndRun, NextInstance, Ending, TypeOK
  <2> QED BY <2>1, <2>2
<1> QED BY <1>1, <1>2, <1>3

(* What a notification from a brings its peer, if anything.                *)
Brings(a, msgs, box) ==
  \/ inbox'[Peer(a)] = box[Peer(a)]
  \/ conn[a] = "open" /\ inbox'[Peer(a)] = box[Peer(a)] \o msgs

BringsOne(a) ==
  \/ Len(inbox'[Peer(a)]) = Len(inbox[Peer(a)])
  \/ Len(inbox'[Peer(a)]) = Len(inbox[Peer(a)]) + 1 /\ conn[a] = "open"

(* What a notification, or the panic instead of it, does to the inboxes.   *)
LEMMA SendFacts ==
  ASSUME TypeOK, NEW p \in Processes, NEW a \in Endpoints, a = At(p), NEW msgs, NEW box,
         BoxOK(box), Transmit(a, msgs, box) \/ Panic(p, box)
  PROVE  /\ Keeps
         /\ \A x \in Endpoints : x # Peer(a) => inbox'[x] = box[x]
         /\ Brings(a, msgs, box)
<1>1. CASE Transmit(a, msgs, box)
  <2>1. Keeps
    BY <1>1, TransmitKeeps
  <2>2. inbox' = box \/ (conn[a] = "open" /\ inbox' = [box EXCEPT ![Peer(a)] = @ \o msgs])
    BY <1>1 DEF Transmit
  <2> QED BY <2>1, <2>2, PeerFacts DEF BoxOK, Brings
<1>2. CASE Panic(p, box)
  BY <1>2, ShutdownKeeps DEF Panic, Brings
<1> QED BY <1>1, <1>2

(* What one message, or two, bring to an inbox, and what reading one       *)
(* takes away.                                                             *)
LEMMA GetsOne ==
  ASSUME TypeOK, NEW b \in Endpoints, NEW m,
         inbox'[b] = inbox[b] \/ inbox'[b] = inbox[b] \o <<m>>
  PROVE  /\ Gets(b, 0, m)
         /\ Len(inbox'[b]) = Len(inbox[b])
              \/ (inbox'[b] = inbox[b] \o <<m>> /\ Len(inbox'[b]) = Len(inbox[b]) + 1)
<1> DEFINE l == inbox[b]
<1>1. l \in Seq(AllStates) /\ Len(l) \in Nat
  BY DEF TypeOK
<1>2. /\ Len(l \o <<m>>) = Len(l) + 1
      /\ \A i \in 1..(Len(l) + 1) : (l \o <<m>>)[i] = IF i <= Len(l) THEN l[i] ELSE m
  <2>1. l \in Seq(AllStates \cup {m}) /\ <<m>> \in Seq(AllStates \cup {m}) /\ Len(<<m>>) = 1
    BY <1>1
  <2> QED BY <2>1
<1>3. CASE inbox'[b] = l
  BY <1>1, <1>3 DEF Gets
<1>4. CASE inbox'[b] = l \o <<m>>
  BY <1>1, <1>2, <1>4 DEF Gets
<1> QED BY <1>3, <1>4

LEMMA GetsTwo ==
  ASSUME TypeOK, NEW b \in Endpoints, NEW m1, NEW m,
         inbox'[b] = inbox[b] \/ inbox'[b] = inbox[b] \o <<m1, m>>
  PROVE  Gets(b, 1, m)
<1> DEFINE l == inbox[b]
<1>1. l \in Seq(AllStates) /\ Len(l) \in Nat
  BY DEF TypeOK
<1>2. /\ Len(l \o <<m1, m>>) = Len(l) + 2
      /\ \A i \in 1..(Len(l) + 2) :
           (l \o <<m1, m>>)[i] = IF i <= Len(l) THEN l[i] ELSE IF i = Len(l) + 1 THEN m1 ELSE m
  <2>1. /\ l \in Seq(AllStates \cup {m1, m}) /\ <<m1, m>> \in Seq(AllStates \cup {m1, m})
        /\ Len(<<m1, m>>) = 2 /\ <<m1, m>>[1] = m1 /\ <<m1, m>>[2] = m
    BY <1>1
  <2> HIDE DEF l
  <2>2. /\ Len(l \o <<m1, m>>) = Len(l) + 2
        /\ \A i \in 1..(Len(l) + 2) :
             (l \o <<m1, m>>)[i] = IF i <= Len(l) THEN l[i] ELSE <<m1, m>>[i - Len(l)]
    BY <1>1, <2>1
  <2> QED BY <1>1, <2>1, <2>2
<1>3. CASE inbox'[b] = l
  BY <1>1, <1>3 DEF Gets
<1>4. CASE inbox'[b] = l \o <<m1, m>>
  BY <1>1, <1>2, <1>4 DEF Gets
<1> QED BY <1>3, <1>4

LEMMA PoppedLoses ==
  ASSUME TypeOK, NEW a \in Endpoints, inbox[a] # <<>>, inbox'[a] = Popped(a)[a]
  PROVE  /\ Loses(a) /\ Len(inbox[a]) > 0 /\ Head(inbox[a]) = inbox[a][1]
<1>1. inbox[a] \in Seq(AllStates) /\ inbox'[a] = Tail(inbox[a])
  BY DEF TypeOK, Popped
<1>2. Len(inbox[a]) \in Nat /\ Len(inbox[a]) > 0 /\ Head(inbox[a]) = inbox[a][1]
  BY <1>1, EmptySeq, LenProperties
<1>3. /\ Len(Tail(inbox[a])) = Len(inbox[a]) - 1
      /\ \A i \in 1..Len(Tail(inbox[a])) : Tail(inbox[a])[i] = inbox[a][i + 1]
  BY <1>1, <1>2, HeadTailProperties
<1> QED BY <1>1, <1>2, <1>3 DEF Loses

(* A move of the instance p polls is one of the mover.                     *)
LEMMA MoveExchange ==
  ASSUME TypeOK, NEW p \in Processes, Frame(p), NEW a \in Endpoints, a = At(p), MoveStep(p),
         SameBusy(a), Prefix(a) \/ Loses(a), Awaits(a[1], state[a]) => Loses(a),
         Gets(Peer(a), Extra(a[1], state[a]), state'[a])
  PROVE  Exchange(a)
<1> DEFINE b == Peer(a)
<1>1. b \in Endpoints /\ b # a /\ b[1] = OtherSide(a[1]) /\ a[1] = SideOf(p)
      /\ a[1] \in Sides /\ b[1] \in Sides
  BY PeerFacts, AtFacts
<1>2. ~Finished(a[1], state[a]) /\ state'[a] = NextState[a[1]][state[a]]
  BY <1>1, MoveFacts DEF MoveStep, NewState
<1>3. ~Awaiting(a[1], state[a], state[b])
  <2> SUFFICES ASSUME Awaits(a[1], state[a])
               PROVE  Rank[b[1]][state[b]] >= Rank[b[1]][Step[a[1]][state[a]]]
                                              /\ Rank[b[1]][state[b]] \in Nat
                                              /\ Rank[b[1]][Step[a[1]][state[a]]] \in Nat
    BY <1>1 DEF Awaiting
  <2>1. state[b] \in States(b[1]) /\ state[a] \in States(a[1])
    BY <1>1 DEF TypeOK
  <2>2. Step[a[1]][state[a]] \in States(b[1])
    BY <1>1, <2>1, TableAssumption DEF Awaits
  <2>3. Rank[b[1]][state[b]] \in Nat /\ Rank[b[1]][Step[a[1]][state[a]]] \in Nat
    BY <1>1, <2>1, <2>2, PathAssumption
  <2>4. Reached(b, Step[a[1]][state[a]])
    BY <1>1 DEF MoveStep
  <2> QED BY <2>3, <2>4 DEF Reached, RankOf
<1>4. Mover(a)
  BY <1>2, <1>3 DEF Mover, Moving
<1>5. Rests(b) /\ \A x \in Endpoints : x[2] # a[2] => Eases(x)
  BY <1>1, FrameRests
<1> HIDE DEF b
<1>6. Goes(a)
  BY <1>2, <1>4, <1>5 DEF Goes, b
<1> QED BY <1>5, <1>6 DEF Exchange

(* A message is told while no answer is read: it pays with its credit.     *)
LEMMA SaysExchange ==
  ASSUME TypeOK, NEW p \in Processes, Frame(p), NEW a \in Endpoints, a = At(p),
         state'[a] = state[a], SameBusy(a), inbox'[a] = inbox[a], Awaits(a[1], state[a]),
         Gets(Peer(a), 0, state[a]), BringsOne(a),
         ~Mute(a) => Credit(a)' <= Credit(a) /\
                       (conn[a] = "open" => Credit(a)' + 1 <= Credit(a))
  PROVE  Exchange(a)
<1> DEFINE b == Peer(a)
<1>1. b \in Endpoints /\ b # a /\ Owner(a) = p
  BY PeerFacts, AtFacts
<1>2. TypeOK'
  BY DEF Frame
<1>3. Mute(a) => Mute(a)'
  BY FrameRests
<1>4. /\ Gets(b, 0, state[a])
      /\ Len(inbox'[b]) = Len(inbox[b])
           \/ (Len(inbox'[b]) = Len(inbox[b]) + 1 /\ conn[a] = "open")
  BY DEF BringsOne
<1>5. /\ Credit(a) \in Nat /\ Credit(a)' \in Nat /\ Len(inbox[b]) \in Nat /\ Len(inbox'[b]) \in Nat
      /\ Len(inbox[a]) \in Nat
  BY <1>1, <1>2, EndFacts, EndFactsNext
<1>6. conn[a] = "open" => ~Mute(a)
  BY <1>1 DEF Mute, Broken, Frame
<1>7. Credit(a)' + Len(inbox'[b]) <= Credit(a) + Len(inbox[b])
  <2>1. CASE Mute(a)
    <3>1. Credit(a)' = 0
      BY <1>3, <2>1 DEF Credit
    <3> HIDE DEF b
    <3> QED BY <1>4, <1>5, <1>6, <2>1, <3>1
  <2>2. CASE ~Mute(a)
    <3> HIDE DEF b
    <3> QED BY <1>4, <1>5, <2>2
  <2> QED BY <2>1, <2>2
<1>8. Rests(b) /\ \A x \in Endpoints : x[2] # a[2] => Eases(x)
  BY <1>1, FrameRests
<1>9. Prefix(a)
  BY <1>5 DEF Prefix
<1> HIDE DEF b
<1>10. Says(a)
  BY <1>3, <1>4, <1>7, <1>8, <1>9 DEF Says, b
<1> QED BY <1>8, <1>10 DEF Exchange

--------------------------------------------------------------------------------
(* The deeds of a process, one lemma per group of actions.                 *)
LEMMA Framed ==
  ASSUME TypeOK, NEW p \in Processes, NEW a \in Endpoints, a = At(p), Summary(p), Keeps,
         pc[p] \notin Halted,
         \A x \in Endpoints : x # a => ready'[x] = ready[x],
         \A x \in Endpoints : x # a /\ x # Peer(a) => inbox'[x] = inbox[x],
         \A w \in Workers : w # a[2] => busy'[w] = busy[w]
  PROVE  Frame(p)
<1>1. TypeOK' /\ Others(p)
  BY DEF Summary
<1>2. \A x \in Endpoints : x # At(p) => state'[x] = state[x]
  BY MoveFacts DEF Summary
<1>3. Peer(a)[2] = a[2]
  BY DEF Peer
<1>4. \A x \in Endpoints : x[2] \in Workers
  BY PeerFacts
<1> QED BY <1>1, <1>2, <1>3, <1>4 DEF Frame

(* A run that ends with a notification of one message.                     *)
LEMMA OneSent ==
  ASSUME TypeOK, NEW p \in Processes, NEW a \in Endpoints, a = At(p), Summary(p),
         pc[p] \notin Halted, NEW m, NEW box, BoxOK(box),
         Transmit(a, <<m>>, box) \/ Panic(p, box),
         \A x \in Endpoints : x # a => ready'[x] = ready[x] /\ box[x] = inbox[x],
         \A w \in Workers : w # a[2] => busy'[w] = busy[w]
  PROVE  Keeps /\ Frame(p) /\ inbox'[a] = box[a] /\ Gets(Peer(a), 0, m) /\ BringsOne(a)
<1>1. Peer(a) \in Endpoints /\ Peer(a) # a
  BY PeerFacts
<1>2. /\ Keeps
      /\ \A x \in Endpoints : x # Peer(a) => inbox'[x] = box[x]
      /\ Brings(a, <<m>>, box)
  BY SendFacts
<1>3. \/ inbox'[Peer(a)] = inbox[Peer(a)]
      \/ conn[a] = "open" /\ inbox'[Peer(a)] = inbox[Peer(a)] \o <<m>>
  BY <1>1, <1>2 DEF Brings
<1>4. /\ Gets(Peer(a), 0, m)
      /\ Len(inbox'[Peer(a)]) = Len(inbox[Peer(a)])
           \/ (inbox'[Peer(a)] = inbox[Peer(a)] \o <<m>>
                /\ Len(inbox'[Peer(a)]) = Len(inbox[Peer(a)]) + 1)
  BY <1>1, <1>3, GetsOne
<1>5. inbox'[Peer(a)] = inbox[Peer(a)] => Len(inbox'[Peer(a)]) = Len(inbox[Peer(a)])
  OBVIOUS
<1>6. BringsOne(a)
  BY <1>3, <1>4, <1>5 DEF BringsOne
<1>7. Frame(p)
  BY <1>2, Framed
<1> QED BY <1>1, <1>2, <1>4, <1>6, <1>7

(* Telling the peer the state an endpoint is in.                           *)
LEMMA OwnTold ==
  ASSUME TypeOK, NEW p \in Processes, NEW a \in Endpoints, a = At(p), Summary(p),
         pc[p] \notin Halted, Transmit(a, <<state[a]>>, inbox) \/ Panic(p, inbox),
         \A x \in Endpoints : x # a => ready'[x] = ready[x],
         \A w \in Workers : w # a[2] => busy'[w] = busy[w]
  PROVE  /\ Keeps /\ Frame(p) /\ inbox'[a] = inbox[a]
         /\ Gets(Peer(a), 0, state[a]) /\ BringsOne(a)
<1> DEFINE m == state[a]
<1>1. BoxOK(inbox)
  BY DEF TypeOK, BoxOK
<1>2. Transmit(a, <<m>>, inbox) \/ Panic(p, inbox)
  OBVIOUS
<1> HIDE DEF m
<1>3. Keeps /\ Frame(p) /\ inbox'[a] = inbox[a] /\ Gets(Peer(a), 0, m) /\ BringsOne(a)
  BY <1>1, <1>2, OneSent
<1> QED BY <1>3 DEF m

(* The notification before the messages are read.                          *)
LEMMA RunNotifyAwaitDeed ==
  ASSUME TypeOK, Truthful, ControlInv, NEW p \in Processes, RunNotifyAwait(p),
         NEW a \in Endpoints, a = At(p)
  PROVE  Deed(p, a)
<1>1. Summary(p) /\ pc[p] = "poll" /\ pc[p] \notin Halted /\ a[1] = SideOf(p) /\ Owner(a) = p
  BY RunNotifyAwaitStep, AtFacts DEF RunNotifyAwait, Runs, Polling, Halted
<1>2. Awaits(a[1], state[a]) /\ Run[a[1]][state[a]] = "notify_await"
  BY <1>1, AtFacts, NextFacts, TableAssumption DEF RunNotifyAwait, Runs
<1>3. UNCHANGED <<state, ready, procVars>>
  BY DEF RunNotifyAwait
<1>4. (Transmit(a, <<state[a]>>, inbox) /\ Reading(p)) \/ Panic(p, inbox)
  BY DEF RunNotifyAwait, Notify
<1>5. /\ Keeps /\ Frame(p) /\ inbox'[a] = inbox[a]
      /\ Gets(Peer(a), 0, state[a]) /\ BringsOne(a)
  BY <1>1, <1>3, <1>4, OwnTold DEF procVars
<1>6. ASSUME ~Mute(a)
      PROVE  Credit(a)' <= Credit(a) /\ (conn[a] = "open" => Credit(a)' + 1 <= Credit(a))
  <2>1. ~Reads(a) /\ ready[a] \in BOOLEAN
    BY <1>1 DEF Reads, TypeOK
  <2>2. Credit(a) = (IF ready[a] THEN 2 ELSE 0) + 1
    BY <1>2, <1>6, <2>1 DEF Credit
  <2>3. Reads(a)' \/ Mute(a)'
    <3>1. CASE Reading(p)
      <4>1. pc'[p] = "recv" /\ turn' = turn
        BY <3>1 DEF Reading, TypeOK
      <4> QED BY <1>1, <4>1 DEF Reads, At
    <3>2. CASE Panic(p, inbox)
      BY <1>1, <3>2 DEF Panic, Mute, Halted, TypeOK
    <3> QED BY <1>4, <3>1, <3>2
  <2>4. Credit(a)' <= (IF ready[a] THEN 2 ELSE 0)
    BY <1>3, <2>1, <2>3 DEF Credit
  <2> HIDE DEF Credit
  <2>5. CASE ready[a]
    BY <2>2, <2>4, <2>5, EndFactsNext, <1>1 DEF Summary
  <2>6. CASE ~ready[a]
    BY <2>2, <2>4, <2>6, EndFactsNext, <1>1 DEF Summary
  <2> QED BY <2>5, <2>6
<1>7. Exchange(a)
  BY <1>2, <1>3, <1>5, <1>6, SaysExchange DEF SameBusy, procVars
<1>8. Ending(p, a)
  BY <1>1, <1>3, <1>4, PolledEnding
<1> QED BY <1>1, <1>5, <1>7, <1>8 DEF Deed

(* Nothing is left to read.                                                *)
LEMMA RecvNothingDeed ==
  ASSUME TypeOK, Truthful, ControlInv, NEW p \in Processes, RecvBlocked(p) \/ RecvEof(p),
         NEW a \in Endpoints, a = At(p)
  PROVE  Deed(p, a)
<1>1. Summary(p) /\ pc[p] = "recv" /\ pc[p] \notin Halted /\ a[1] = SideOf(p) /\ Owner(a) = p
  BY RecvNothingStep, AtFacts DEF RecvBlocked, RecvEof, Waiting, Halted
<1>2. Awaits(a[1], state[a])
  BY <1>1, WaitingFacts DEF RecvBlocked, RecvEof
<1>3. /\ UNCHANGED <<state, procVars>>
      /\ \/ ready[a] /\ ready' = [ready EXCEPT ![a] = FALSE]
         \/ conn[a] \in {"eof", "eof_rst"} /\ ready' = [ready EXCEPT ![a] = TRUE]
  BY DEF RecvBlocked, RecvEof
<1>4. (Transmit(a, <<state[a]>>, inbox) /\ EndRun(p, state[a])) \/ Panic(p, inbox)
  BY DEF RecvBlocked, RecvEof, Notify
<1>5. /\ Keeps /\ Frame(p) /\ inbox'[a] = inbox[a]
      /\ Gets(Peer(a), 0, state[a]) /\ BringsOne(a)
  <2>1. \A x \in Endpoints : x # a => ready'[x] = ready[x]
    BY <1>3 DEF TypeOK
  <2> QED BY <1>1, <1>3, <1>4, <2>1, OwnTold DEF procVars
<1>6. ASSUME ~Mute(a)
      PROVE  Credit(a)' <= Credit(a) /\ (conn[a] = "open" => Credit(a)' + 1 <= Credit(a))
  <2>1. conn[a] \notin {"eof", "eof_rst"}
    BY <1>6 DEF Mute, Broken
  <2>2. Credit(a) >= 2 /\ Credit(a) \in Nat
    BY <1>3, <1>6, <2>1 DEF Credit
  <2>3. ready'[a] = FALSE
    BY <1>3, <2>1 DEF TypeOK
  <2>4. Credit(a)' <= 1 /\ Credit(a)' \in Nat
    BY <2>3 DEF Credit
  <2> QED BY <2>2, <2>4
<1>7. Exchange(a)
  BY <1>2, <1>3, <1>5, <1>6, SaysExchange DEF SameBusy, procVars
<1>8. Ending(p, a)
  BY <1>1, <1>3, <1>4, PolledEnding
<1> QED BY <1>1, <1>5, <1>7, <1>8 DEF Deed

(* A message that is not the one awaited is skipped, and answered if it    *)
(* was the last.                                                           *)
LEMMA RecvOtherDeed ==
  ASSUME TypeOK, Truthful, ControlInv, NEW p \in Processes, RecvOther(p),
         NEW a \in Endpoints, a = At(p)
  PROVE  Deed(p, a)
<1> DEFINE b == Peer(a)
<1>1. Summary(p) /\ pc[p] = "recv" /\ pc[p] \notin Halted /\ a[1] = SideOf(p) /\ Owner(a) = p
  BY RecvOtherStep, AtFacts DEF RecvOther, Waiting, Halted
<1>2. Awaits(a[1], state[a])
  BY <1>1, WaitingFacts DEF RecvOther
<1>3. /\ UNCHANGED <<state, conn, pc, turn, count, goal, procVars>>
      /\ inbox[a] # <<>> /\ inbox' = Popped(a) /\ ready' = [ready EXCEPT ![a] = TRUE]
      /\ ~Matches(a, Head(inbox[a]))
  BY DEF RecvOther
<1>4. Loses(a) /\ Len(inbox[a]) > 0 /\ inbox[a][1] # Step[a[1]][state[a]]
  BY <1>2, <1>3, PoppedLoses DEF Matches
<1>5. b \in Endpoints /\ b # a /\ Len(inbox[b]) \in Nat
  BY PeerFacts, EndFacts
<1>6. Keeps /\ Frame(p)
  <2>1. Keeps
    BY <1>3 DEF Keeps, Broken
  <2>2. \A x \in Endpoints : x # a => ready'[x] = ready[x] /\ inbox'[x] = inbox[x]
    BY <1>3 DEF TypeOK, Popped
  <2> QED BY <1>1, <1>3, <2>1, <2>2, Framed DEF procVars
<1>7. Prefix(b)
  BY <1>3, <1>5 DEF Prefix, Popped, TypeOK
<1>8. Rests(b) /\ (Mute(a) => Mute(a)') /\ \A x \in Endpoints : x[2] # a[2] => Eases(x)
  BY <1>5, <1>6, FrameRests
<1>9. Credit(a)' <= Credit(a) + 2
  <2>1. ready[a] \in BOOLEAN /\ ready'[a] = TRUE
    BY <1>3 DEF TypeOK
  <2>2. Reads(a)' <=> Reads(a)
    BY <1>3 DEF Reads, At
  <2> QED BY <1>3, <1>8, <2>1, <2>2 DEF Credit
<1> HIDE DEF b
<1>10. Skips(a)
  BY <1>2, <1>3, <1>4, <1>7, <1>8, <1>9 DEF Skips, SameBusy, procVars, b
<1>11. Ending(p, a)
  BY <1>1, <1>3 DEF Ending, Halted
<1> QED BY <1>1, <1>6, <1>8, <1>10, <1>11 DEF Deed, Exchange

(* A repetition of the final state.                                        *)
LEMMA NotifyFinishedDeed ==
  ASSUME TypeOK, Truthful, ControlInv, NEW p \in Processes, NotifyFinished(p),
         NEW a \in Endpoints, a = At(p), Finished(a[1], state[a])
  PROVE  Deed(p, a) /\ Repeats(a)
<1>1. Summary(p) /\ pc[p] = "finish" /\ pc[p] \notin Halted
  BY NotifyFinishedStep DEF NotifyFinished, Halted
<1>2. UNCHANGED <<state, ready, procVars>> /\ Transmit(a, <<state[a]>>, inbox)
  BY DEF NotifyFinished
<1>3. Keeps /\ Frame(p) /\ inbox'[a] = inbox[a] /\ Gets(Peer(a), 0, state[a])
  BY <1>1, <1>2, OwnTold DEF procVars
<1>4. Rests(Peer(a)) /\ Prefix(a) /\ \A x \in Endpoints : x[2] # a[2] => Eases(x)
  <2>1. Peer(a) \in Endpoints /\ Peer(a) # a /\ Len(inbox[a]) \in Nat
    BY PeerFacts, EndFacts
  <2> QED BY <1>3, <2>1, FrameRests DEF Prefix
<1>5. Repeats(a)
  BY <1>2, <1>3, <1>4 DEF Repeats, SameBusy, procVars
<1>6. Ending(p, a)
  <2>1. CASE count[p] > 1
    BY <1>2, <2>1 DEF NotifyFinished, Ending, TypeOK
  <2>2. CASE ~(count[p] > 1)
    BY <1>1, <1>2, <2>2 DEF NotifyFinished, NextInstance, Ending, TypeOK
  <2> QED BY <2>1, <2>2
<1> QED BY <1>1, <1>3, <1>4, <1>5, <1>6 DEF Deed, Exchange

--------------------------------------------------------------------------------
(* A step that touches no message and leaves its goal.                     *)
LEMMA QuietDeed ==
  ASSUME TypeOK, NEW p \in Processes, NEW a \in Endpoints, a = At(p), Summary(p),
         pc[p] \notin Halted, Keeps, UNCHANGED <<state, ready, inbox, busy>>,
         pc[p] # "recv" \/ pc'[p] \in Halted,
         \A q \in Processes : q # p => count'[q] = count[q],
         goal'[p] = goal[p], pc'[p] # "finish", pc[p] = "finish" => pc'[p] \in Halted
  PROVE  Deed(p, a)
<1>1. Owner(a) = p /\ TypeOK' /\ Others(p)
  BY AtFacts DEF Summary
<1>2. pc[p] # "recv" \/ Mute(a)'
  BY <1>1 DEF Mute
<1>3. Exchange(a) /\ Eases(Peer(a))
  BY <1>1, <1>2, QuietExchange
<1>4. Ending(p, a)
  BY <1>3 DEF Ending
<1> QED BY <1>3, <1>4 DEF Deed

(* The steps that touch no connection.                                     *)
LEMMA SameKeeps ==
  ASSUME conn' = conn
  PROVE  Keeps
  BY DEF Keeps, Broken

LEMMA StartDeeds ==
  ASSUME TypeOK, NEW p \in Processes, NEW a \in Endpoints, a = At(p), Summary(p),
         \/ Call(p) \/ RunAwait(p) \/ Bind(p) \/ Accept(p)
         \/ p = Coordinator /\ ConnectRefused
  PROVE  Deed(p, a)
<1>1. /\ UNCHANGED <<state, ready, inbox, busy, conn, goal>>
      /\ pc[p] \in {"idle", "poll", "bind", "accept", "connect"}
      /\ pc'[p] \in {"poll", "recv", "accept", "idle", "connect"}
      /\ \A q \in Processes : q # p => count'[q] = count[q]
  BY DEF Call, RunAwait, Runs, Polling, Reading, Bind, Accept, ConnectRefused, netVars, procVars,
     TypeOK
<1>2. Keeps
  BY <1>1, SameKeeps
<1> QED BY <1>1, <1>2, QuietDeed DEF Halted

LEMMA PollAtTargetDeed ==
  ASSUME TypeOK, NEW p \in Processes, NEW a \in Endpoints, a = At(p), Summary(p), PollAtTarget(p)
  PROVE  Deed(p, a)
<1>1. /\ UNCHANGED <<state, ready, inbox, busy, conn>> /\ pc[p] = "poll"
      /\ EndRun(p, state'[a])
  BY DEF PollAtTarget, Polling, netVars, procVars
<1>2. Keeps
  BY <1>1, SameKeeps
<1>3. Exchange(a)
  BY <1>1, <1>2, QuietExchange DEF Summary, Halted
<1>4. Ending(p, a)
  BY <1>1, PolledEnding
<1> QED BY <1>1, <1>2, <1>3, <1>4 DEF Deed, Halted

(* A process that halts.                                                   *)
LEMMA HaltDeed ==
  ASSUME TypeOK, NEW p \in Processes, NEW a \in Endpoints, a = At(p), Summary(p),
         pc[p] \notin Halted, Shutdown(p, inbox), pc' = [pc EXCEPT ![p] = pc'[p]],
         pc'[p] \in Halted, UNCHANGED <<state, ready, inbox, busy, count, goal>>
  PROVE  Deed(p, a)
<1>1. Keeps
  BY ShutdownKeeps
<1>2. pc'[p] # "finish"
  BY DEF Halted
<1> QED BY <1>1, <1>2, QuietDeed

(* The ends of a process.                                                  *)
LEMMA PanicDeed ==
  ASSUME TypeOK, NEW p \in Processes, NEW a \in Endpoints, a = At(p), Summary(p),
         pc[p] \notin Halted, Panic(p, inbox), UNCHANGED <<state, ready, busy>>
  PROVE  Deed(p, a)
<1>1. pc' = [pc EXCEPT ![p] = "panicked"] /\ Shutdown(p, inbox) /\ UNCHANGED <<inbox, count, goal>>
  BY DEF Panic
<1>2. pc'[p] = "panicked"
  BY <1>1 DEF TypeOK
<1> QED BY <1>1, <1>2, HaltDeed DEF Halted

LEMMA HaltDeeds ==
  ASSUME TypeOK, NEW p \in Processes, NEW a \in Endpoints, a = At(p), Summary(p),
         \/ Close(p) \/ Crash(p) \/ RecvReset(p) \/ SpawnFails(p)
         \/ BindFails(p) \/ BuildGivesUp(p)
  PROVE  Deed(p, a)
<1>1. CASE Close(p) \/ Crash(p)
  <2>1. pc[p] \notin Halted
    BY <1>1 DEF Close, Crash, Halted
  <2>2. pc'[p] \in Halted /\ pc' = [pc EXCEPT ![p] = pc'[p]]
    BY <1>1 DEF Close, Crash, Halted, TypeOK
  <2> QED BY <1>1, <2>1, <2>2, HaltDeed DEF Close, Crash, procVars
<1>2. CASE RecvReset(p)
  BY <1>2, PanicDeed DEF RecvReset, Waiting, Halted, procVars
<1>3. CASE SpawnFails(p)
  BY <1>3, PanicDeed DEF SpawnFails, Runs, Polling, Halted, procVars
<1>4. CASE BindFails(p) \/ BuildGivesUp(p)
  BY <1>4, PanicDeed DEF BindFails, BuildGivesUp, Start, Halted, procVars
<1> QED BY <1>1, <1>2, <1>3, <1>4

(* A connection comes up: both of its ends are known to be new.            *)
LEMMA ConnectDeed ==
  ASSUME TypeOK, ConnectInv, MadeTogether, NEW a \in Endpoints, a = At(Coordinator),
         Summary(Coordinator), Connect
  PROVE  Deed(Coordinator, a)
<1> DEFINE w == turn[Coordinator]
<1>0. Coordinator \in Processes /\ w \in Workers /\ w >= turn[Coordinator]
  <2>1. Coordinator \in Processes /\ N \in Nat /\ N > 0
    BY NAssumption DEF Processes, Coordinator
  <2>2. w \in Nat /\ First(Coordinator) <= w /\ w <= Last(Coordinator)
    BY <2>1 DEF TypeOK
  <2> QED BY <2>1, <2>2 DEF First, Last, Workers
<1>1. conn[C(w)] = "none" /\ conn[W(w)] = "none"
  BY <1>0 DEF ConnectInv, MadeTogether, Connect
<1>2. conn' = [conn EXCEPT ![C(w)] = "open", ![W(w)] = "open"]
  BY DEF Connect, C, W
<1>3. Keeps
  BY <1>1, <1>2 DEF Keeps, Broken, TypeOK
<1>4. /\ pc[Coordinator] = "connect" /\ pc'[Coordinator] \in {"connect", "idle"}
      /\ UNCHANGED <<state, ready, inbox, busy, goal>>
      /\ \A q \in Processes : q # Coordinator => count'[q] = count[q]
  BY <1>0 DEF Connect, TypeOK, procVars
<1> QED BY <1>0, <1>3, <1>4, QuietDeed DEF Halted

(* A lost host takes with it what it has sent last.                        *)
LEMMA VanishDeed ==
  ASSUME TypeOK, NEW p \in Workers, NEW a \in Endpoints, a = At(p), Summary(p), Vanish(p)
  PROVE  Deed(p, a)
<1> DEFINE b == Peer(a)
<1>0. p \in Processes /\ p # Coordinator /\ pc[p] \notin Halted
  BY NAssumption DEF Workers, Processes, Coordinator, Vanish
<1>1. /\ a[1] = "worker" /\ Owner(a) = p /\ b \in Endpoints /\ b # a /\ Peer(b) = a
      /\ a[2] = p /\ a = <<a[1], a[2]>>
  <2>1. a[1] = "worker" /\ Owner(a) = p
    BY <1>0, AtFacts DEF SideOf
  <2> QED BY <2>1, PeerFacts DEF Owner, Endpoints
<1>2. b = <<"coord", p>>
  BY <1>1 DEF Peer, OtherSide
<1>3. /\ pc' = [pc EXCEPT ![p] = "crashed"] /\ UNCHANGED <<state, ready, turn, count, goal, busy>>
      /\ conn' = [conn EXCEPT ![a] = IF @ \in Alive THEN "closed" ELSE @,
                              ![b] = IF @ = "open" THEN "lost" ELSE @]
  BY <1>1, <1>2 DEF Vanish, procVars
<1>4. PICK n \in 0..Len(inbox[b]) : inbox' = [inbox EXCEPT ![b] = SubSeq(@, 1, n)]
  BY <1>2 DEF Vanish
<1>5. Keeps
  BY <1>3 DEF Keeps, Broken, TypeOK, Alive
<1>6. Prefix(b)
  <2>1. inbox[b] \in Seq(AllStates) /\ inbox'[b] = SubSeq(inbox[b], 1, n) /\ Len(inbox[b]) \in Nat
    BY <1>1, <1>4, EndFacts DEF TypeOK
  <2>2. Len(SubSeq(inbox[b], 1, n)) = n /\ \A i \in 1..n : SubSeq(inbox[b], 1, n)[i] = inbox[b][i]
    BY <2>1
  <2> QED BY <2>1, <2>2 DEF Prefix
<1>7. Prefix(a) /\ \A x \in Endpoints : x # b => inbox'[x] = inbox[x]
  BY <1>1, <1>4, EndFacts DEF Prefix, TypeOK
<1> HIDE DEF b
<1>8. Frame(p)
  BY <1>0, <1>3, <1>5, <1>7, Framed DEF b
<1>9. Mute(a)'
  BY <1>0, <1>1, <1>3 DEF Mute, Halted, TypeOK
<1>10. Rests(a) /\ Rests(b)
  BY <1>0, <1>1, <1>3, <1>8, <1>9, FrameRests, FrameHere
<1>11. Eases(a) /\ Eases(b)
  BY <1>3, <1>6, <1>7, <1>10 DEF Eases, SameBusy
<1>12. \A x \in Endpoints : x[2] # a[2] => Eases(x)
  BY <1>0, <1>8, FrameRests
<1>13. pc'[p] = "crashed"
  BY <1>0, <1>3 DEF TypeOK
<1>14. Ending(p, a)
  BY <1>0, <1>3, <1>11, <1>13 DEF Ending, Halted, b
<1> QED BY <1>0, <1>5, <1>11, <1>12, <1>14 DEF Deed, Exchange, b

(* A connection that is not accepted takes with it what was sent to the    *)
(* worker.                                                                 *)
LEMMA AcceptFailsDeed ==
  ASSUME TypeOK, NEW p \in Workers, NEW a \in Endpoints, a = At(p), Summary(p), AcceptFails(p)
  PROVE  Deed(p, a)
<1> DEFINE b == Peer(a)
<1>0. p \in Processes /\ p # Coordinator /\ pc[p] = "accept" /\ pc[p] \notin Halted
  BY NAssumption DEF Workers, Processes, Coordinator, AcceptFails, Halted
<1>1. a = <<"worker", p>> /\ b \in Endpoints /\ b # a
  BY WorkerFacts, PeerFacts DEF W
<1>3. /\ pc' = [pc EXCEPT ![p] = "bind"] /\ UNCHANGED <<state, ready, turn, goal, busy>>
      /\ count' = [count EXCEPT ![p] = @ - 1]
      /\ inbox' = [inbox EXCEPT ![a] = <<>>]
      /\ conn[a] \in Alive
      /\ conn' = [conn EXCEPT ![a] = "dropped", ![b] = IF @ = "open" THEN "rst" ELSE @]
  BY <1>1 DEF AcceptFails, procVars
<1>5. Keeps
  BY <1>1, <1>3 DEF Keeps, Broken, TypeOK, Alive
<1>6. Prefix(a)
  BY <1>3, EndFacts DEF Prefix, TypeOK
<1>7. Prefix(b) /\ \A x \in Endpoints : x # a => inbox'[x] = inbox[x]
  BY <1>1, <1>3, EndFacts DEF Prefix, TypeOK
<1>13. pc'[p] = "bind" /\ \A q \in Processes : q # p => count'[q] = count[q]
  BY <1>0, <1>3 DEF TypeOK
<1> HIDE DEF b
<1>8. Frame(p)
  BY <1>0, <1>1, <1>3, <1>5, <1>7 DEF Frame, Summary
<1>10. Rests(a) /\ Rests(b)
  BY <1>0, <1>1, <1>3, <1>8, FrameRests, FrameHere
<1>11. Eases(a) /\ Eases(b)
  BY <1>3, <1>6, <1>7, <1>10 DEF Eases, SameBusy
<1>12. \A x \in Endpoints : x[2] # a[2] => Eases(x)
  BY <1>0, <1>8, FrameRests
<1>14. Ending(p, a)
  BY <1>0, <1>3, <1>11, <1>13 DEF Ending, Halted, b
<1> QED BY <1>0, <1>5, <1>11, <1>12, <1>14 DEF Deed, Exchange, b

--------------------------------------------------------------------------------
(* A poll that finds netbench running reports it.                          *)
LEMMA RunJoinBusyDeed ==
  ASSUME TypeOK, Truthful, ControlInv, NEW p \in Workers, NEW a \in Endpoints, a = At(p),
         RunJoinBusy(p)
  PROVE  Deed(p, a)
<1>0. p \in Processes /\ p # Coordinator
  BY NAssumption DEF Workers, Processes, Coordinator
<1>1. Summary(p) /\ pc[p] = "poll" /\ pc[p] \notin Halted /\ a[1] = SideOf(p) /\ Owner(a) = p
  BY <1>0, RunJoinBusyStep, AtFacts DEF RunJoinBusy, Runs, Polling, Halted
<1>2. a[2] = p
  BY <1>0, <1>1 DEF Owner, SideOf
<1>3. Run[a[1]][state[a]] = "join" /\ ~Awaits(a[1], state[a]) /\ ~Finished(a[1], state[a])
  BY <1>0, <1>1, AtFacts, NextFacts, TableAssumption DEF RunJoinBusy, Runs
<1>4. UNCHANGED <<state, ready>> /\ busy' = [busy EXCEPT ![p] = @ + 1]
  BY DEF RunJoinBusy
<1>5. (Transmit(a, <<state[a]>>, inbox) /\ EndRun(p, state'[a])) \/ Panic(p, inbox)
  BY <1>4 DEF RunJoinBusy, Notify
<1>6. /\ busy'[a[2]] = busy[a[2]] + 1
      /\ \A w \in Workers : w # a[2] => busy'[w] = busy[w]
  BY <1>2, <1>4 DEF TypeOK
<1>7. Keeps /\ Frame(p) /\ inbox'[a] = inbox[a] /\ Gets(Peer(a), 0, state[a])
  BY <1>0, <1>1, <1>4, <1>5, <1>6, OwnTold
<1>8. Rests(Peer(a)) /\ Prefix(a) /\ \A x \in Endpoints : x[2] # a[2] => Eases(x)
  <2>1. Peer(a) \in Endpoints /\ Peer(a) # a /\ Len(inbox[a]) \in Nat
    BY PeerFacts, EndFacts
  <2> QED BY <1>0, <1>7, <2>1, FrameRests DEF Prefix
<1>9. Reports(a)
  BY <1>3, <1>4, <1>6, <1>7, <1>8 DEF Reports
<1>10. Ending(p, a)
  BY <1>0, <1>1, <1>5, PolledEnding
<1> QED BY <1>1, <1>7, <1>8, <1>9, <1>10 DEF Deed, Exchange

(* A move: its messages are the state it moves to, after one more when it  *)
(* has found netbench ended.                                               *)
LEMMA MoveDeed ==
  ASSUME TypeOK, NEW p \in Processes, NEW a \in Endpoints, a = At(p), Summary(p), MoveStep(p),
         pc[p] \in {"poll", "recv"}, SameBusy(a), Keeps, Frame(p), Prefix(a) \/ Loses(a),
         Awaits(a[1], state[a]) => Loses(a),
         Gets(Peer(a), Extra(a[1], state[a]), state'[a]),
         NEW box, EndRun(p, state'[a]) \/ Panic(p, box)
  PROVE  Deed(p, a)
<1>1. Exchange(a)
  BY MoveExchange
<1>2. Ending(p, a)
  BY PolledEnding
<1> QED BY <1>1, <1>2 DEF Deed, Halted

(* The steps that move an endpoint, by what run() does.                    *)
LEMMA SameBox ==
  ASSUME TypeOK, NEW a \in Endpoints, inbox'[a] = inbox[a]
  PROVE  Prefix(a)
  BY EndFacts DEF Prefix

LEMMA RunMoveDeed ==
  ASSUME TypeOK, Truthful, ControlInv, NEW p \in Processes, NEW a \in Endpoints, a = At(p),
         Summary(p), Runs(p, "advance") \/ Runs(p, "kill"), Transition(p),
         UNCHANGED <<ready, busy>>,
         Notify(p, <<NewState(p)>>, inbox, EndRun(p, NewState(p)))
  PROVE  Deed(p, a)
<1>1. pc[p] = "poll" /\ pc[p] \notin Halted /\ a[1] = SideOf(p) /\ BoxOK(inbox)
  BY AtFacts DEF Runs, Polling, Halted, TypeOK, BoxOK
<1>2. MoveStep(p)
  BY RunsFacts
<1>3. state'[a] = NewState(p)
  BY <1>2, MoveFacts
<1>4. ~Awaits(a[1], state[a]) /\ Extra(a[1], state[a]) = 0
  BY <1>1, AtFacts, NextFacts, TableAssumption DEF Runs, Extra
<1> DEFINE m == NewState(p)
<1>5. (Transmit(a, <<m>>, inbox) /\ EndRun(p, m)) \/ Panic(p, inbox)
  BY DEF Notify
<1> HIDE DEF m
<1>6. Keeps /\ Frame(p) /\ inbox'[a] = inbox[a] /\ Gets(Peer(a), 0, m)
  BY <1>1, <1>5, OneSent
<1>7. Prefix(a)
  BY <1>6, SameBox
<1>8. Gets(Peer(a), Extra(a[1], state[a]), state'[a])
  BY <1>3, <1>4, <1>6 DEF m
<1>9. EndRun(p, state'[a]) \/ Panic(p, inbox)
  BY <1>3, <1>5 DEF m
<1> QED BY <1>1, <1>2, <1>4, <1>6, <1>7, <1>8, <1>9, MoveDeed DEF SameBusy

LEMMA RunSpawnDeed ==
  ASSUME TypeOK, Truthful, ControlInv, NEW p \in Workers, NEW a \in Endpoints, a = At(p),
         Summary(p), RunSpawn(p)
  PROVE  Deed(p, a)
<1>0. p \in Processes
  BY NAssumption DEF Workers, Processes
<1>1. /\ pc[p] = "poll" /\ pc[p] \notin Halted /\ a[1] = SideOf(p)
      /\ UNCHANGED <<ready, busy, inbox, conn>>
  BY <1>0, AtFacts DEF RunSpawn, Runs, Polling, Halted, netVars
<1>2. MoveStep(p)
  BY <1>0, RunsFacts DEF RunSpawn
<1>3. state'[a] = NewState(p)
  BY <1>0, <1>2, MoveFacts
<1>4. ~Awaits(a[1], state[a]) /\ Extra(a[1], state[a]) = 0
  BY <1>0, <1>1, AtFacts, NextFacts, TableAssumption DEF RunSpawn, Runs, Extra
<1>5. Keeps /\ Frame(p)
  BY <1>0, <1>1, SameKeeps, Framed
<1>6. Prefix(a)
  BY <1>1, SameBox
<1>7. Gets(Peer(a), Extra(a[1], state[a]), state'[a])
  BY <1>1, <1>4, PeerFacts, EndFacts DEF Gets
<1>8. EndRun(p, state'[a])
  BY <1>3 DEF RunSpawn
<1> QED BY <1>0, <1>1, <1>2, <1>4, <1>5, <1>6, <1>7, <1>8, MoveDeed DEF SameBusy

LEMMA RunJoinedDeed ==
  ASSUME TypeOK, Truthful, ControlInv, NEW p \in Workers, NEW a \in Endpoints, a = At(p),
         Summary(p), RunJoined(p)
  PROVE  Deed(p, a)
<1>0. p \in Processes
  BY NAssumption DEF Workers, Processes
<1>1. /\ pc[p] = "poll" /\ pc[p] \notin Halted /\ a[1] = SideOf(p) /\ BoxOK(inbox)
      /\ UNCHANGED <<ready, busy>>
  BY <1>0, AtFacts DEF RunJoined, Runs, Polling, Halted, TypeOK, BoxOK, procVars
<1>2. CASE ~CanWrite(a)
  <2>1. Panic(p, inbox) /\ UNCHANGED state
    BY <1>2 DEF RunJoined, Notify
  <2> QED BY <1>0, <1>1, <2>1, PanicDeed
<1>3. CASE CanWrite(a)
  <2>1. Transition(p)
    BY <1>3 DEF RunJoined
  <2>2. MoveStep(p)
    BY <1>0, <2>1, RunsFacts DEF RunJoined
  <2>3. state'[a] = NewState(p)
    BY <1>0, <2>2, MoveFacts
  <2>4. ~Awaits(a[1], state[a]) /\ Extra(a[1], state[a]) = 1
    BY <1>0, <1>1, AtFacts, NextFacts, TableAssumption DEF RunJoined, Runs, Extra
  <2> DEFINE m1 == state[a]
             m  == NewState(p)
             ms == <<m1, m>>
  <2>5. Transmit(a, ms, inbox) /\ EndRun(p, m)
    BY <1>3 DEF RunJoined, Notify
  <2> HIDE DEF m1, m, ms
  <2>6. /\ Keeps
        /\ \A x \in Endpoints : x # Peer(a) => inbox'[x] = inbox[x]
        /\ Brings(a, ms, inbox)
    BY <1>0, <1>1, <2>5, SendFacts
  <2>7. Peer(a) \in Endpoints /\ Peer(a) # a
    BY PeerFacts
  <2>8. inbox'[Peer(a)] = inbox[Peer(a)] \/ inbox'[Peer(a)] = inbox[Peer(a)] \o <<m1, m>>
    BY <2>6 DEF Brings, ms
  <2>9. Gets(Peer(a), 1, m)
    BY <2>7, <2>8, GetsTwo
  <2>10. Frame(p)
    BY <1>0, <1>1, <2>6, Framed
  <2>11. Prefix(a)
    BY <2>6, <2>7, SameBox
  <2>12. Gets(Peer(a), Extra(a[1], state[a]), state'[a]) /\ EndRun(p, state'[a])
    BY <2>3, <2>4, <2>5, <2>9 DEF m
  <2> QED BY <1>0, <1>1, <2>2, <2>4, <2>6, <2>10, <2>11, <2>12, MoveDeed DEF SameBusy
<1> QED BY <1>2, <1>3

LEMMA RecvMatchDeed ==
  ASSUME TypeOK, Truthful, ControlInv, NEW p \in Processes, NEW a \in Endpoints, a = At(p),
         Summary(p), RecvMatch(p)
  PROVE  Deed(p, a)
<1>1. /\ pc[p] = "recv" /\ pc[p] \notin Halted /\ a[1] = SideOf(p)
      /\ inbox[a] # <<>> /\ ready' = [ready EXCEPT ![a] = TRUE] /\ UNCHANGED busy
      /\ Matches(a, Head(inbox[a])) /\ Transition(p)
  BY AtFacts DEF RecvMatch, Waiting, Halted, procVars
<1>2. BoxOK(Popped(a)) /\ Head(inbox[a]) = inbox[a][1] /\ 1 \in DOMAIN inbox[a]
  BY <1>1, PoppedBox DEF TypeOK, BoxOK
<1>3. Awaits(a[1], state[a]) /\ Extra(a[1], state[a]) = 0
  BY <1>1, AtFacts, NextFacts, TableAssumption DEF Matches, Extra
<1>4. MoveStep(p)
  <2>1. HasGoal(p) /\ ~AtTarget(p, a) /\ ~Finished(a[1], state[a])
    BY <1>1, WaitingFacts DEF RecvMatch
  <2>2. Reached(Peer(a), Step[a[1]][state[a]])
    BY <1>1, <1>2 DEF Truthful, Matches
  <2> QED BY <1>1, <2>1, <2>2 DEF MoveStep
<1>5. state'[a] = NewState(p)
  BY <1>4, MoveFacts
<1> DEFINE m == NewState(p)
<1>6. (Transmit(a, <<m>>, Popped(a)) /\ EndRun(p, m)) \/ Panic(p, Popped(a))
  BY DEF RecvMatch, Notify
<1> HIDE DEF m
<1>7. \A x \in Endpoints : x # a => ready'[x] = ready[x] /\ Popped(a)[x] = inbox[x]
  BY <1>1 DEF TypeOK, Popped
<1> DEFINE box == Popped(a)
<1>8. Keeps /\ Frame(p) /\ inbox'[a] = box[a] /\ Gets(Peer(a), 0, m)
  <2> HIDE DEF box
  <2>1. BoxOK(box) /\ (Transmit(a, <<m>>, box) \/ Panic(p, box))
    BY <1>2, <1>6 DEF box
  <2>2. \A x \in Endpoints : x # a => ready'[x] = ready[x] /\ box[x] = inbox[x]
    BY <1>7 DEF box
  <2>3. \A w \in Workers : w # a[2] => busy'[w] = busy[w]
    BY <1>1
  <2>4. Summary(p) /\ pc[p] \notin Halted
    BY <1>1
  <2>5. Keeps /\ Frame(p) /\ inbox'[a] = box[a] /\ Gets(Peer(a), 0, m) /\ BringsOne(a)
    BY <2>1, <2>2, <2>3, <2>4, OneSent
  <2> QED BY <2>5
<1>9. Loses(a)
  BY <1>1, <1>8, PoppedLoses
<1>10. Gets(Peer(a), Extra(a[1], state[a]), state'[a])
  BY <1>3, <1>5, <1>8 DEF m
<1>11. EndRun(p, state'[a]) \/ Panic(p, Popped(a))
  BY <1>5, <1>6 DEF m
<1> QED BY <1>1, <1>4, <1>8, <1>9, <1>10, <1>11, MoveDeed DEF SameBusy

--------------------------------------------------------------------------------
(* A process that notifies its final state has notifications left to send. *)
FinishInv ==
  \A p \in Processes :
    pc[p] = "finish" => Finished(SideOf(p), state[At(p)]) /\ count[p] > 0

(* Nothing that matters here.                                              *)
Idle == TypeOK' /\ Keeps /\ UNCHANGED <<state, inbox, ready, pc, turn, count, goal, busy>>

Deeds == \E p \in Processes : \E a \in Endpoints : a = At(p) /\ Deed(p, a)

(* Every step of a process is a deed of the endpoint it polls.             *)
LEMMA PollDeed ==
  ASSUME TypeOK, Truthful, ControlInv, FinishInv, NEW p \in Processes, NEW a \in Endpoints,
         a = At(p), Poll(p)
  PROVE  Deed(p, a)
<1>0. Summary(p)
  BY PollStep
<1>1. CASE Call(p)
  BY <1>0, <1>1, StartDeeds
<1>2. CASE PollAtTarget(p)
  BY <1>0, <1>2, PollAtTargetDeed
<1>3. CASE NotifyFinished(p)
  <2>1. Finished(a[1], state[a])
    BY <1>3, AtFacts DEF NotifyFinished, FinishInv
  <2> QED BY <1>3, <2>1, NotifyFinishedDeed
<1>4. CASE RunNotifyAwait(p)
  BY <1>4, RunNotifyAwaitDeed
<1>5. CASE RunAdvance(p)
  BY <1>0, <1>5, RunMoveDeed DEF RunAdvance, procVars
<1>6. CASE RecvMatch(p)
  BY <1>0, <1>6, RecvMatchDeed
<1>7. CASE RecvOther(p)
  BY <1>7, RecvOtherDeed
<1>8. CASE RecvBlocked(p) \/ RecvEof(p)
  BY <1>8, RecvNothingDeed
<1>9. CASE RecvReset(p) \/ Close(p)
  BY <1>0, <1>9, HaltDeeds
<1> QED BY <1>1, <1>2, <1>3, <1>4, <1>5, <1>6, <1>7, <1>8, <1>9 DEF Poll

LEMMA CoordinatorDeed ==
  ASSUME TypeOK, Truthful, ControlInv, ConnectInv, MadeTogether, FinishInv, NEW a \in Endpoints,
         a = At(Coordinator), CoordinatorStep
  PROVE  Deed(Coordinator, a)
<1>0. Coordinator \in Processes
  BY NAssumption DEF Processes, Coordinator
<1>1. Summary(Coordinator)
  BY CoordinatorStepSummary
<1>2. CASE Connect
  BY <1>1, <1>2, ConnectDeed
<1>3. CASE ConnectRefused
  BY <1>0, <1>1, <1>3, StartDeeds
<1>4. CASE BuildGivesUp(Coordinator)
  BY <1>0, <1>1, <1>4, HaltDeeds
<1>5. CASE Poll(Coordinator)
  BY <1>0, <1>5, PollDeed
<1> QED BY <1>2, <1>3, <1>4, <1>5 DEF CoordinatorStep

LEMMA WorkerDeed ==
  ASSUME TypeOK, Truthful, ControlInv, FinishInv, NEW w \in Workers, NEW a \in Endpoints,
         a = At(w), WorkerStep(w)
  PROVE  Deed(w, a)
<1>0. w \in Processes
  BY NAssumption DEF Workers, Processes
<1>1. Summary(w)
  BY WorkerStepSummary
<1>2. CASE Bind(w) \/ Accept(w) \/ RunAwait(w)
  BY <1>0, <1>1, <1>2, StartDeeds
<1>3. CASE Poll(w)
  BY <1>0, <1>3, PollDeed
<1>4. CASE RunSpawn(w)
  BY <1>1, <1>4, RunSpawnDeed
<1>5. CASE SpawnFails(w) \/ BindFails(w) \/ BuildGivesUp(w)
  BY <1>0, <1>1, <1>5, HaltDeeds
<1>6. CASE RunKill(w)
  BY <1>0, <1>1, <1>6, RunMoveDeed DEF RunKill
<1>7. CASE RunJoinBusy(w)
  BY <1>7, RunJoinBusyDeed
<1>8. CASE RunJoined(w)
  BY <1>1, <1>8, RunJoinedDeed
<1>9. CASE AcceptFails(w)
  BY <1>1, <1>9, AcceptFailsDeed
<1> QED BY <1>2, <1>3, <1>4, <1>5, <1>6, <1>7, <1>8, <1>9 DEF WorkerStep

(* Every step is a deed or does not matter.                                *)
LEMMA NextDeed ==
  ASSUME TypeOK, Truthful, ControlInv, ConnectInv, MadeTogether, FinishInv, [Next]_vars
  PROVE  Idle \/ Deeds
<1>0. /\ Coordinator \in Processes /\ Workers \subseteq Processes /\ Mortal \subseteq Processes
      /\ MayVanish \subseteq Workers
  BY NAssumption, BoundsAssumption DEF Processes, Coordinator, Workers
<1>1. ASSUME NEW p \in Processes, \A a \in Endpoints : a = At(p) => Deed(p, a) PROVE Deeds
  <2>1. At(p) \in Endpoints
    BY AtFacts
  <2> QED BY <1>1, <2>1 DEF Deeds
<1>2. CASE CoordinatorStep
  <2>1. \A a \in Endpoints : a = At(Coordinator) => Deed(Coordinator, a)
    BY <1>2, CoordinatorDeed
  <2> QED BY <1>0, <1>1, <2>1
<1>3. ASSUME NEW w \in Workers, WorkerStep(w) PROVE Deeds
  <2>1. \A a \in Endpoints : a = At(w) => Deed(w, a)
    BY <1>3, WorkerDeed
  <2> QED BY <1>0, <1>1, <2>1
<1>4. ASSUME NEW p \in Mortal, Crash(p) PROVE Deeds
  <2>0. p \in Processes
    BY <1>0
  <2>1. Summary(p)
    BY <1>4, <2>0, EndStep
  <2>2. \A a \in Endpoints : a = At(p) => Deed(p, a)
    BY <1>4, <2>0, <2>1, HaltDeeds
  <2> QED BY <1>1, <2>0, <2>2
<1>5. ASSUME NEW w \in MayVanish, Vanish(w) PROVE Deeds
  <2>0. w \in Workers /\ w \in Processes
    BY <1>0
  <2>1. Summary(w)
    BY <1>5, <2>0, VanishStep
  <2>2. \A a \in Endpoints : a = At(w) => Deed(w, a)
    BY <1>5, <2>0, <2>1, VanishDeed
  <2> QED BY <1>1, <2>0, <2>2
<1>6. ASSUME NEW w \in Workers, Exit(w) PROVE Idle
  <2>1. TypeOK'
    BY <1>6, ExitStep
  <2> QED BY <1>6, <2>1, SameKeeps DEF Exit, netVars, Idle
<1>7. ASSUME NEW w \in Workers, TimesOut(w) PROVE Idle
  <2>1. TypeOK'
    BY <1>7, TimesOutStep
  <2>2. Keeps
    BY <1>7 DEF TimesOut, Keeps, Broken, TypeOK
  <2> QED BY <1>7, <2>1, <2>2 DEF TimesOut, procVars, Idle
<1>8. ASSUME NEW e \in Endpoints, ResetArrives(e) PROVE Idle
  <2>1. TypeOK'
    BY <1>8, ResetStep
  <2>2. Keeps
    BY <1>8 DEF ResetArrives, Keeps, Broken, TypeOK
  <2> QED BY <1>8, <2>1, <2>2 DEF ResetArrives, procVars, Idle
<1>9. ASSUME UNCHANGED vars PROVE Idle
  <2>1. UNCHANGED <<state, inbox, ready, conn, pc, turn, count, goal, proc, pid, busy>>
    BY <1>9 DEF vars
  <2>2. TypeOK'
    BY <2>1 DEF TypeOK
  <2> QED BY <2>1, <2>2, SameKeeps DEF Idle
<1>10. CASE Next
  BY <1>0, <1>2, <1>3, <1>4, <1>5, <1>6, <1>7, <1>8, <1>9, <1>10 DEF Next, Terminating
<1> QED BY <1>9, <1>10

--------------------------------------------------------------------------------
(* A process in its last notifications has some left and is at a final     *)
(* state.                                                                  *)
LEMMA FinishKept ==
  ASSUME TypeOK, FinishInv, NEW p \in Processes, NEW a \in Endpoints, a = At(p), Deed(p, a)
  PROVE  FinishInv'
<1> SUFFICES ASSUME NEW q \in Processes, pc'[q] = "finish"
             PROVE  Finished(SideOf(q), state'[<<SideOf(q), turn'[q]>>]) /\ count'[q] > 0
  BY DEF FinishInv, At
<1>1. Summary(p) /\ Ending(p, a)
  BY DEF Deed
<1>2. CASE q = p
  <2>1. turn'[p] = turn[p] /\ Finished(a[1], state'[a]) /\ count'[p] > 0
    BY <1>1, <1>2 DEF Ending
  <2>2. a = <<SideOf(p), turn'[p]>> /\ a[1] = SideOf(p)
    BY <2>1 DEF At
  <2> QED BY <1>2, <2>1, <2>2
<1>3. CASE q # p
  <2>1. pc'[q] = pc[q] /\ turn'[q] = turn[q] /\ count'[q] = count[q]
    BY <1>1, <1>3 DEF Summary, Others, Ending
  <2>2. At(q) \in Instances(q) /\ At(q) = <<SideOf(q), turn'[q]>>
    BY <2>1, AtFacts DEF At
  <2>3. state'[At(q)] = state[At(q)]
    BY <1>1, <1>3, <2>2, OthersKept
  <2>4. Finished(SideOf(q), state[At(q)]) /\ count[q] > 0
    BY <2>1 DEF FinishInv
  <2> QED BY <2>1, <2>2, <2>3, <2>4
<1> QED BY <1>2, <1>3

--------------------------------------------------------------------------------
(* What is held of the mover and of finished ends is kept by an exchange.  *)
LEMMA ExchangeKeeps ==
  ASSUME TypeOK, TypeOK', BudgetTable, InStep, InStep', NEW a \in Endpoints, Exchange(a),
         \A f \in Endpoints : Here(f), NEW f \in Endpoints
  PROVE  Here(f)'
<1>1. /\ Peer(f) \in Endpoints /\ Peer(f)[2] = f[2]
      /\ Peer(a) \in Endpoints /\ Peer(a)[2] = a[2] /\ Peer(Peer(a)) = a
  BY PeerFacts DEF Peer
<1>2. CASE f[2] # a[2]
  <2>1. Eases(f) /\ Eases(Peer(f))
    BY <1>1, <1>2 DEF Exchange
  <2> QED BY <2>1, EasesKeep
<1>3. CASE f[2] = a[2]
  <2>1. f = a \/ f = Peer(a)
    BY <1>3 DEF Endpoints, Sides, Peer, OtherSide
  <2>2. Here(a) /\ Here(Peer(a))
    BY <1>1
  <2>3. CASE Eases(a) /\ Eases(Peer(a))
    <3>1. Here(a)'
      BY <2>2, <2>3, EasesKeep
    <3>2. Here(Peer(a))'
      <4> DEFINE b == Peer(a)
      <4>1. b \in Endpoints /\ Here(b) /\ Eases(b) /\ Eases(Peer(b))
        BY <1>1, <2>2, <2>3
      <4> HIDE DEF b
      <4>2. Here(b)'
        BY <4>1, EasesKeep
      <4> QED BY <4>2 DEF b
    <3> QED BY <2>1, <3>1, <3>2
  <2>4. CASE Says(a)
    BY <2>1, <2>2, <2>4, SaysKeeps
  <2>5. CASE Repeats(a)
    BY <2>1, <2>2, <2>5, RepeatsKeeps
  <2>6. CASE Reports(a)
    BY <2>1, <2>2, <2>6, ReportsKeeps
  <2>7. CASE Skips(a)
    BY <2>1, <2>2, <2>7, SkipsKeeps
  <2>8. CASE Goes(a)
    BY <2>1, <2>2, <2>8, GoesKeeps
  <2> QED BY <2>3, <2>4, <2>5, <2>6, <2>7, <2>8 DEF Exchange
<1> QED BY <1>2, <1>3

(* And by a step that does not matter.                                     *)
LEMMA IdleEases ==
  ASSUME TypeOK, Idle, NEW f \in Endpoints
  PROVE  Eases(f)
<1>1. UNCHANGED <<state, inbox, ready, pc, turn, busy>> /\ (Mute(f) => Mute(f)')
  BY DEF Idle, Mute, Keeps
<1>2. Reads(f)' <=> Reads(f)
  BY <1>1 DEF Reads, At
<1>3. Credit(f)' <= Credit(f)
  BY <1>1, <1>2 DEF Credit
<1> QED BY <1>1, <1>3, EndFacts DEF Eases, Rests, Prefix, SameBusy

LEMMA IdleKeeps ==
  ASSUME TypeOK, TypeOK', BudgetTable, InStep, Idle, NEW f \in Endpoints, Here(f)
  PROVE  Here(f)'
<1>1. Peer(f) \in Endpoints
  BY PeerFacts
<1>2. Eases(f) /\ Eases(Peer(f))
  BY <1>1, IdleEases
<1> QED BY <1>2, EasesKeep

LEMMA IdleLast ==
  ASSUME TypeOK, Idle, NEW f \in Endpoints, LastHere(f)
  PROVE  LastHere(f)'
<1>1. UNCHANGED <<state, inbox, pc, count, goal, busy>>
  BY DEF Idle
<1>2. Hold(f[2])' = Hold(f[2]) /\ (HasGoal(Owner(f))' <=> HasGoal(Owner(f)))
  BY <1>1 DEF Hold, Position, HasGoal
<1> QED BY <1>1, <1>2 DEF LastHere

--------------------------------------------------------------------------------
(* An instance that is alone is the one its process polls.                 *)
LEMMA OneInstance ==
  ASSUME TypeOK, NEW f \in Endpoints, Alone(f)
  PROVE  /\ Owner(f) \in Processes /\ SideOf(Owner(f)) = f[1] /\ At(Owner(f)) = f
         /\ Instances(Owner(f)) = {f} /\ turn[Owner(f)] = Last(Owner(f))
<1>1. Owner(f) \in Processes /\ SideOf(Owner(f)) = f[1]
  BY PeerFacts
<1>2. /\ turn[Owner(f)] \in Nat /\ First(Owner(f)) <= turn[Owner(f)]
      /\ turn[Owner(f)] <= Last(Owner(f))
  BY <1>1 DEF TypeOK
<1>3. CASE f[1] = "worker"
  <2>1. Owner(f) = f[2] /\ f[2] # Coordinator /\ f[2] \in Workers /\ f = <<"worker", f[2]>>
    BY <1>3, NAssumption DEF Owner, Endpoints, Workers, Coordinator
  <2>2. turn[Owner(f)] = f[2] /\ Last(Owner(f)) = f[2]
    BY <1>2, <2>1, NAssumption DEF First, Last, Workers
  <2>3. \A e \in Endpoints : Owner(e) = f[2] => e = f
    BY <2>1, NAssumption DEF Owner, Endpoints, Sides, Coordinator
  <2>4. At(Owner(f)) = f
    BY <1>1, <1>3, <2>1, <2>2 DEF At
  <2> QED BY <1>1, <2>1, <2>2, <2>3, <2>4 DEF Instances
<1>4. CASE f[1] # "worker"
  <2>1. N = 1 /\ f[1] = "coord" /\ f[2] = 1 /\ f = <<"coord", 1>>
    BY <1>4 DEF Alone, Endpoints, Sides, Workers
  <2>2. Owner(f) = Coordinator
    BY <2>1 DEF Owner
  <2>3. turn[Owner(f)] = 1 /\ Last(Owner(f)) = 1
    BY <1>2, <2>1, <2>2 DEF First, Last
  <2>4. \A e \in Endpoints : Owner(e) = Coordinator => e = f
    BY <2>1 DEF Owner, Endpoints, Sides, Coordinator, Workers
  <2>5. At(Owner(f)) = f
    BY <1>1, <2>1, <2>3 DEF At
  <2> QED BY <1>1, <2>2, <2>3, <2>4, <2>5 DEF Instances
<1> QED BY <1>3, <1>4

(* No target but the last is a final state.                                *)
LastOnly ==
  \A s \in Sides : \A i \in DOMAIN Targets[s] :
    Finished(s, Targets[s][i]) => i = Len(Targets[s])

(* An instance that is finished is at the last target of its process.      *)
LEMMA AtEnd ==
  ASSUME TypeOK, Barrier, FinishLast, LastOnly, NEW p \in Processes, HasGoal(p),
         NEW f \in Instances(p), Finished(f[1], state[f])
  PROVE  state[f] = Target(p) /\ goal[p] = Len(Targets[SideOf(p)])
<1> DEFINE s == SideOf(p)
           t == Target(p)
<1>1. /\ f \in Endpoints /\ f[1] = s /\ s \in Sides
      /\ Len(Targets[s]) \in Nat
      /\ \A i \in 1..Len(Targets[s]) : TargetOf(p, i) \in States(s)
  BY TargetFacts
<1>2. goal[p] \in 1..Len(Targets[s]) /\ t = Targets[s][goal[p]]
  BY <1>1 DEF HasGoal, Target, TargetOf, TypeOK
<1>3. t \in States(s) /\ state[f] \in States(s) /\ DOMAIN Targets[s] = 1..Len(Targets[s])
  BY <1>1, <1>2, TableAssumption DEF Target, TypeOK
<1>4. Rank[s][state[f]] \in Nat /\ Rank[s][t] \in Nat
  BY <1>1, <1>3, PathAssumption
<1>5. Rank[s][state[f]] <= Rank[s][t]
  BY <1>1, <1>4 DEF Barrier, Ahead, RankOf
<1>6. Rank[s][t] <= Rank[s][state[f]]
  BY <1>1, <1>3 DEF FinishLast
<1>7. state[f] = t
  BY <1>1, <1>3, <1>4, <1>5, <1>6, PathAssumption
<1>8. goal[p] = Len(Targets[s])
  <2>1. Finished(s, Targets[s][goal[p]])
    BY <1>1, <1>2, <1>7
  <2> QED BY <1>1, <1>2, <1>3, <2>1 DEF LastOnly
<1> QED BY <1>7, <1>8

--------------------------------------------------------------------------------
(* The bound is a number after a step as well.                             *)
LEMMA HoldNext ==
  ASSUME TypeOK', BudgetTable, InStep', NEW f \in Endpoints
  PROVE  Hold(f[2])' \in Nat
<1>1. Hold(f[2])' = Limit(Position(f[2])', busy'[f[2]])
  BY DEF Hold, Limit
<1> QED BY <1>1, BudgetFactsNext DEF BudgetHere

(* The end of a connection that another process polls.                     *)
LEMMA LastElsewhere ==
  ASSUME TypeOK, TypeOK', BudgetTable, InStep, InStep', NEW p \in Processes, NEW a \in Endpoints,
         a = At(p), Deed(p, a), FinishInv', NEW f \in Endpoints, LastHere(f), Owner(f) # p
  PROVE  LastHere(f)'
<1> SUFFICES ASSUME Finished(f[1], state'[f]), Alone(f)
             PROVE  LET o == Owner(f) IN
                    /\ pc'[o] \in Halted \cup {"finish"} \/ ~HasGoal(o)'
                    /\ pc'[o] = "finish" => count'[o] > 0
                    /\ Len(inbox'[Peer(f)]) + (IF pc'[o] = "finish" THEN count'[o] ELSE 0)
                         <= Hold(f[2])' + NotifyDone + 1
  BY DEF LastHere, Alone
<1> DEFINE o == Owner(f)
           e == Peer(f)
<1>1. /\ o \in Processes /\ o # p /\ f \in Instances(o) /\ e \in Endpoints /\ Peer(e) = f
      /\ e[2] = f[2] /\ Owner(a) = p
  BY PeerFacts, AtFacts DEF Instances, Peer
<1>2. Summary(p) /\ Exchange(a) /\ Ending(p, a)
  BY DEF Deed
<1>3. pc'[o] = pc[o] /\ count'[o] = count[o] /\ goal'[o] = goal[o] /\ state'[f] = state[f]
  BY <1>1, <1>2, OthersKept DEF Summary, Others, Ending
<1>4. HasGoal(o)' <=> HasGoal(o)
  BY <1>3 DEF HasGoal
<1>5. /\ pc[o] \in Halted \cup {"finish"} \/ ~HasGoal(o)
      /\ pc[o] = "finish" => count[o] > 0
      /\ Len(inbox[e]) + (IF pc[o] = "finish" THEN count[o] ELSE 0) <= Hold(f[2]) + NotifyDone + 1
  BY <1>3 DEF LastHere
<1>6. Len(inbox'[e]) <= Len(inbox[e]) /\ Hold(f[2])' \in Nat /\ Hold(f[2])' >= Hold(f[2])
  <2>1. CASE a[2] # f[2]
    <3>1. Eases(e) /\ Eases(f)
      BY <1>1, <1>2, <2>1 DEF Exchange
    <3> QED BY <3>1, HoldStays DEF Eases, Rests, Prefix
  <2>2. CASE a[2] = f[2]
    <3>1. a = e /\ Peer(a) = f
      <4>1. a # f
        BY <1>1
      <4>2. a[1] # f[1]
        BY <2>2, <4>1 DEF Endpoints, Sides
      <4>3. a = Peer(f)
        BY <2>2, <4>2 DEF Peer, OtherSide, Endpoints, Sides
      <4> QED BY <1>1, <4>3
    <3> HIDE DEF e, o
    <3>2. Len(inbox[e]) \in Nat
      BY <1>1, EndFacts
    <3>3. ASSUME state'[e] = state[e], SameBusy(e) \/ busy'[e[2]] = busy[e[2]] + 1
          PROVE  Hold(f[2])' \in Nat /\ Hold(f[2])' >= Hold(f[2])
      BY <1>1, <1>3, <3>1, <3>3, HoldStays
    <3>4. CASE Eases(a)
      BY <3>1, <3>2, <3>3, <3>4 DEF Eases, Rests, Prefix
    <3>5. CASE Says(a)
      BY <3>1, <3>2, <3>3, <3>5 DEF Says, Prefix
    <3>6. CASE Repeats(a)
      BY <3>1, <3>2, <3>3, <3>6 DEF Repeats, Prefix
    <3>7. CASE Reports(a)
      BY <3>1, <3>2, <3>3, <3>7 DEF Reports, Prefix
    <3>8. CASE Skips(a)
      BY <3>1, <3>2, <3>3, <3>8 DEF Skips, Loses
    <3>9. CASE Goes(a)
      <4>1. Hold(a[2])' \in Nat /\ Hold(a[2])' >= Hold(a[2])
        BY <3>9, PositionMoves, HoldNext
      <4> QED BY <1>1, <3>1, <3>2, <3>9, <4>1 DEF Goes, Prefix, Loses
    <3> QED BY <1>2, <3>4, <3>5, <3>6, <3>7, <3>8, <3>9 DEF Exchange
  <2> QED BY <2>1, <2>2
<1>7. /\ Len(inbox'[e]) \in Nat /\ Len(inbox[e]) \in Nat /\ count[o] \in Nat
      /\ Hold(f[2]) \in Nat /\ NotifyDone \in Nat
  BY <1>1, EndFacts, EndFactsNext, HoldFacts, BoundsAssumption DEF TypeOK
<1> HIDE DEF o, e
<1>8. Len(inbox'[e]) + (IF pc'[o] = "finish" THEN count'[o] ELSE 0) <= Hold(f[2])' + NotifyDone + 1
  <2>1. PICK l \in Nat : l = Len(inbox[e])
    BY <1>7
  <2>2. PICK l2 \in Nat : l2 = Len(inbox'[e])
    BY <1>7
  <2>3. PICK h \in Nat : h = Hold(f[2])
    BY <1>7
  <2>4. PICK h2 \in Nat : h2 = Hold(f[2])'
    BY <1>6
  <2>5. PICK c \in Nat : c = IF pc[o] = "finish" THEN count[o] ELSE 0
    BY <1>7
  <2>6. PICK g \in Nat : g = NotifyDone
    BY <1>7
  <2>7. l2 <= l /\ h <= h2
    BY <1>6, <2>1, <2>2, <2>3, <2>4
  <2>8. l + c <= h + g + 1
    BY <1>5, <2>1, <2>3, <2>5, <2>6
  <2>9. l2 + c <= h2 + g + 1
    BY <2>7, <2>8
  <2>10. c = IF pc'[o] = "finish" THEN count'[o] ELSE 0
    BY <1>3, <2>5
  <2> QED BY <2>2, <2>4, <2>6, <2>9, <2>10, Zenon
<1> QED BY <1>3, <1>4, <1>5, <1>8 DEF o, e

(* The end that moves to its final state.                                  *)
LEMMA LastMove ==
  ASSUME TypeOK, TypeOK', BudgetTable, InStep, InStep', NEW p \in Processes, NEW a \in Endpoints,
         a = At(p), Deed(p, a), MoverHere(a), state'[a] # state[a], Finished(a[1], state'[a])
  PROVE  LastHere(a)'
<1> DEFINE e == Peer(a)
           k == Position(a[2])
           b == busy[a[2]]
<1>1. Owner(a) = p /\ e \in Endpoints
  BY AtFacts, PeerFacts
<1>2. Goes(a)
  BY DEF Deed, Exchange, Eases, Rests, Says, Repeats, Reports, Skips
<1>3. Mover(a) /\ state'[a] = NextState[a[1]][state[a]] /\ Gets(e, Extra(a[1], state[a]), state'[a])
  BY <1>2 DEF Goes
<1>4. PICK n \in Nat : Held(a, n)
  BY <1>3 DEF MoverHere
<1>5. Len(inbox[e]) <= Room(k, b)
  <2>1. Len(inbox[e]) \in Nat /\ Debt(a, n) \in Nat /\ Room(k, b) \in Nat
    BY <1>1, EndFacts, DebtFacts, HoldFacts
  <2>2. Len(inbox[e]) + Debt(a, n) <= Room(k, b)
    BY <1>4 DEF Held
  <2> QED BY <2>1, <2>2
<1>6. Extra(a[1], state[a]) = 0
  <2>1. ~Moving(a[1], state'[a], state[e])
    BY DEF Moving
  <2>2. Run[a[1]][state[a]] # "join"
    BY <1>3, <2>1, BudgetFacts DEF BudgetHere, Mover
  <2> QED BY <2>2 DEF Extra
<1>7. Room(k, b) <= Hold(a[2]) /\ Room(k, b) \in Nat /\ Hold(a[2]) \in Nat
  BY HoldFacts
<1>8. Hold(a[2])' >= Hold(a[2]) /\ Hold(a[2])' \in Nat
  BY <1>2, PositionMoves, HoldNext
<1>9. Len(inbox'[e]) <= Len(inbox[e]) + 1
  BY <1>3, <1>6 DEF Gets
<1>10. pc'[p] \in Halted \/ (pc'[p] = "finish" /\ count'[p] = NotifyDone)
  BY DEF Deed, Ending
<1>11. NotifyDone \in Nat /\ NotifyDone > 0 /\ Len(inbox'[e]) \in Nat /\ Len(inbox[e]) \in Nat
  BY <1>1, EndFacts, EndFactsNext, BoundsAssumption
<1> HIDE DEF e, k, b
<1>12. Len(inbox'[e]) <= Hold(a[2])' + 1
  BY <1>5, <1>7, <1>8, <1>9, <1>11
<1>13. pc'[p] = "finish" => count'[p] > 0
  BY <1>10, <1>11 DEF Halted
<1>14. Len(inbox'[e]) + (IF pc'[p] = "finish" THEN count'[p] ELSE 0) <= Hold(a[2])' + NotifyDone + 1
  BY <1>8, <1>10, <1>11, <1>12 DEF Halted
<1> QED BY <1>1, <1>10, <1>13, <1>14 DEF LastHere, e

(* The end that stays in its final state: after its last notification its  *)
(* process has no goal left.                                               *)
LEMMA LastStay ==
  ASSUME TypeOK, TypeOK', Truthful, ControlInv, Barrier, BudgetTable, InStep, FinishLast, LastOnly,
         FinishInv, FinishInv', NEW p \in Processes, NEW a \in Endpoints, a = At(p), Deed(p, a),
         LastHere(a), state'[a] = state[a]
  PROVE  LastHere(a)'
<1> SUFFICES ASSUME Finished(a[1], state[a]), Alone(a)
             PROVE  /\ pc'[p] \in Halted \cup {"finish"} \/ ~HasGoal(p)'
                    /\ pc'[p] = "finish" => count'[p] > 0
                    /\ Len(inbox'[Peer(a)]) + (IF pc'[p] = "finish" THEN count'[p] ELSE 0)
                         <= Hold(a[2])' + NotifyDone + 1
  BY AtFacts DEF LastHere, Alone
<1> DEFINE e == Peer(a)
<1>1. /\ Owner(a) = p /\ a[1] = SideOf(p) /\ Instances(p) = {a} /\ turn[p] = Last(p)
      /\ e \in Endpoints /\ e[2] = a[2]
  BY AtFacts, OneInstance, PeerFacts DEF Peer
<1>2. /\ Ending(p, a) /\ pc[p] \notin Halted
      /\ pc[p] = "finish" \/ ~HasGoal(p)
      /\ pc[p] = "finish" => count[p] > 0
      /\ Len(inbox[e]) + (IF pc[p] = "finish" THEN count[p] ELSE 0) <= Hold(a[2]) + NotifyDone + 1
  BY <1>1 DEF LastHere, Deed
<1>3. pc[p] \notin {"poll", "recv"}
  BY <1>2 DEF ControlInv, ControlHere
<1>4. pc'[p] = "finish" => count'[p] > 0
  BY DEF FinishInv
<1>5. /\ Len(inbox'[e]) \in Nat /\ Len(inbox[e]) \in Nat /\ count[p] \in Nat
      /\ Hold(a[2]) \in Nat /\ NotifyDone \in Nat
  BY <1>1, EndFacts, EndFactsNext, HoldFacts, BoundsAssumption DEF TypeOK
<1>6. CASE NotifyFinished(p)
  <2>1. pc[p] = "finish" /\ HasGoal(p)
    BY <1>6 DEF NotifyFinished, ControlInv, ControlHere
  <2>2. Repeats(a)
    BY <1>6, NotifyFinishedDeed
  <2>3. Len(inbox'[e]) <= Len(inbox[e]) + 1
    BY <2>2 DEF Repeats, Gets
  <2>4. Hold(a[2])' \in Nat /\ Hold(a[2])' >= Hold(a[2])
    BY <2>2, HoldStays DEF Repeats, Rests
  <2>5. CASE count[p] > 1
    <3>1. count'[p] = count[p] - 1 /\ pc'[p] = "finish"
      BY <1>6, <2>5 DEF NotifyFinished, TypeOK
    <3> HIDE DEF e
    <3>2. Len(inbox[e]) + count[p] <= Hold(a[2]) + NotifyDone + 1
      BY <1>2, <2>1
    <3>3. Len(inbox'[e]) + count'[p] <= Hold(a[2])' + NotifyDone + 1
      <4> DEFINE L == Len(inbox[e])  M == Len(inbox'[e])  H == Hold(a[2])  G == Hold(a[2])'
      <4>1. /\ L \in Nat /\ M \in Nat /\ H \in Nat /\ G \in Nat /\ count[p] \in Nat
            /\ M <= L + 1 /\ G >= H /\ L + count[p] <= H + NotifyDone + 1 /\ NotifyDone \in Nat
        BY <1>5, <2>3, <2>4, <3>2
      <4> HIDE DEF L, M, H, G
      <4>2. M + (count[p] - 1) <= G + NotifyDone + 1
        BY <4>1
      <4> QED BY <3>1, <4>2 DEF M, G
    <3> QED BY <1>4, <3>1, <3>3 DEF e
  <2>6. CASE ~(count[p] > 1)
    <3>1. NextInstance(p, state[a])
      BY <1>6, <2>6 DEF NotifyFinished
    <3>2. state[a] = Target(p) /\ goal[p] = Len(Targets[SideOf(p)])
      BY <1>1, <2>1, AtEnd
    <3>3. AllAtTarget(p, state[a])
      BY <1>1, <3>2 DEF AllAtTarget
    <3>4. ~(turn[p] < Last(p))
      BY <1>1 DEF TypeOK
    <3>5. pc'[p] = "idle" /\ goal'[p] = goal[p] + 1
      BY <3>1, <3>3, <3>4 DEF NextInstance, TypeOK
    <3>6. ~HasGoal(p)'
      BY <3>2, <3>5 DEF HasGoal, TypeOK
    <3>8. count[p] \in Nat /\ count[p] > 0
      BY <1>2, <1>5, <2>1
    <3> HIDE DEF e
    <3>7. Len(inbox'[e]) <= Hold(a[2])' + NotifyDone + 1
      <4>1. PICK l \in Nat : l = Len(inbox[e])
        BY <1>5
      <4>2. PICK l2 \in Nat : l2 = Len(inbox'[e])
        BY <1>5
      <4>3. PICK h \in Nat : h = Hold(a[2])
        BY <1>5
      <4>4. PICK h2 \in Nat : h2 = Hold(a[2])'
        BY <2>4
      <4>5. PICK c \in Nat : c = IF pc[p] = "finish" THEN count[p] ELSE 0
        BY <1>5
      <4>6. PICK g \in Nat : g = NotifyDone
        BY <1>5
      <4>7. h <= h2
        BY <2>4, <4>3, <4>4
      <4>8. l + c <= h + g + 1
        BY <1>2, <4>1, <4>3, <4>5, <4>6
      <4>9. l2 <= l + 1
        BY <2>3, <4>1, <4>2
      <4>10. c >= 1
        BY <2>1, <3>8, <4>5
      <4>11. l2 <= h2 + g + 1
        BY <4>7, <4>8, <4>9, <4>10
      <4> QED BY <4>2, <4>4, <4>6, <4>11, Zenon
    <3> QED BY <1>4, <1>5, <3>5, <3>6, <3>7 DEF e
  <2> QED BY <2>5, <2>6
<1>7. CASE ~NotifyFinished(p)
  <2>1. Eases(e) /\ goal'[p] = goal[p] /\ pc'[p] # "finish"
        /\ (pc[p] = "finish" => pc'[p] \in Halted)
    BY <1>2, <1>3, <1>7 DEF Ending
  <2>2. pc'[p] \in Halted \/ ~HasGoal(p)'
    BY <1>2, <2>1 DEF HasGoal
  <2>3. Hold(a[2])' \in Nat /\ Hold(a[2])' >= Hold(a[2])
    BY <1>1, <2>1, HoldStays DEF Eases, Rests, SameBusy
  <2>4. Len(inbox'[e]) <= Len(inbox[e])
    BY <2>1 DEF Eases, Prefix
  <2> HIDE DEF e
  <2>5. Len(inbox'[e]) <= Hold(a[2])' + NotifyDone + 1
    <3>1. PICK l \in Nat : l = Len(inbox[e])
      BY <1>5
    <3>2. PICK l2 \in Nat : l2 = Len(inbox'[e])
      BY <1>5
    <3>3. PICK h \in Nat : h = Hold(a[2])
      BY <1>5
    <3>4. PICK h2 \in Nat : h2 = Hold(a[2])'
      BY <2>3
    <3>5. PICK c \in Nat : c = IF pc[p] = "finish" THEN count[p] ELSE 0
      BY <1>5
    <3>6. PICK g \in Nat : g = NotifyDone
      BY <1>5
    <3>7. h <= h2
      BY <2>3, <3>3, <3>4
    <3>8. l + c <= h + g + 1
      BY <1>2, <3>1, <3>3, <3>5, <3>6
    <3>9. l2 <= l + 0
      BY <2>4, <3>1, <3>2
    <3>11. l2 <= h2 + g + 1
      BY <3>7, <3>8, <3>9
    <3> QED BY <3>2, <3>4, <3>6, <3>11, Zenon
  <2> QED BY <1>4, <1>5, <2>1, <2>2, <2>5 DEF e
<1> QED BY <1>6, <1>7

--------------------------------------------------------------------------------
LInv == FinishInv /\ BacklogInv

(* The invariant is kept by every step, as InStep and the failure          *)
(* invariant are.                                                          *)
LEMMA NextBacklog ==
  ASSUME FInv, LInv, FInv', BudgetTable, FinishLast, LastOnly, [Next]_vars
  PROVE  LInv'
<1>1. /\ TypeOK /\ Truthful /\ ControlInv /\ InStep /\ Barrier /\ ConnectInv
      /\ MadeTogether /\ TypeOK' /\ InStep'
  BY DEF FInv, LinkInv, NInv, IInv
<1>2. FinishInv /\ \A f \in Endpoints : Here(f) /\ LastHere(f)
  BY DEF LInv, BacklogInv, Here
<1>6. CASE Idle
  <2>1. FinishInv'
    BY <1>2, <1>6 DEF Idle, FinishInv, At
  <2>2. \A f \in Endpoints : Here(f)' /\ LastHere(f)'
    BY <1>1, <1>2, <1>6, IdleKeeps, IdleLast
  <2> QED BY <2>1, <2>2 DEF LInv, BacklogInv, Here
<1>7. ASSUME NEW p \in Processes, NEW a \in Endpoints, a = At(p), Deed(p, a)
      PROVE  LInv'
  <2>1. FinishInv'
    BY <1>1, <1>2, <1>7, FinishKept
  <2>2. \A f \in Endpoints : Here(f)'
    BY <1>1, <1>2, <1>7, ExchangeKeeps DEF Deed
  <2>3. ASSUME NEW f \in Endpoints PROVE LastHere(f)'
    <3>1. CASE Owner(f) # p
      BY <1>1, <1>2, <1>7, <2>1, <3>1, LastElsewhere
    <3>2. CASE Owner(f) = p /\ Alone(f)
      <4>1. a = f
        BY <1>1, <1>7, <3>2, OneInstance
      <4>2. CASE state'[a] = state[a]
        BY <1>1, <1>2, <1>7, <2>1, <4>1, <4>2, LastStay
      <4>3. CASE state'[a] # state[a] /\ Finished(a[1], state'[a])
        BY <1>1, <1>2, <1>7, <4>1, <4>3, LastMove DEF Here
      <4>4. CASE ~Finished(f[1], state'[f])
        BY <4>4 DEF LastHere
      <4> QED BY <4>1, <4>2, <4>3, <4>4
    <3>3. CASE ~Alone(f)
      BY <3>3 DEF LastHere, Alone
    <3> QED BY <3>1, <3>2, <3>3
  <2> QED BY <2>1, <2>2, <2>3 DEF LInv, BacklogInv, Here
<1> QED BY <1>1, <1>2, <1>6, <1>7, NextDeed DEF Deeds

--------------------------------------------------------------------------------
(* In the beginning nothing is unread, and the mover can only read.        *)
LEMMA InitBacklog ==
  ASSUME Init, BudgetTable, BudgetStart, FInv
  PROVE  LInv
<1>0. TypeOK /\ InStep
  BY DEF FInv, NInv, IInv
<1>2. FinishInv
  BY DEF Init, Start, FinishInv
<1>3. ASSUME NEW f \in Endpoints PROVE MoverHere(f) /\ FinalHere(f) /\ LastHere(f)
  <2> DEFINE e == Peer(f)
  <2>1. /\ e \in Endpoints /\ e[1] = OtherSide(f[1]) /\ f[1] = OtherSide(e[1]) /\ Peer(e) = f
        /\ f[1] \in Sides /\ f[2] \in Workers /\ e[1] \in Sides /\ Owner(e) \in Processes
    BY PeerFacts
  <2>2. /\ state[f] = Initial[f[1]] /\ state[e] = Initial[e[1]]
        /\ inbox[f] = <<>> /\ inbox[e] = <<>>
        /\ ready[f] = FALSE /\ ready[e] = FALSE /\ busy[f[2]] = 0
    BY <2>1 DEF Init
  <2>3. ~Finished(f[1], state[f])
    BY <2>1, <2>2 DEF BudgetStart
  <2>4. FinalHere(f) /\ LastHere(f)
    BY <2>3 DEF FinalHere, LastHere
  <2>5. ASSUME Mover(f) PROVE Held(f, 0)
    <3>1. Run[f[1]][state[f]] = "await" /\ Echo(0, 0) >= 1
      BY <2>1, <2>2, <2>5 DEF BudgetStart, Mover
    <3>2. Position(f[2]) = 0
      <4>1. Rank[f[1]][Initial[f[1]]] = 0 /\ Rank[e[1]][Initial[e[1]]] = 0
        BY <2>1, PathAssumption
      <4>2. Position(f[2]) = Rank[f[1]][state[f]] + Rank[OtherSide(f[1])][state[Peer(f)]]
        BY <1>0, EndFacts
      <4>3. Position(f[2]) = Rank[f[1]][Initial[f[1]]] + Rank[e[1]][Initial[e[1]]]
        BY <2>1, <2>2, <4>2, Zenon
      <4> QED BY <4>1, <4>3
    <3>3. Credit(f) = 0 /\ Debt(f, 0) = 0
      BY <2>2, <3>1 DEF Credit, Debt
    <3>4. Credit(e) <= 1 /\ Credit(e) \in Nat
      BY <1>0, <2>1, <2>2, EndFacts DEF Credit
    <3>5. Room(0, 0) \in Nat /\ Echo(0, 0) \in Nat
      <4>1. BudgetHere(f[1], state[f], state[Peer(f)], NextState[f[1]][state[f]],
                       Position(f[2]), busy[f[2]])
        BY <1>0, BudgetFacts
      <4>2. BudgetHere(f[1], state[f], state[Peer(f)], NextState[f[1]][state[f]], 0, 0)
        BY <2>2, <3>2, <4>1, Zenon
      <4> QED BY <4>2 DEF BudgetHere
    <3>6. Len(inbox[f]) = 0 /\ Len(inbox[e]) = 0 /\ DOMAIN inbox[f] = {}
      BY <2>2
    <3> DEFINE L == Len(inbox[f])  M == Len(inbox[e])  D == Debt(f, 0)  F == Credit(e)
    <3>7. M + D <= Room(0, 0) /\ L + F + 2 * (M + D) <= Echo(0, 0)
      <4>1. L = 0 /\ M = 0 /\ D = 0 /\ F <= 1 /\ F \in Nat
        BY <3>3, <3>4, <3>6
      <4> HIDE DEF L, M, D, F
      <4> QED BY <3>1, <3>5, <4>1
    <3>8. /\ M + D <= Room(Position(f[2]), busy[f[2]])
          /\ L + F + 2 * (M + D) <= Echo(Position(f[2]), busy[f[2]])
      BY <2>2, <3>2, <3>7, Zenon
    <3> QED BY <3>6, <3>8 DEF Held
  <2> QED BY <2>4, <2>5 DEF MoverHere
<1> QED BY <1>2, <1>3 DEF LInv, BacklogInv

(* The invariant says enough.                                              *)
LEMMA BacklogHere ==
  ASSUME TypeOK, InStep, BudgetTable, BacklogInv
  PROVE  Backlog
<1> SUFFICES ASSUME NEW e \in Endpoints
             PROVE  /\ \A i \in DOMAIN inbox[e] :
                         i > Hold(e[2]) => Finished(OtherSide(e[1]), inbox[e][i])
                    /\ e[1] = "coord" \/ N = 1 => Len(inbox[e]) <= Hold(e[2]) + NotifyDone + 1
  BY DEF Backlog
<1> DEFINE f == Peer(e)
<1>1. /\ f \in Endpoints /\ Peer(f) = e /\ f[1] = OtherSide(e[1]) /\ e[1] = OtherSide(f[1])
      /\ f[2] = e[2] /\ e[1] \in Sides
  BY PeerFacts DEF Peer
<1>2. /\ Len(inbox[e]) \in Nat /\ DOMAIN inbox[e] = 1..Len(inbox[e]) /\ Hold(e[2]) \in Nat
      /\ NotifyDone \in Nat
  BY EndFacts, HoldFacts, BoundsAssumption
<1>3. ASSUME Len(inbox[e]) <= Hold(e[2])
      PROVE  /\ \A i \in DOMAIN inbox[e] : ~(i > Hold(e[2]))
             /\ Len(inbox[e]) <= Hold(e[2]) + NotifyDone + 1
  BY <1>2, <1>3
<1>4. CASE Finished(f[1], state[f])
  <2>1. \A i \in DOMAIN inbox[e] : i > Hold(e[2]) => Finished(OtherSide(e[1]), inbox[e][i])
    BY <1>1, <1>4 DEF BacklogInv, FinalHere
  <2>2. ASSUME e[1] = "coord" \/ N = 1 PROVE Len(inbox[e]) <= Hold(e[2]) + NotifyDone + 1
    <3>1. Alone(f)
      BY <1>1, <2>2 DEF Alone, OtherSide
    <3>2. PICK k \in Nat : Len(inbox[e]) + k <= Hold(e[2]) + NotifyDone + 1
      <4>1. /\ pc[Owner(f)] = "finish" => count[Owner(f)] \in Nat
            /\ Len(inbox[Peer(f)]) + (IF pc[Owner(f)] = "finish" THEN count[Owner(f)] ELSE 0)
                 <= Hold(f[2]) + NotifyDone + 1
        BY <1>1, <1>4, <3>1, PeerFacts DEF BacklogInv, LastHere, TypeOK
      <4> QED BY <1>1, <4>1
    <3> QED BY <1>2, <3>2
  <2> QED BY <2>1, <2>2
<1>5. CASE ~Finished(f[1], state[f]) /\ Mover(f)
  <2>1. PICK n \in Nat : Held(f, n)
    BY <1>1, <1>5 DEF BacklogInv, MoverHere
  <2>2. Len(inbox[e]) + Debt(f, n) <= Room(Position(f[2]), busy[f[2]])
    BY <1>1, <2>1 DEF Held
  <2>3. /\ Debt(f, n) \in Nat /\ Room(Position(f[2]), busy[f[2]]) \in Nat
        /\ Room(Position(f[2]), busy[f[2]]) <= Hold(e[2])
    BY <1>1, DebtFacts, HoldFacts
  <2>4. Len(inbox[e]) <= Hold(e[2])
    BY <1>2, <2>2, <2>3
  <2> QED BY <1>3, <2>4
<1>6. CASE ~Finished(f[1], state[f]) /\ ~Mover(f)
  <2>1. Waits(f)
    BY <1>1, <1>6 DEF Mover, Moving, Waits
  <2>2. Mover(e)
    BY <1>1, <2>1, BudgetFacts DEF BudgetHere, Mover, Waits
  <2>3. PICK n \in Nat : Held(e, n)
    BY <2>2 DEF BacklogInv, MoverHere
  <2> DEFINE L == Len(inbox[e])  M == Len(inbox[f])  D == Debt(e, n)  F == Credit(f)
             Ec == Echo(Position(e[2]), busy[e[2]])
  <2>4. L + F + 2 * (M + D) <= Ec
    BY <2>1, <2>3 DEF Held
  <2>5. L \in Nat /\ F \in Nat /\ M \in Nat /\ D \in Nat
    BY <1>1, EndFacts, DebtFacts
  <2>6. Ec <= Hold(e[2]) /\ Ec \in Nat
    BY HoldFacts, BudgetFacts DEF BudgetHere
  <2> HIDE DEF L, M, D, F, Ec
  <2>7. L <= Hold(e[2])
    BY <1>2, <2>4, <2>5, <2>6
  <2> QED BY <1>3, <2>7 DEF L
<1> QED BY <1>4, <1>5, <1>6

--------------------------------------------------------------------------------
(* A row of the tables: the rank of a state, what run() does in it, the    *)
(* message it awaits and the state after it.                               *)
Row(d, x, r, u, m, z) ==
  /\ Rank[d][x] = r /\ Run[d][x] = u
  /\ Step[d][x] = m /\ NextState[d][x] = z

(* What an end in state x does while the other end is in state y.          *)
Standing(d, x, y, what) ==
  /\ Awaiting(d, x, y) <=> what = "waits"
  /\ Moving(d, x, y) <=> what = "moves"

Stands(x, y, coord, worker) == Standing("coord", x, y, coord) /\ Standing("worker", y, x, worker)

Budgets(x, y, z, u, k, b) ==
  BudgetHere("coord", x, y, z, k, b) /\ BudgetHere("worker", y, x, u, k, b)

--------------------------------------------------------------------------------
(* The tables of the server, row by row.                                   *)
LEMMA ServerRows ==
  ASSUME ServerTables
  PROVE  /\ Row("coord", "CheckWorker", 0, "notify_await", "Ready", "Ready")
         /\ Row("coord", "Ready", 1, "advance", "UserDriven", "RunWorker")
         /\ Row("coord", "RunWorker", 2, "notify_await", "RunningAwaitKill", "WorkersRunning")
         /\ Row("coord", "WorkersRunning", 3, "advance", "UserDriven", "KillWorker")
         /\ Row("coord", "KillWorker", 4, "notify_await", "Stopped", "WorkerKilled")
         /\ Row("coord", "WorkerKilled", 5, "advance", "UserDriven", "Done")
         /\ Row("coord", "Done", 6, "notify", "Finished", "Done")
         /\ Row("worker", "WaitCoordInit", 0, "await", "CheckWorker", "Ready")
         /\ Row("worker", "Ready", 1, "notify_await", "RunWorker", "Run")
         /\ Row("worker", "Run", 2, "spawn", "SelfDriven", "RunningAwaitKill")
         /\ Row("worker", "RunningAwaitKill", 3, "notify_await", "KillWorker", "Killing")
         /\ Row("worker", "Killing", 4, "kill", "SelfDriven", "Stopped")
         /\ Row("worker", "Stopped", 5, "notify_await", "Done", "Done")
         /\ Row("worker", "Done", 6, "notify", "Finished", "Done")
  BY SMT DEF ServerTables, ServerRun, ServerStep, ServerNext, ServerRank, ServerCoordRun,
     ServerCoordStep, ServerCoordNext, ServerWorkerRun, ServerWorkerStep, ServerWorkerNext, Row

(* Where its ends stand as the connection goes along.                      *)
LEMMA ServerStands ==
  ASSUME ServerTables
  PROVE  /\ Stands("CheckWorker", "WaitCoordInit", "waits", "moves")
         /\ Stands("CheckWorker", "Ready", "moves", "waits")
         /\ Stands("Ready", "Ready", "moves", "waits")
         /\ Stands("RunWorker", "Ready", "waits", "moves")
         /\ Stands("RunWorker", "Run", "waits", "moves")
         /\ Stands("RunWorker", "RunningAwaitKill", "moves", "waits")
         /\ Stands("WorkersRunning", "RunningAwaitKill", "moves", "waits")
         /\ Stands("KillWorker", "RunningAwaitKill", "waits", "moves")
         /\ Stands("KillWorker", "Killing", "waits", "moves")
         /\ Stands("KillWorker", "Stopped", "moves", "waits")
         /\ Stands("WorkerKilled", "Stopped", "moves", "waits")
         /\ Stands("Done", "Stopped", "ends", "moves")
         /\ Stands("Done", "Done", "ends", "ends")
<1> USE DEF Row, Stands, Standing, Moving, Awaiting, Awaits, Finished, Kinds, OtherSide
<1>0. Stands("CheckWorker", "WaitCoordInit", "waits", "moves")
  BY ServerRows
<1>1. Stands("CheckWorker", "Ready", "moves", "waits")
  BY ServerRows
<1>2. Stands("Ready", "Ready", "moves", "waits")
  BY ServerRows
<1>3. Stands("RunWorker", "Ready", "waits", "moves")
  BY ServerRows
<1>4. Stands("RunWorker", "Run", "waits", "moves")
  BY ServerRows
<1>5. Stands("RunWorker", "RunningAwaitKill", "moves", "waits")
  BY ServerRows
<1>6. Stands("WorkersRunning", "RunningAwaitKill", "moves", "waits")
  BY ServerRows
<1>7. Stands("KillWorker", "RunningAwaitKill", "waits", "moves")
  BY ServerRows
<1>8. Stands("KillWorker", "Killing", "waits", "moves")
  BY ServerRows
<1>9. Stands("KillWorker", "Stopped", "moves", "waits")
  BY ServerRows
<1>10. Stands("WorkerKilled", "Stopped", "moves", "waits")
  BY ServerRows
<1>11. Stands("Done", "Stopped", "ends", "moves")
  BY ServerRows
<1>12. Stands("Done", "Done", "ends", "ends")
  BY ServerRows
<1> HIDE DEF Row, Stands, Standing, Moving, Awaiting, Awaits, Finished, Kinds, OtherSide
<1> QED BY <1>0, <1>1, <1>2, <1>3, <1>4, <1>5, <1>6,
           <1>7, <1>8, <1>9, <1>10, <1>11, <1>12

(* These are all the states its two ends can be in at a time.              *)
ServerPairs ==
  {<<"CheckWorker", "WaitCoordInit">>,
   <<"CheckWorker", "Ready">>,
   <<"Ready", "Ready">>,
   <<"RunWorker", "Ready">>,
   <<"RunWorker", "Run">>,
   <<"RunWorker", "RunningAwaitKill">>,
   <<"WorkersRunning", "RunningAwaitKill">>,
   <<"KillWorker", "RunningAwaitKill">>,
   <<"KillWorker", "Killing">>,
   <<"KillWorker", "Stopped">>,
   <<"WorkerKilled", "Stopped">>,
   <<"Done", "Stopped">>,
   <<"Done", "Done">>}

LEMMA ServerTogether ==
  ASSUME ServerTables, NEW x \in States("coord"), NEW y \in States("worker"),
         Together("coord", x, y)
  PROVE  <<x, y>> \in ServerPairs
<1>1. Linked("coord", x, y) /\ Linked("worker", y, x)
  BY DEF Together, OtherSide
<1>2. /\ x \in {"CheckWorker", "Ready", "RunWorker", "WorkersRunning", "KillWorker", "WorkerKilled",
             "Done"}
      /\ y \in {"WaitCoordInit", "Ready", "Run", "RunningAwaitKill", "Killing", "Stopped", "Done"}
  BY ServerFacts
<1>3. /\ Rank["coord"][x] > 0 => Rank["worker"][y] >= 1
      /\ Rank["coord"][x] > 2 => Rank["worker"][y] >= 3
      /\ Rank["coord"][x] > 4 => Rank["worker"][y] >= 5
      /\ Rank["worker"][y] > 0 => Rank["coord"][x] >= 0
      /\ Rank["worker"][y] > 1 => Rank["coord"][x] >= 2
      /\ Rank["worker"][y] > 3 => Rank["coord"][x] >= 4
      /\ Rank["worker"][y] > 5 => Rank["coord"][x] >= 6
  <2>1. Rank["coord"][x] > 0 => Rank["worker"][y] >= 1
    <3>1. "CheckWorker" \in States("coord")
      BY ServerFacts
    <3> QED BY <1>1, <3>1, ServerRows DEF Linked, Row, Awaits, Kinds, OtherSide
  <2>2. Rank["coord"][x] > 2 => Rank["worker"][y] >= 3
    <3>1. "RunWorker" \in States("coord")
      BY ServerFacts
    <3> QED BY <1>1, <3>1, ServerRows DEF Linked, Row, Awaits, Kinds, OtherSide
  <2>3. Rank["coord"][x] > 4 => Rank["worker"][y] >= 5
    <3>1. "KillWorker" \in States("coord")
      BY ServerFacts
    <3> QED BY <1>1, <3>1, ServerRows DEF Linked, Row, Awaits, Kinds, OtherSide
  <2>4. Rank["worker"][y] > 0 => Rank["coord"][x] >= 0
    <3>1. "WaitCoordInit" \in States("worker")
      BY ServerFacts
    <3> QED BY <1>1, <3>1, ServerRows DEF Linked, Row, Awaits, Kinds, OtherSide
  <2>5. Rank["worker"][y] > 1 => Rank["coord"][x] >= 2
    <3>1. "Ready" \in States("worker")
      BY ServerFacts
    <3> QED BY <1>1, <3>1, ServerRows DEF Linked, Row, Awaits, Kinds, OtherSide
  <2>6. Rank["worker"][y] > 3 => Rank["coord"][x] >= 4
    <3>1. "RunningAwaitKill" \in States("worker")
      BY ServerFacts
    <3> QED BY <1>1, <3>1, ServerRows DEF Linked, Row, Awaits, Kinds, OtherSide
  <2>7. Rank["worker"][y] > 5 => Rank["coord"][x] >= 6
    <3>1. "Stopped" \in States("worker")
      BY ServerFacts
    <3> QED BY <1>1, <3>1, ServerRows DEF Linked, Row, Awaits, Kinds, OtherSide
  <2> QED BY <2>1, <2>2, <2>3, <2>4, <2>5, <2>6, <2>7
<1>4. CASE x = "CheckWorker"
  BY <1>2, <1>3, <1>4, ServerRows DEF Row, ServerPairs
<1>5. CASE x = "Ready"
  BY <1>2, <1>3, <1>5, ServerRows DEF Row, ServerPairs
<1>6. CASE x = "RunWorker"
  BY <1>2, <1>3, <1>6, ServerRows DEF Row, ServerPairs
<1>7. CASE x = "WorkersRunning"
  BY <1>2, <1>3, <1>7, ServerRows DEF Row, ServerPairs
<1>8. CASE x = "KillWorker"
  BY <1>2, <1>3, <1>8, ServerRows DEF Row, ServerPairs
<1>9. CASE x = "WorkerKilled"
  BY <1>2, <1>3, <1>9, ServerRows DEF Row, ServerPairs
<1>10. CASE x = "Done"
  BY <1>2, <1>3, <1>10, ServerRows DEF Row, ServerPairs
<1> QED BY <1>2, <1>4, <1>5, <1>6, <1>7, <1>8, <1>9, <1>10

(* The numbers of unread messages, move by move.                           *)
ServerNumbered(b) ==
  /\ Room(0, b) = 0 /\ Echo(0, b) = 1 /\ Limit(0, b) = 1 + 5 * b
  /\ Room(1, b) = 1 /\ Echo(1, b) = 6 /\ Limit(1, b) = 6 + 5 * b
  /\ Room(2, b) = 2 /\ Echo(2, b) = 7 /\ Limit(2, b) = 7 + 5 * b
  /\ Room(3, b) = 7 /\ Echo(3, b) = 20 /\ Limit(3, b) = 20 + 5 * b
  /\ Room(4, b) = 8 /\ Echo(4, b) = 21 /\ Limit(4, b) = 21 + 5 * b
  /\ Room(5, b) = 21 /\ Echo(5, b) = 54 /\ Limit(5, b) = 54 + 5 * b
  /\ Room(6, b) = 22 /\ Echo(6, b) = 55 /\ Limit(6, b) = 133 + 5 * b
  /\ Room(7, b) = 55 /\ Echo(7, b) = 136 /\ Limit(7, b) = 136 + 5 * b
  /\ Room(8, b) = 56 /\ Echo(8, b) = 137 /\ Limit(8, b) = 332 + 5 * b
  /\ Room(9, b) = 137 /\ Echo(9, b) = 334 /\ Limit(9, b) = 334 + 5 * b
  /\ Room(10, b) = 138 /\ Echo(10, b) = 335 /\ Limit(10, b) = 335 + 5 * b
  /\ Room(11, b) = 335 /\ Echo(11, b) = 335 /\ Limit(11, b) = 335 + 5 * b
  /\ Room(12, b) = 335 /\ Echo(12, b) = 335 /\ Limit(12, b) = 335 + 5 * b

LEMMA ServerNumbers ==
  ASSUME ServerTables, NEW b \in Nat
  PROVE  ServerNumbered(b)
  BY DEF ServerTables, ServerNumbered, Room, Echo, Limit, Unread, ServerRoom, ServerEcho

(* They make up for what is sent meanwhile.                                *)
LEMMA ServerBudgets ==
  ASSUME ServerTables, NEW b \in Nat
  PROVE  /\ Budgets("CheckWorker", "WaitCoordInit", "Ready", "Ready", 0, b)
         /\ Budgets("CheckWorker", "Ready", "Ready", "Run", 1, b)
         /\ Budgets("Ready", "Ready", "RunWorker", "Run", 2, b)
         /\ Budgets("RunWorker", "Ready", "WorkersRunning", "Run", 3, b)
         /\ Budgets("RunWorker", "Run", "WorkersRunning", "RunningAwaitKill", 4, b)
         /\ Budgets("RunWorker", "RunningAwaitKill", "WorkersRunning", "Killing", 5, b)
         /\ Budgets("WorkersRunning", "RunningAwaitKill", "KillWorker", "Killing", 6, b)
         /\ Budgets("KillWorker", "RunningAwaitKill", "WorkerKilled", "Killing", 7, b)
         /\ Budgets("KillWorker", "Killing", "WorkerKilled", "Stopped", 8, b)
         /\ Budgets("KillWorker", "Stopped", "WorkerKilled", "Done", 9, b)
         /\ Budgets("WorkerKilled", "Stopped", "Done", "Done", 10, b)
         /\ Budgets("Done", "Stopped", "Done", "Done", 11, b)
         /\ Budgets("Done", "Done", "Done", "Done", 12, b)
<1>a. ServerNumbered(b) /\ ServerNumbered(b + 1)
  BY ServerNumbers
<1> USE <1>a DEF Budgets, BudgetHere, Row, Stands, Standing, Awaits, Finished, Kinds, OtherSide,
            Extra, ServerNumbered
<1>0. Budgets("CheckWorker", "WaitCoordInit", "Ready", "Ready", 0, b)
  BY ServerRows, ServerStands
<1>1. Budgets("CheckWorker", "Ready", "Ready", "Run", 1, b)
  BY ServerRows, ServerStands
<1>2. Budgets("Ready", "Ready", "RunWorker", "Run", 2, b)
  BY ServerRows, ServerStands
<1>3. Budgets("RunWorker", "Ready", "WorkersRunning", "Run", 3, b)
  BY ServerRows, ServerStands
<1>4. Budgets("RunWorker", "Run", "WorkersRunning", "RunningAwaitKill", 4, b)
  BY ServerRows, ServerStands
<1>5. Budgets("RunWorker", "RunningAwaitKill", "WorkersRunning", "Killing", 5, b)
  BY ServerRows, ServerStands
<1>6. Budgets("WorkersRunning", "RunningAwaitKill", "KillWorker", "Killing", 6, b)
  BY ServerRows, ServerStands
<1>7. Budgets("KillWorker", "RunningAwaitKill", "WorkerKilled", "Killing", 7, b)
  BY ServerRows, ServerStands
<1>8. Budgets("KillWorker", "Killing", "WorkerKilled", "Stopped", 8, b)
  BY ServerRows, ServerStands
<1>9. Budgets("KillWorker", "Stopped", "WorkerKilled", "Done", 9, b)
  BY ServerRows, ServerStands
<1>10. Budgets("WorkerKilled", "Stopped", "Done", "Done", 10, b)
  BY ServerRows, ServerStands
<1>11. Budgets("Done", "Stopped", "Done", "Done", 11, b)
  BY ServerRows, ServerStands
<1>12. Budgets("Done", "Done", "Done", "Done", 12, b)
  BY ServerRows, ServerStands
<1> HIDE <1>a DEF Budgets, BudgetHere, Row, Stands, Standing, Awaits, Finished, Kinds, OtherSide,
             Extra, ServerNumbered
<1> QED BY <1>0, <1>1, <1>2, <1>3, <1>4, <1>5, <1>6,
           <1>7, <1>8, <1>9, <1>10, <1>11, <1>12

LEMMA ServerBudget ==
  ASSUME ServerTables
  PROVE  BudgetTable /\ BudgetStart
<1>0. ASSUME NEW b \in Nat, NEW x \in States("coord"), NEW y \in States("worker"),
             Together("coord", x, y)
      PROVE  Budgets(x, y, NextState["coord"][x], NextState["worker"][y],
                     Rank["coord"][x] + Rank["worker"][y], b)
  <2>0. CASE x = "CheckWorker" /\ y = "WaitCoordInit"
    BY <2>0, ServerRows, ServerBudgets DEF Row
  <2>1. CASE x = "CheckWorker" /\ y = "Ready"
    BY <2>1, ServerRows, ServerBudgets DEF Row
  <2>2. CASE x = "Ready" /\ y = "Ready"
    BY <2>2, ServerRows, ServerBudgets DEF Row
  <2>3. CASE x = "RunWorker" /\ y = "Ready"
    BY <2>3, ServerRows, ServerBudgets DEF Row
  <2>4. CASE x = "RunWorker" /\ y = "Run"
    BY <2>4, ServerRows, ServerBudgets DEF Row
  <2>5. CASE x = "RunWorker" /\ y = "RunningAwaitKill"
    BY <2>5, ServerRows, ServerBudgets DEF Row
  <2>6. CASE x = "WorkersRunning" /\ y = "RunningAwaitKill"
    BY <2>6, ServerRows, ServerBudgets DEF Row
  <2>7. CASE x = "KillWorker" /\ y = "RunningAwaitKill"
    BY <2>7, ServerRows, ServerBudgets DEF Row
  <2>8. CASE x = "KillWorker" /\ y = "Killing"
    BY <2>8, ServerRows, ServerBudgets DEF Row
  <2>9. CASE x = "KillWorker" /\ y = "Stopped"
    BY <2>9, ServerRows, ServerBudgets DEF Row
  <2>10. CASE x = "WorkerKilled" /\ y = "Stopped"
    BY <2>10, ServerRows, ServerBudgets DEF Row
  <2>11. CASE x = "Done" /\ y = "Stopped"
    BY <2>11, ServerRows, ServerBudgets DEF Row
  <2>12. CASE x = "Done" /\ y = "Done"
    BY <2>12, ServerRows, ServerBudgets DEF Row
  <2> QED BY <1>0, ServerTogether, <2>0, <2>1, <2>2, <2>3, <2>4, <2>5, <2>6,
             <2>7, <2>8, <2>9, <2>10, <2>11, <2>12 DEF ServerPairs
<1>1. \A y \in States("worker"), x \in States("coord") :
        /\ Together("worker", y, x) <=> Together("coord", x, y)
        /\ Rank["worker"][y] + Rank["coord"][x] = Rank["coord"][x] + Rank["worker"][y]
  BY PathAssumption DEF Together, OtherSide, Sides
<1>2. BudgetTable
  BY <1>0, <1>1 DEF Budgets, BudgetTable, OtherSide, Sides
<1>3. BudgetStart
  <2>1. Initial["coord"] = "CheckWorker" /\ Initial["worker"] = "WaitCoordInit"
    BY DEF ServerTables, ServerInitial
  <2>2. ServerNumbered(0)
    BY ServerNumbers
  <2> QED BY <2>1, <2>2, ServerRows, ServerStands DEF ServerNumbered, BudgetStart, Row, Stands,
             Standing, Finished, OtherSide, Sides
<1> QED BY <1>2, <1>3

--------------------------------------------------------------------------------
(* The tables of the client, row by row.                                   *)
LEMMA ClientRows ==
  ASSUME ClientTables
  PROVE  /\ Row("coord", "CheckWorker", 0, "notify_await", "Ready", "Ready")
         /\ Row("coord", "Ready", 1, "advance", "UserDriven", "RunWorker")
         /\ Row("coord", "RunWorker", 2, "notify_await", "Running", "WorkersRunning")
         /\ Row("coord", "WorkersRunning", 3, "notify_await", "Stopped", "Done")
         /\ Row("coord", "Done", 4, "notify", "Finished", "Done")
         /\ Row("worker", "WaitCoordInit", 0, "await", "CheckWorker", "Ready")
         /\ Row("worker", "Ready", 1, "notify_await", "RunWorker", "Run")
         /\ Row("worker", "Run", 2, "spawn", "SelfDriven", "Running")
         /\ Row("worker", "Running", 3, "notify_await", "WorkersRunning", "RunningAwaitComplete")
         /\ Row("worker", "RunningAwaitComplete", 4, "join", "SelfDriven", "Stopped")
         /\ Row("worker", "Stopped", 5, "notify_await", "Done", "Done")
         /\ Row("worker", "Done", 6, "notify", "Finished", "Done")
  BY SMT DEF ClientTables, ClientRun, ClientStep, ClientNext, ClientRank, ClientCoordRun,
     ClientCoordStep, ClientCoordNext, ClientWorkerRun, ClientWorkerStep, ClientWorkerNext, Row

(* Where its ends stand as the connection goes along.                      *)
LEMMA ClientStands ==
  ASSUME ClientTables
  PROVE  /\ Stands("CheckWorker", "WaitCoordInit", "waits", "moves")
         /\ Stands("CheckWorker", "Ready", "moves", "waits")
         /\ Stands("Ready", "Ready", "moves", "waits")
         /\ Stands("RunWorker", "Ready", "waits", "moves")
         /\ Stands("RunWorker", "Run", "waits", "moves")
         /\ Stands("RunWorker", "Running", "moves", "waits")
         /\ Stands("WorkersRunning", "Running", "waits", "moves")
         /\ Stands("WorkersRunning", "RunningAwaitComplete", "waits", "moves")
         /\ Stands("WorkersRunning", "Stopped", "moves", "waits")
         /\ Stands("Done", "Stopped", "ends", "moves")
         /\ Stands("Done", "Done", "ends", "ends")
<1> USE DEF Row, Stands, Standing, Moving, Awaiting, Awaits, Finished, Kinds, OtherSide
<1>0. Stands("CheckWorker", "WaitCoordInit", "waits", "moves")
  BY ClientRows
<1>1. Stands("CheckWorker", "Ready", "moves", "waits")
  BY ClientRows
<1>2. Stands("Ready", "Ready", "moves", "waits")
  BY ClientRows
<1>3. Stands("RunWorker", "Ready", "waits", "moves")
  BY ClientRows
<1>4. Stands("RunWorker", "Run", "waits", "moves")
  BY ClientRows
<1>5. Stands("RunWorker", "Running", "moves", "waits")
  BY ClientRows
<1>6. Stands("WorkersRunning", "Running", "waits", "moves")
  BY ClientRows
<1>7. Stands("WorkersRunning", "RunningAwaitComplete", "waits", "moves")
  BY ClientRows
<1>8. Stands("WorkersRunning", "Stopped", "moves", "waits")
  BY ClientRows
<1>9. Stands("Done", "Stopped", "ends", "moves")
  BY ClientRows
<1>10. Stands("Done", "Done", "ends", "ends")
  BY ClientRows
<1> HIDE DEF Row, Stands, Standing, Moving, Awaiting, Awaits, Finished, Kinds, OtherSide
<1> QED BY <1>0, <1>1, <1>2, <1>3, <1>4, <1>5, <1>6,
           <1>7, <1>8, <1>9, <1>10

(* These are all the states its two ends can be in at a time.              *)
ClientPairs ==
  {<<"CheckWorker", "WaitCoordInit">>,
   <<"CheckWorker", "Ready">>,
   <<"Ready", "Ready">>,
   <<"RunWorker", "Ready">>,
   <<"RunWorker", "Run">>,
   <<"RunWorker", "Running">>,
   <<"WorkersRunning", "Running">>,
   <<"WorkersRunning", "RunningAwaitComplete">>,
   <<"WorkersRunning", "Stopped">>,
   <<"Done", "Stopped">>,
   <<"Done", "Done">>}

LEMMA ClientTogether ==
  ASSUME ClientTables, NEW x \in States("coord"), NEW y \in States("worker"),
         Together("coord", x, y)
  PROVE  <<x, y>> \in ClientPairs
<1>1. Linked("coord", x, y) /\ Linked("worker", y, x)
  BY DEF Together, OtherSide
<1>2. /\ x \in {"CheckWorker", "Ready", "RunWorker", "WorkersRunning", "Done"}
      /\ y \in {"WaitCoordInit", "Ready", "Run", "Running", "RunningAwaitComplete", "Stopped",
             "Done"}
  BY ClientFacts
<1>3. /\ Rank["coord"][x] > 0 => Rank["worker"][y] >= 1
      /\ Rank["coord"][x] > 2 => Rank["worker"][y] >= 3
      /\ Rank["coord"][x] > 3 => Rank["worker"][y] >= 5
      /\ Rank["worker"][y] > 0 => Rank["coord"][x] >= 0
      /\ Rank["worker"][y] > 1 => Rank["coord"][x] >= 2
      /\ Rank["worker"][y] > 3 => Rank["coord"][x] >= 3
      /\ Rank["worker"][y] > 5 => Rank["coord"][x] >= 4
  <2>1. Rank["coord"][x] > 0 => Rank["worker"][y] >= 1
    <3>1. "CheckWorker" \in States("coord")
      BY ClientFacts
    <3> QED BY <1>1, <3>1, ClientRows DEF Linked, Row, Awaits, Kinds, OtherSide
  <2>2. Rank["coord"][x] > 2 => Rank["worker"][y] >= 3
    <3>1. "RunWorker" \in States("coord")
      BY ClientFacts
    <3> QED BY <1>1, <3>1, ClientRows DEF Linked, Row, Awaits, Kinds, OtherSide
  <2>3. Rank["coord"][x] > 3 => Rank["worker"][y] >= 5
    <3>1. "WorkersRunning" \in States("coord")
      BY ClientFacts
    <3> QED BY <1>1, <3>1, ClientRows DEF Linked, Row, Awaits, Kinds, OtherSide
  <2>4. Rank["worker"][y] > 0 => Rank["coord"][x] >= 0
    <3>1. "WaitCoordInit" \in States("worker")
      BY ClientFacts
    <3> QED BY <1>1, <3>1, ClientRows DEF Linked, Row, Awaits, Kinds, OtherSide
  <2>5. Rank["worker"][y] > 1 => Rank["coord"][x] >= 2
    <3>1. "Ready" \in States("worker")
      BY ClientFacts
    <3> QED BY <1>1, <3>1, ClientRows DEF Linked, Row, Awaits, Kinds, OtherSide
  <2>6. Rank["worker"][y] > 3 => Rank["coord"][x] >= 3
    <3>1. "Running" \in States("worker")
      BY ClientFacts
    <3> QED BY <1>1, <3>1, ClientRows DEF Linked, Row, Awaits, Kinds, OtherSide
  <2>7. Rank["worker"][y] > 5 => Rank["coord"][x] >= 4
    <3>1. "Stopped" \in States("worker")
      BY ClientFacts
    <3> QED BY <1>1, <3>1, ClientRows DEF Linked, Row, Awaits, Kinds, OtherSide
  <2> QED BY <2>1, <2>2, <2>3, <2>4, <2>5, <2>6, <2>7
<1>4. CASE x = "CheckWorker"
  BY <1>2, <1>3, <1>4, ClientRows DEF Row, ClientPairs
<1>5. CASE x = "Ready"
  BY <1>2, <1>3, <1>5, ClientRows DEF Row, ClientPairs
<1>6. CASE x = "RunWorker"
  BY <1>2, <1>3, <1>6, ClientRows DEF Row, ClientPairs
<1>7. CASE x = "WorkersRunning"
  BY <1>2, <1>3, <1>7, ClientRows DEF Row, ClientPairs
<1>8. CASE x = "Done"
  BY <1>2, <1>3, <1>8, ClientRows DEF Row, ClientPairs
<1> QED BY <1>2, <1>4, <1>5, <1>6, <1>7, <1>8

(* The numbers of unread messages, move by move.                           *)
ClientNumbered(b) ==
  /\ Room(0, b) = 0 /\ Echo(0, b) = 1 /\ Limit(0, b) = 1 + 5 * b
  /\ Room(1, b) = 1 /\ Echo(1, b) = 6 /\ Limit(1, b) = 6 + 5 * b
  /\ Room(2, b) = 2 /\ Echo(2, b) = 7 /\ Limit(2, b) = 7 + 5 * b
  /\ Room(3, b) = 7 /\ Echo(3, b) = 20 /\ Limit(3, b) = 20 + 5 * b
  /\ Room(4, b) = 8 /\ Echo(4, b) = 21 /\ Limit(4, b) = 21 + 5 * b
  /\ Room(5, b) = 21 /\ Echo(5, b) = 54 /\ Limit(5, b) = 54 + 5 * b
  /\ Room(6, b) = 54 /\ Echo(6, b) = 133 /\ Limit(6, b) = 133 + 5 * b
  /\ Room(7, b) = 55 + b /\ Echo(7, b) = 134 + 2 * b /\ Limit(7, b) = 136 + 5 * b
  /\ Room(8, b) = 136 + 2 * b /\ Echo(8, b) = 332 + 5 * b /\ Limit(8, b) = 332 + 5 * b
  /\ Room(9, b) = 332 + 5 * b /\ Echo(9, b) = 332 + 5 * b /\ Limit(9, b) = 334 + 5 * b
  /\ Room(10, b) = 332 + 5 * b /\ Echo(10, b) = 332 + 5 * b /\ Limit(10, b) = 335 + 5 * b

LEMMA ClientNumbers ==
  ASSUME ClientTables, NEW b \in Nat
  PROVE  ClientNumbered(b)
<1>1. Step # ServerStep
  <2>1. ServerStep["coord"]["RunWorker"] = "RunningAwaitKill"
    BY SMT DEF ServerStep, ServerCoordStep
  <2>2. Step["coord"]["RunWorker"] = "Running"
    BY ClientRows DEF Row
  <2> QED BY <2>1, <2>2
<1> QED BY <1>1 DEF ClientNumbered, Room, Echo, Limit, Unread, ClientRoom, ClientEcho

(* They make up for what is sent meanwhile.                                *)
LEMMA ClientBudgets ==
  ASSUME ClientTables, NEW b \in Nat
  PROVE  /\ Budgets("CheckWorker", "WaitCoordInit", "Ready", "Ready", 0, b)
         /\ Budgets("CheckWorker", "Ready", "Ready", "Run", 1, b)
         /\ Budgets("Ready", "Ready", "RunWorker", "Run", 2, b)
         /\ Budgets("RunWorker", "Ready", "WorkersRunning", "Run", 3, b)
         /\ Budgets("RunWorker", "Run", "WorkersRunning", "Running", 4, b)
         /\ Budgets("RunWorker", "Running", "WorkersRunning", "RunningAwaitComplete", 5, b)
         /\ Budgets("WorkersRunning", "Running", "Done", "RunningAwaitComplete", 6, b)
         /\ Budgets("WorkersRunning", "RunningAwaitComplete", "Done", "Stopped", 7, b)
         /\ Budgets("WorkersRunning", "Stopped", "Done", "Done", 8, b)
         /\ Budgets("Done", "Stopped", "Done", "Done", 9, b)
         /\ Budgets("Done", "Done", "Done", "Done", 10, b)
<1>a. ClientNumbered(b) /\ ClientNumbered(b + 1)
  BY ClientNumbers
<1> USE <1>a DEF Budgets, BudgetHere, Row, Stands, Standing, Awaits, Finished, Kinds, OtherSide,
            Extra, ClientNumbered
<1>0. Budgets("CheckWorker", "WaitCoordInit", "Ready", "Ready", 0, b)
  BY ClientRows, ClientStands
<1>1. Budgets("CheckWorker", "Ready", "Ready", "Run", 1, b)
  BY ClientRows, ClientStands
<1>2. Budgets("Ready", "Ready", "RunWorker", "Run", 2, b)
  BY ClientRows, ClientStands
<1>3. Budgets("RunWorker", "Ready", "WorkersRunning", "Run", 3, b)
  BY ClientRows, ClientStands
<1>4. Budgets("RunWorker", "Run", "WorkersRunning", "Running", 4, b)
  BY ClientRows, ClientStands
<1>5. Budgets("RunWorker", "Running", "WorkersRunning", "RunningAwaitComplete", 5, b)
  BY ClientRows, ClientStands
<1>6. Budgets("WorkersRunning", "Running", "Done", "RunningAwaitComplete", 6, b)
  BY ClientRows, ClientStands
<1>7. Budgets("WorkersRunning", "RunningAwaitComplete", "Done", "Stopped", 7, b)
  BY ClientRows, ClientStands
<1>8. Budgets("WorkersRunning", "Stopped", "Done", "Done", 8, b)
  BY ClientRows, ClientStands
<1>9. Budgets("Done", "Stopped", "Done", "Done", 9, b)
  BY ClientRows, ClientStands
<1>10. Budgets("Done", "Done", "Done", "Done", 10, b)
  BY ClientRows, ClientStands
<1> HIDE <1>a DEF Budgets, BudgetHere, Row, Stands, Standing, Awaits, Finished, Kinds, OtherSide,
             Extra, ClientNumbered
<1> QED BY <1>0, <1>1, <1>2, <1>3, <1>4, <1>5, <1>6,
           <1>7, <1>8, <1>9, <1>10

LEMMA ClientBudget ==
  ASSUME ClientTables
  PROVE  BudgetTable /\ BudgetStart
<1>0. ASSUME NEW b \in Nat, NEW x \in States("coord"), NEW y \in States("worker"),
             Together("coord", x, y)
      PROVE  Budgets(x, y, NextState["coord"][x], NextState["worker"][y],
                     Rank["coord"][x] + Rank["worker"][y], b)
  <2>0. CASE x = "CheckWorker" /\ y = "WaitCoordInit"
    BY <2>0, ClientRows, ClientBudgets DEF Row
  <2>1. CASE x = "CheckWorker" /\ y = "Ready"
    BY <2>1, ClientRows, ClientBudgets DEF Row
  <2>2. CASE x = "Ready" /\ y = "Ready"
    BY <2>2, ClientRows, ClientBudgets DEF Row
  <2>3. CASE x = "RunWorker" /\ y = "Ready"
    BY <2>3, ClientRows, ClientBudgets DEF Row
  <2>4. CASE x = "RunWorker" /\ y = "Run"
    BY <2>4, ClientRows, ClientBudgets DEF Row
  <2>5. CASE x = "RunWorker" /\ y = "Running"
    BY <2>5, ClientRows, ClientBudgets DEF Row
  <2>6. CASE x = "WorkersRunning" /\ y = "Running"
    BY <2>6, ClientRows, ClientBudgets DEF Row
  <2>7. CASE x = "WorkersRunning" /\ y = "RunningAwaitComplete"
    BY <2>7, ClientRows, ClientBudgets DEF Row
  <2>8. CASE x = "WorkersRunning" /\ y = "Stopped"
    BY <2>8, ClientRows, ClientBudgets DEF Row
  <2>9. CASE x = "Done" /\ y = "Stopped"
    BY <2>9, ClientRows, ClientBudgets DEF Row
  <2>10. CASE x = "Done" /\ y = "Done"
    BY <2>10, ClientRows, ClientBudgets DEF Row
  <2> QED BY <1>0, ClientTogether, <2>0, <2>1, <2>2, <2>3, <2>4, <2>5, <2>6,
             <2>7, <2>8, <2>9, <2>10 DEF ClientPairs
<1>1. \A y \in States("worker"), x \in States("coord") :
        /\ Together("worker", y, x) <=> Together("coord", x, y)
        /\ Rank["worker"][y] + Rank["coord"][x] = Rank["coord"][x] + Rank["worker"][y]
  BY PathAssumption DEF Together, OtherSide, Sides
<1>2. BudgetTable
  BY <1>0, <1>1 DEF Budgets, BudgetTable, OtherSide, Sides
<1>3. BudgetStart
  <2>1. Initial["coord"] = "CheckWorker" /\ Initial["worker"] = "WaitCoordInit"
    BY DEF ClientTables, ClientInitial
  <2>2. ClientNumbered(0)
    BY ClientNumbers
  <2> QED BY <2>1, <2>2, ClientRows, ClientStands DEF ClientNumbered, BudgetStart, Row, Stands,
             Standing, Finished, OtherSide, Sides
<1> QED BY <1>2, <1>3

--------------------------------------------------------------------------------
(* Each side of either protocol reaches its final state as its last target.*)
LEMMA ServerLastOnly ==
  ASSUME ServerTables
  PROVE  LastOnly
<1>1. /\ Targets["coord"] = <<"Ready", "WorkersRunning", "Done">>
      /\ Targets["worker"] = <<"Ready", "Done">>
  BY SMT DEF ServerTables, ServerTargets
<1>2. /\ ~Finished("coord", "Ready") /\ ~Finished("coord", "WorkersRunning")
      /\ ~Finished("worker", "Ready")
  BY ServerRows DEF Row, Finished
<1>3. \A i \in DOMAIN Targets["coord"] :
        \/ Targets["coord"][i] \in {"Ready", "WorkersRunning"}
        \/ i = Len(Targets["coord"])
  <2>1. DOMAIN Targets["coord"] = 1..3 /\ Len(Targets["coord"]) = 3
    BY <1>1
  <2> QED BY <1>1, <2>1
<1>4. \A i \in DOMAIN Targets["worker"] :
        Targets["worker"][i] = "Ready" \/ i = Len(Targets["worker"])
  <2>1. DOMAIN Targets["worker"] = 1..2 /\ Len(Targets["worker"]) = 2
    BY <1>1
  <2> QED BY <1>1, <2>1
<1> QED BY <1>2, <1>3, <1>4, Zenon DEF LastOnly, Sides

LEMMA ClientLastOnly ==
  ASSUME ClientTables
  PROVE  LastOnly
<1>1. Targets["coord"] = <<"Ready", "Done">> /\ Targets["worker"] = <<"Ready", "Done">>
  BY SMT DEF ClientTables, ClientTargets
<1>2. ~Finished("coord", "Ready") /\ ~Finished("worker", "Ready")
  BY ClientRows DEF Row, Finished
<1>3. ASSUME NEW s \in Sides, NEW i \in DOMAIN Targets[s]
      PROVE  Targets[s][i] = "Ready" \/ i = Len(Targets[s])
  <2>1. Targets[s] = <<"Ready", "Done">>
    BY <1>1 DEF Sides
  <2>2. Len(Targets[s]) = 2 /\ i \in 1..2
    BY <2>1
  <2> QED BY <2>1, <2>2
<1> QED BY <1>2, <1>3, Zenon DEF LastOnly, Sides

--------------------------------------------------------------------------------
(* The inductive invariant, and that a step keeps it.                      *)
BInv == FInv /\ LInv

LEMMA NextUnread ==
  ASSUME SpawnFirst, FinishLast, LastOnly, BudgetTable, BInv, [Next]_vars
  PROVE  BInv'
<1>1. FInv'
  BY NextFailures DEF BInv
<1> QED BY <1>1, NextBacklog DEF BInv

(* What is unread on a connection is bounded, for every pair of state      *)
(* machines whose numbers satisfy BudgetTable.                             *)
THEOREM BacklogInvariant ==
  ASSUME SpawnFirst, FinishLast, LastOnly, BudgetTable, BudgetStart
  PROVE  Spec => [](BInv /\ Backlog)
<1>1. Init => BInv
  BY InitFailures, InitBacklog DEF BInv
<1>2. BInv /\ [Next]_vars => BInv'
  BY NextUnread
<1>3. BInv => Backlog
  BY BacklogHere DEF BInv, LInv, FInv, NInv, IInv
<1> QED BY <1>1, <1>2, <1>3, PTL DEF Spec

(* Backlog of the server protocol, for any number of servers.              *)
THEOREM ServerBacklog ==
  ASSUME ServerTables
  PROVE  Spec => []Backlog
<1>1. Spec => [](BInv /\ Backlog)
  BY ServerFacts, ServerFinish, ServerLastOnly, ServerBudget, BacklogInvariant
<1> QED BY <1>1, PTL

(* Backlog of the client protocol, for any number of clients.              *)
THEOREM ClientBacklog ==
  ASSUME ClientTables
  PROVE  Spec => []Backlog
<1>1. Spec => [](BInv /\ Backlog)
  BY ClientFacts, ClientFinish, ClientLastOnly, ClientBudget, BacklogInvariant
<1> QED BY <1>1, PTL

=================================================================================
