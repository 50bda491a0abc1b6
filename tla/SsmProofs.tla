------------------------------- MODULE SsmProofs -------------------------------
(***************************************************************************)
(* Safety of module Ssm for any number of hosts and driver pairs and any   *)
(* faults: markers and waits order the steps of every host, and results are*)
(* copied only from a run everybody took part in and that has ended.       *)
(***************************************************************************)
EXTENDS Ssm, SequenceTheorems, TLAPS

(* Instruction i of list d has been executed.                              *)
Past(d, i) == driver > d \/ (driver = d /\ ip > i)

(* An instruction (d, i) of kind op, and its first command.                *)
Is(d, i, op)  == d \in 0..D /\ i \in DOMAIN Program[d] /\ Program[d][i].op = op
CommandAt(d, i) == Program[d][i].cmds[1]

HasBeenSent(c) == \E d, i \in Nat : Is(d, i, "send") /\ CommandAt(d, i) = c /\ Past(d, i)
DoneSomewhere(c) == \E h \in HostsFor(c) : Done(h, c)

(* Only commands that were sent are known to SSM, on the hosts they are for. *)
SentInv ==
  \A h \in Hosts, c \in Commands :
    invocation[h][c] # "none" => h \in HostsFor(c) /\ HasBeenSent(c)

(* A marker fin_<step>___ was left by a script of the step that succeeded, *)
(* and a script that has started has found those it waits for.             *)
MarkerInv ==
  /\ \A h \in Hosts, s \in Steps :
       <<"fin", s>> \in files[h] => \E b \in Commands : b[1] = s /\ Done(h, b)
  /\ \A h \in Hosts, c \in Commands :
       Started(h, c) => \A s \in WaitSteps(c[1]) : <<"fin", s>> \in files[h]

(* What the orchestrator has seen of a run: every worker listened, so that *)
(* russula was built on its host, and the coordinator got to Done.         *)
CoordInv ==
  \A d, i \in Nat :
    /\ Is(d, i, "connect") /\ Past(d, i) =>
         \A h \in HostsFor(CommandAt(d, i)) :
           h \notin broken /\ Done(h, <<"build_russula", CommandAt(d, i)[2], 0>>)
    /\ Is(d, i, "done") /\ Past(d, i) => CommandAt(d, i) \in coordDone

(* What wait_complete has seen: each command complete on some host, of those *)
(* polled in this pass, and of all those of an earlier wait.               *)
WaitInv ==
  /\ Active /\ complete /\ polled > 0 =>
       \A j \in 1..polled : DoneSomewhere(Instruction.cmds[j])
  /\ \A d, i \in Nat :
       Is(d, i, "wait") /\ Past(d, i) =>
         \A j \in DOMAIN Program[d][i].cmds : DoneSomewhere(Program[d][i].cmds[j])

IInv == TypeOK /\ polled \in Nat /\ SentInv /\ MarkerInv /\ CoordInv /\ WaitInv

--------------------------------------------------------------------------------
(* The program the orchestrator runs.                                      *)

(* The i-th command sent to the hosts of group g while they are configured.*)
ConfigCmd(g, i) ==
  IF i = 1 THEN <<"configure", g, 0>>
  ELSE IF i = 2 THEN <<"upload_scenario_file", g, 0>>
  ELSE IF i = D + 3 THEN <<"build_russula", g, 0>>
  ELSE <<"build_driver", g, i - 2>>

(* There is a driver, and every command is one of its group and driver.    *)
LEMMA CommandFacts ==
  /\ D \in Nat /\ D >= 1 /\ 0 \notin Drivers
  /\ \A s \in Common, g \in Groups : <<s, g, 0>> \in Commands
  /\ \A s \in PerDriver, g \in Groups, d \in Drivers : <<s, g, d>> \in Commands
  /\ \A c \in Commands : /\ c = <<c[1], c[2], c[3]>> /\ c[1] \in Steps /\ c[2] \in Groups
                         /\ c[1] \in Common => c[3] = 0
                         /\ c[1] \in PerDriver => c[3] \in Drivers
  /\ Common \cap PerDriver = {}
<1>1. D \in Nat /\ D >= 1 /\ 0 \notin Drivers
  BY SsmAssumption DEF SsmAssumption, Drivers
<1>2. /\ \A s \in Common, g \in Groups : <<s, g, 0>> \in Commands
      /\ \A s \in PerDriver, g \in Groups, d \in Drivers : <<s, g, d>> \in Commands
  BY DEF Commands
<1>3. Common \cap PerDriver = {}
  BY DEF Common, PerDriver
<1>4. ASSUME NEW c \in Commands
      PROVE  /\ c = <<c[1], c[2], c[3]>> /\ c[1] \in Steps /\ c[2] \in Groups
             /\ c[1] \in Common => c[3] = 0
             /\ c[1] \in PerDriver => c[3] \in Drivers
  <2>1. CASE c \in Common \X Groups \X {0}
    BY <1>3, <2>1 DEF Steps
  <2>2. CASE c \in PerDriver \X Groups \X Drivers
    BY <1>3, <2>2 DEF Steps
  <2> QED BY <2>1, <2>2 DEF Commands
<1> QED BY <1>1, <1>2, <1>3, <1>4

(* A function on 1..n is a sequence.                                       *)
LEMMA FunctionIsSeq ==
  ASSUME NEW n \in Nat, NEW S, NEW f \in [1..n -> S]
  PROVE  f \in Seq(S) /\ Len(f) = n
  OBVIOUS

(* One build command for each driver, in order.                            *)
LEMMA EachFacts ==
  ASSUME NEW g \in Groups
  PROVE  /\ Each("build_driver", g) \in Seq(Commands) /\ Len(Each("build_driver", g)) = D
         /\ \A d \in 1..D : Each("build_driver", g)[d] = <<"build_driver", g, d>>
<1>1. Each("build_driver", g) \in [1..D -> Commands]
  BY CommandFacts DEF Each, Drivers, PerDriver
<1>2. Each("build_driver", g) \in Seq(Commands) /\ Len(Each("build_driver", g)) = D
  BY <1>1, CommandFacts
<1> QED BY <1>2 DEF Each, Drivers

(* What is sent to a group first, command by command.                      *)
LEMMA CollectFacts ==
  ASSUME NEW g \in Groups
  PROVE  /\ CollectConfigCmds(g) \in Seq([op : {"send"}, cmds : Seq(Commands)])
         /\ Len(CollectConfigCmds(g)) = D + 3
         /\ \A i \in 1..(D + 3) :
              CollectConfigCmds(g)[i] = Instr("send", <<ConfigCmd(g, i)>>)
<1> DEFINE front == <<<<"configure", g, 0>>, <<"upload_scenario_file", g, 0>>>>
           each  == Each("build_driver", g)
           back  == <<<<"build_russula", g, 0>>>>
           cmds  == (front \o each) \o back
<1>0. D \in Nat /\ D >= 1
  BY CommandFacts
<1>1. /\ <<"configure", g, 0>> \in Commands /\ <<"upload_scenario_file", g, 0>> \in Commands
      /\ <<"build_russula", g, 0>> \in Commands
  BY CommandFacts DEF Common
<1>2. /\ front \in Seq(Commands) /\ Len(front) = 2
      /\ front[1] = <<"configure", g, 0>> /\ front[2] = <<"upload_scenario_file", g, 0>>
  BY <1>1
<1>3. back \in Seq(Commands) /\ Len(back) = 1 /\ back[1] = <<"build_russula", g, 0>>
  BY <1>1
<1>4. /\ each \in Seq(Commands) /\ Len(each) = D
      /\ \A d \in 1..D : each[d] = <<"build_driver", g, d>>
  BY EachFacts
<1> HIDE DEF front, each, back
<1>5. /\ front \o each \in Seq(Commands) /\ Len(front \o each) = D + 2
      /\ \A i \in 1..(D + 2) : (front \o each)[i] = IF i <= 2 THEN front[i] ELSE each[i - 2]
  <2>1. /\ front \o each \in Seq(Commands) /\ Len(front \o each) = Len(front) + Len(each)
        /\ \A i \in 1..(Len(front) + Len(each)) :
             (front \o each)[i] = IF i <= Len(front) THEN front[i] ELSE each[i - Len(front)]
    BY <1>2, <1>4, ConcatProperties
  <2>2. Len(front) + Len(each) = D + 2
    BY <1>0, <1>2, <1>4
  <2> QED BY <1>2, <2>1, <2>2
<1>6. /\ cmds \in Seq(Commands) /\ Len(cmds) = D + 3
      /\ \A i \in 1..(D + 3) :
           cmds[i] = IF i <= D + 2 THEN (front \o each)[i] ELSE back[i - (D + 2)]
  <2> DEFINE most == front \o each
  <2>1. most \in Seq(Commands) /\ Len(most) = D + 2
    BY <1>5
  <2> HIDE DEF most
  <2>2. /\ most \o back \in Seq(Commands) /\ Len(most \o back) = Len(most) + Len(back)
        /\ \A i \in 1..(Len(most) + Len(back)) :
             (most \o back)[i] = IF i <= Len(most) THEN most[i] ELSE back[i - Len(most)]
    BY <1>3, <2>1, ConcatProperties
  <2>3. Len(most) + Len(back) = D + 3
    BY <1>0, <1>3, <2>1
  <2> QED BY <2>1, <2>2, <2>3 DEF most
<1>7. ASSUME NEW i \in 1..(D + 3) PROVE cmds[i] = ConfigCmd(g, i) /\ cmds[i] \in Commands
  <2>4. cmds[i] \in Commands
    BY <1>6, ElementOfSeq
  <2> HIDE DEF cmds
  <2>1. CASE i <= 2
    <3>1. i \in {1, 2} /\ i <= D + 2 /\ i # D + 3
      BY <1>0, <2>1
    <3>2. cmds[i] = front[i]
      <4>1. i \in 1..(D + 3) /\ i \in 1..(D + 2)
        BY <1>0, <3>1
      <4>2. cmds[i] = (front \o each)[i]
        BY <1>6, <3>1, <4>1
      <4>3. (front \o each)[i] = front[i]
        BY <1>5, <2>1, <4>1
      <4> QED BY <4>2, <4>3, Zenon
    <3>3. CASE i = 1
      BY <1>2, <2>4, <3>2, <3>3 DEF ConfigCmd
    <3>4. CASE i = 2
      BY <1>2, <2>4, <3>2, <3>4 DEF ConfigCmd
    <3> QED BY <2>4, <3>1, <3>3, <3>4
  <2>2. CASE i = D + 3
    <3>1. cmds[i] = back[1]
      BY <1>0, <1>6, <2>2
    <3>2. i # 1 /\ i # 2
      BY <1>0, <2>2
    <3>3. ConfigCmd(g, i) = <<"build_russula", g, 0>>
      BY <2>2, <3>2 DEF ConfigCmd
    <3> QED BY <1>3, <2>4, <3>1, <3>3
  <2>3. CASE i > 2 /\ i # D + 3
    <3>1. i \in 1..(D + 2) /\ i - 2 \in 1..D /\ i # 1 /\ i # 2
      BY <1>0, <2>3
    <3>2. i \in 1..(D + 3) /\ i <= D + 2 /\ ~(i <= 2)
      BY <1>0, <2>3, <3>1
    <3>3. cmds[i] = (front \o each)[i]
      BY <1>6, <3>2
    <3>4. (front \o each)[i] = each[i - 2]
      BY <1>5, <3>1, <3>2
    <3>5. cmds[i] = each[i - 2]
      BY <3>3, <3>4, Zenon
    <3> QED BY <1>4, <2>3, <2>4, <3>1, <3>5 DEF ConfigCmd
  <2> QED BY <1>0, <2>1, <2>2, <2>3, <2>4
<1>8. DOMAIN cmds = 1..(D + 3)
  BY <1>6, LenProperties
<1>9. CollectConfigCmds(g) = [i \in DOMAIN cmds |-> Instr("send", <<cmds[i]>>)]
  BY DEF CollectConfigCmds, front, each, back
<1>10. \A i \in 1..(D + 3) :
         Instr("send", <<cmds[i]>>) \in [op : {"send"}, cmds : Seq(Commands)]
  <2> SUFFICES ASSUME NEW i \in 1..(D + 3)
               PROVE  Instr("send", <<cmds[i]>>) \in [op : {"send"}, cmds : Seq(Commands)]
    OBVIOUS
  <2>1. cmds[i] \in Commands
    BY <1>7
  <2> HIDE DEF cmds
  <2>2. <<cmds[i]>> \in Seq(Commands)
    BY <2>1
  <2> QED BY <2>2 DEF Instr
<1> HIDE DEF cmds
<1>11. CollectConfigCmds(g) \in [1..(D + 3) -> [op : {"send"}, cmds : Seq(Commands)]]
  BY <1>8, <1>9, <1>10
<1>12. /\ CollectConfigCmds(g) \in Seq([op : {"send"}, cmds : Seq(Commands)])
       /\ Len(CollectConfigCmds(g)) = D + 3
  <2>1. D + 3 \in Nat
    BY <1>0
  <2> QED BY <1>11, <2>1, FunctionIsSeq
<1>13. \A i \in 1..(D + 3) : CollectConfigCmds(g)[i] = Instr("send", <<ConfigCmd(g, i)>>)
  BY <1>7, <1>8, <1>9
<1> QED BY <1>12, <1>13

(* Two sequences in a row, read position by position.                      *)
LEMMA Concat ==
  ASSUME NEW S, NEW s \in Seq(S), NEW t \in Seq(S)
  PROVE  /\ s \o t \in Seq(S) /\ Len(s \o t) = Len(s) + Len(t)
         /\ DOMAIN (s \o t) = 1..(Len(s) + Len(t))
         /\ \A i \in 1..Len(s) : (s \o t)[i] = s[i]
         /\ \A i \in 1..Len(t) : (s \o t)[Len(s) + i] = t[i]
<1> DEFINE m == Len(s)
           n == Len(t)
<1>0. m \in Nat /\ n \in Nat
  BY LenProperties
<1>1. /\ s \o t \in Seq(S) /\ Len(s \o t) = m + n
      /\ \A i \in 1..(m + n) : (s \o t)[i] = IF i <= m THEN s[i] ELSE t[i - m]
  BY ConcatProperties
<1>2. DOMAIN (s \o t) = 1..(m + n)
  BY <1>1, LenProperties
<1> HIDE DEF m, n
<1>3. \A i \in 1..m : (s \o t)[i] = s[i]
  BY <1>0, <1>1
<1>4. \A i \in 1..n : m + i \in 1..(m + n) /\ ~(m + i <= m) /\ (m + i) - m = i
  BY <1>0
<1>5. \A i \in 1..n : (s \o t)[m + i] = t[i]
  BY <1>1, <1>4
<1> QED BY <1>1, <1>2, <1>3, <1>5 DEF m, n

(* What is waited for before the first driver pair: every driver is built. *)
LEMMA AwaitedFacts ==
  LET cmds == ConfigCmds("server") \o ConfigCmds("client")
  IN  /\ cmds \in Seq(Commands)
      /\ \A g \in Groups, d \in Drivers :
           \E j \in DOMAIN cmds : cmds[j] = <<"build_driver", g, d>>
<1> DEFINE front(g) == <<<<"configure", g, 0>>, <<"upload_scenario_file", g, 0>>,
                         <<"build_russula", g, 0>>>>
           each(g)  == Each("build_driver", g)
<1>1. D \in Nat /\ 3 \in Nat /\ 3 + D \in Nat
  BY CommandFacts
<1>2. ASSUME NEW g \in Groups
      PROVE  /\ ConfigCmds(g) \in Seq(Commands) /\ Len(ConfigCmds(g)) = 3 + D
             /\ \A d \in 1..D : ConfigCmds(g)[3 + d] = <<"build_driver", g, d>>
  <2>1. front(g) \in Seq(Commands) /\ Len(front(g)) = 3
    BY CommandFacts DEF Common
  <2>2. /\ each(g) \in Seq(Commands) /\ Len(each(g)) = D
        /\ \A d \in 1..D : each(g)[d] = <<"build_driver", g, d>>
    BY EachFacts
  <2>3. ConfigCmds(g) = front(g) \o each(g)
    BY DEF ConfigCmds
  <2> DEFINE f == front(g)
             e == each(g)
  <2> HIDE DEF front, each
  <2>4. f \in Seq(Commands) /\ e \in Seq(Commands)
    BY <2>1, <2>2
  <2>8. Len(f) = 3 /\ Len(e) = D
    BY <2>1, <2>2
  <2>5. ConfigCmds(g) = f \o e
    BY <2>3
  <2> HIDE DEF f, e
  <2>6. /\ f \o e \in Seq(Commands) /\ Len(f \o e) = Len(f) + Len(e)
        /\ \A d \in 1..Len(e) : (f \o e)[Len(f) + d] = e[d]
    BY <2>4, Concat
  <2>7. \A d \in 1..D : e[d] = <<"build_driver", g, d>>
    BY <2>2 DEF e
  <2> QED BY <2>5, <2>6, <2>7, <2>8
<1> DEFINE s == ConfigCmds("server")
           c == ConfigCmds("client")
<1>3. /\ s \in Seq(Commands) /\ Len(s) = 3 + D
      /\ c \in Seq(Commands) /\ Len(c) = 3 + D
      /\ \A d \in 1..D : /\ s[3 + d] = <<"build_driver", "server", d>>
                         /\ c[3 + d] = <<"build_driver", "client", d>>
  BY <1>2 DEF Groups
<1> HIDE DEF s, c
<1>4. /\ s \o c \in Seq(Commands) /\ DOMAIN (s \o c) = 1..((3 + D) + (3 + D))
      /\ \A i \in 1..(3 + D) : (s \o c)[i] = s[i]
      /\ \A i \in 1..(3 + D) : (s \o c)[(3 + D) + i] = c[i]
  <2>1. /\ s \o c \in Seq(Commands) /\ DOMAIN (s \o c) = 1..(Len(s) + Len(c))
        /\ \A i \in 1..Len(s) : (s \o c)[i] = s[i]
        /\ \A i \in 1..Len(c) : (s \o c)[Len(s) + i] = c[i]
    <3>1. s \in Seq(Commands) /\ c \in Seq(Commands)
      BY <1>3
    <3> QED BY <3>1, Concat
  <2> QED BY <1>3, <2>1
<1>5. ASSUME NEW d \in Drivers
      PROVE  /\ \E j \in DOMAIN (s \o c) : (s \o c)[j] = <<"build_driver", "server", d>>
             /\ \E j \in DOMAIN (s \o c) : (s \o c)[j] = <<"build_driver", "client", d>>
  <2>1. /\ d \in 1..D /\ 3 + d \in 1..(3 + D)
        /\ 3 + d \in 1..((3 + D) + (3 + D))
        /\ (3 + D) + (3 + d) \in 1..((3 + D) + (3 + D))
    BY <1>1 DEF Drivers
  <2>2. (s \o c)[3 + d] = <<"build_driver", "server", d>>
    BY <1>3, <1>4, <2>1
  <2>3. (s \o c)[(3 + D) + (3 + d)] = <<"build_driver", "client", d>>
    BY <1>3, <1>4, <2>1
  <2> QED BY <1>4, <2>1, <2>2, <2>3
<1> QED BY <1>4, <1>5 DEF s, c, Groups

(* The i-th instruction of the configuration, before its wait.             *)
ConfigSend(i) ==
  IF i <= D + 3 THEN ConfigCmd("server", i) ELSE ConfigCmd("client", i - (D + 3))

(* The configuration sends 2D + 6 commands and waits for them.             *)
LEMMA ConfigureFacts ==
  LET last == (D + 3) + (D + 3) + 1
  IN  /\ Len(Configure) = last /\ DOMAIN Configure = 1..last
      /\ \A i \in 1..(last - 1) : Configure[i] = Instr("send", <<ConfigSend(i)>>)
      /\ Configure[last] = Instr("wait", ConfigCmds("server") \o ConfigCmds("client"))
<1> DEFINE n == D + 3
           S == [op : {"send", "wait"}, cmds : Seq(Commands)]
           s == CollectConfigCmds("server")
           c == CollectConfigCmds("client")
           wait == Instr("wait", ConfigCmds("server") \o ConfigCmds("client"))
           end == <<wait>>
<1>1. D \in Nat /\ n \in Nat /\ 1 \in Nat /\ n + n \in Nat /\ n + n + 1 \in Nat
  BY CommandFacts
<1>2. [op : {"send"}, cmds : Seq(Commands)] \subseteq S
  OBVIOUS
<1>3. /\ s \in Seq(S) /\ Len(s) = n
      /\ \A i \in 1..n : s[i] = Instr("send", <<ConfigCmd("server", i)>>)
  <2> DEFINE T == [op : {"send"}, cmds : Seq(Commands)]
  <2>1. /\ s \in Seq(T) /\ Len(s) = n
        /\ \A i \in 1..n : s[i] = Instr("send", <<ConfigCmd("server", i)>>)
    BY CollectFacts DEF Groups
  <2>2. s \in Seq(S)
    <3> HIDE DEF s, S, T
    <3> QED BY <1>2, <2>1, SeqMonotonic DEF T
  <2> QED BY <2>1, <2>2
<1>4. /\ c \in Seq(S) /\ Len(c) = n
      /\ \A i \in 1..n : c[i] = Instr("send", <<ConfigCmd("client", i)>>)
  <2> DEFINE T == [op : {"send"}, cmds : Seq(Commands)]
  <2>1. /\ c \in Seq(T) /\ Len(c) = n
        /\ \A i \in 1..n : c[i] = Instr("send", <<ConfigCmd("client", i)>>)
    BY CollectFacts DEF Groups
  <2>2. c \in Seq(S)
    <3> HIDE DEF c, S, T
    <3> QED BY <1>2, <2>1, SeqMonotonic DEF T
  <2> QED BY <2>1, <2>2
<1>5. wait \in S
  BY AwaitedFacts DEF Instr
<1> HIDE DEF wait, S
<1>6. end \in Seq(S) /\ Len(end) = 1 /\ end[1] = wait
  BY <1>5
<1>7. Configure = (s \o c) \o end
  BY DEF Configure, wait
<1> HIDE DEF s, c, n, end
<1>8. /\ s \o c \in Seq(S) /\ Len(s \o c) = n + n
      /\ \A i \in 1..n : (s \o c)[i] = s[i] /\ (s \o c)[n + i] = c[i]
  <2>1. s \in Seq(S) /\ c \in Seq(S)
    BY <1>3, <1>4
  <2>2. /\ s \o c \in Seq(S) /\ Len(s \o c) = Len(s) + Len(c)
        /\ \A i \in 1..Len(s) : (s \o c)[i] = s[i]
        /\ \A i \in 1..Len(c) : (s \o c)[Len(s) + i] = c[i]
    BY <2>1, Concat
  <2>3. Len(s) = n /\ Len(c) = n
    BY <1>3, <1>4
  <2> QED BY <2>2, <2>3
<1>9. /\ Len(Configure) = n + n + 1 /\ DOMAIN Configure = 1..(n + n + 1)
      /\ \A i \in 1..(n + n) : Configure[i] = (s \o c)[i]
      /\ \A i \in 1..1 : Configure[n + n + i] = end[i]
  <2> DEFINE sc == s \o c
  <2>1. sc \in Seq(S) /\ Len(sc) = n + n
    BY <1>8
  <2>2. Configure = sc \o end
    BY <1>7
  <2> HIDE DEF sc
  <2>3. /\ Len(Configure) = (n + n) + 1 /\ DOMAIN Configure = 1..((n + n) + 1)
        /\ \A i \in 1..(n + n) : Configure[i] = sc[i]
        /\ \A i \in 1..1 : Configure[(n + n) + i] = end[i]
    <3>1. /\ Len(sc \o end) = Len(sc) + Len(end) /\ DOMAIN (sc \o end) = 1..(Len(sc) + Len(end))
          /\ \A i \in 1..Len(sc) : (sc \o end)[i] = sc[i]
          /\ \A i \in 1..Len(end) : (sc \o end)[Len(sc) + i] = end[i]
      <4>1. sc \in Seq(S) /\ end \in Seq(S)
        BY <1>6, <2>1
      <4> QED BY <4>1, Concat
    <3> QED BY <1>6, <2>1, <2>2, <3>1
  <2> QED BY <2>3 DEF sc
<1>10. ASSUME NEW i \in 1..(n + n)
       PROVE  Configure[i] = Instr("send", <<ConfigSend(i)>>)
  <2>1. CASE i <= n
    <3>1. i \in 1..n
      BY <1>1, <2>1
    <3>2. ConfigSend(i) = ConfigCmd("server", i)
      BY <2>1 DEF ConfigSend, n
    <3> QED BY <1>3, <1>8, <1>9, <3>1, <3>2
  <2>2. CASE i > n
    <3>1. i - n \in 1..n /\ n + (i - n) = i /\ ~(i <= n)
      BY <1>1, <2>2
    <3>2. ConfigSend(i) = ConfigCmd("client", i - n)
      BY <3>1 DEF ConfigSend, n
    <3>3. Configure[i] = (s \o c)[n + (i - n)]
      BY <1>9, <3>1
    <3> QED BY <1>4, <1>8, <3>1, <3>2, <3>3
  <2> QED BY <1>1, <2>1, <2>2
<1>11. Configure[n + n + 1] = wait /\ (n + n + 1) - 1 = n + n
  BY <1>1, <1>6, <1>9
<1> QED BY <1>9, <1>10, <1>11 DEF n, wait

(* The ten instructions of a driver pair.                                  *)
Run(g, d)    == <<"run_russula", g, d>>
Upload(g, d) == <<"upload_netbench_raw_data", g, d>>

PairOp == <<"send", "connect", "send", "connect", "running", "done", "done",
            "send", "send", "wait">>

PairCmd(d) ==
  <<Run("server", d), Run("server", d), Run("client", d), Run("client", d),
    Run("server", d), Run("client", d), Run("server", d),
    Upload("server", d), Upload("client", d)>>

LEMMA PairFacts ==
  ASSUME NEW d \in Drivers
  PROVE  /\ d \in 0..D
         /\ Len(Program[d]) = 10 /\ DOMAIN Program[d] = 1..10
         /\ \A i \in 1..10 : Program[d][i].op = PairOp[i]
         /\ \A i \in 1..9 : /\ Program[d][i].cmds = <<PairCmd(d)[i]>>
                            /\ CommandAt(d, i) = PairCmd(d)[i]
         /\ Program[d][10].cmds = <<Upload("server", d), Upload("client", d)>>
<1>1. d \in 0..D /\ d # 0
  BY CommandFacts DEF Drivers
<1>2. Program[d] = RunDriverPair(d)
  BY <1>1 DEF Program
<1>3. Len(Program[d]) = 10 /\ DOMAIN Program[d] = 1..10
  BY <1>2 DEF RunDriverPair
<1>4. \A i \in 1..10 : Program[d][i].op = PairOp[i]
  BY <1>2 DEF RunDriverPair, PairOp, Instr
<1>5. \A i \in 1..9 : Program[d][i].cmds = <<PairCmd(d)[i]>>
  <2>1. /\ PairCmd(d)[1] = Run("server", d) /\ PairCmd(d)[2] = Run("server", d)
        /\ PairCmd(d)[3] = Run("client", d) /\ PairCmd(d)[4] = Run("client", d)
        /\ PairCmd(d)[5] = Run("server", d) /\ PairCmd(d)[6] = Run("client", d)
        /\ PairCmd(d)[7] = Run("server", d) /\ PairCmd(d)[8] = Upload("server", d)
        /\ PairCmd(d)[9] = Upload("client", d)
    BY DEF PairCmd
  <2>2. /\ Program[d][1].cmds = <<Run("server", d)>> /\ Program[d][2].cmds = <<Run("server", d)>>
        /\ Program[d][3].cmds = <<Run("client", d)>> /\ Program[d][4].cmds = <<Run("client", d)>>
        /\ Program[d][5].cmds = <<Run("server", d)>> /\ Program[d][6].cmds = <<Run("client", d)>>
        /\ Program[d][7].cmds = <<Run("server", d)>>
        /\ Program[d][8].cmds = <<Upload("server", d)>>
        /\ Program[d][9].cmds = <<Upload("client", d)>>
    BY <1>2 DEF RunDriverPair, Instr, Run, Upload
  <2>3. \A i \in 1..9 : i \in {1, 2, 3, 4, 5, 6, 7, 8, 9}
    OBVIOUS
  <2> QED BY <2>1, <2>2, <2>3
<1>6. Program[d][10].cmds = <<Upload("server", d), Upload("client", d)>>
  BY <1>2 DEF RunDriverPair, Instr, Upload
<1>7. \A i \in 1..9 : CommandAt(d, i) = PairCmd(d)[i]
  <2>1. \A x : <<x>>[1] = x
    OBVIOUS
  <2> QED BY <1>5, <2>1, Zenon DEF CommandAt
<1> QED BY <1>1, <1>3, <1>4, <1>5, <1>6, <1>7, Zenon

(* The instructions of the configuration.                                  *)
LEMMA ListZeroFacts ==
  LET last == (D + 3) + (D + 3) + 1
  IN  /\ 0 \in 0..D /\ last \in Nat \ {0}
      /\ Len(Program[0]) = last /\ DOMAIN Program[0] = 1..last
      /\ \A i \in 1..(last - 1) : /\ Program[0][i].op = "send"
                                  /\ CommandAt(0, i) = ConfigSend(i)
      /\ Program[0][last].op = "wait"
      /\ Program[0][last].cmds = ConfigCmds("server") \o ConfigCmds("client")
<1>1. D \in Nat /\ 0 \in 0..D
  BY CommandFacts
<1>2. Program[0] = Configure
  BY <1>1 DEF Program
<1> DEFINE last == (D + 3) + (D + 3) + 1
<1>3. last \in Nat \ {0}
  BY <1>1
<1>4. /\ Len(Configure) = last /\ DOMAIN Configure = 1..last
      /\ \A i \in 1..(last - 1) : Configure[i] = Instr("send", <<ConfigSend(i)>>)
      /\ Configure[last] = Instr("wait", ConfigCmds("server") \o ConfigCmds("client"))
  BY ConfigureFacts
<1> HIDE DEF last
<1>5. /\ Program[0][last].op = "wait"
      /\ Program[0][last].cmds = ConfigCmds("server") \o ConfigCmds("client")
  BY <1>2, <1>4 DEF Instr
<1>6. ASSUME NEW i \in 1..(last - 1)
      PROVE  Program[0][i].op = "send" /\ CommandAt(0, i) = ConfigSend(i)
  <2>1. Program[0][i] = [op |-> "send", cmds |-> <<ConfigSend(i)>>]
    BY <1>2, <1>4 DEF Instr
  <2> QED BY <2>1 DEF CommandAt
<1> QED BY <1>1, <1>2, <1>3, <1>4, <1>5, <1>6 DEF last

(* A command of the configuration is sent by one instruction only.         *)
LEMMA ConfigSendFacts ==
  /\ \A i \in 1..((D + 3) + (D + 3)) :
       ConfigSend(i) \in Commands /\ ConfigSend(i)[1] \in Common \cup {"build_driver"}
  /\ \A i, j \in 1..((D + 3) + (D + 3)) : ConfigSend(i) = ConfigSend(j) => i = j
<1> DEFINE n == D + 3
<1>0. D \in Nat /\ D >= 1 /\ n \in Nat /\ n = D + 3
  BY CommandFacts
<1>1. ASSUME NEW g \in Groups, NEW i \in 1..n
      PROVE  /\ ConfigCmd(g, i) \in Commands /\ ConfigCmd(g, i)[2] = g
             /\ ConfigCmd(g, i)[1] \in Common \cup {"build_driver"}
             /\ i = CASE ConfigCmd(g, i)[1] = "configure" -> 1
                      [] ConfigCmd(g, i)[1] = "upload_scenario_file" -> 2
                      [] ConfigCmd(g, i)[1] = "build_russula" -> n
                      [] OTHER -> ConfigCmd(g, i)[3] + 2
  <2>1. CASE i = 1
    BY <2>1, CommandFacts DEF ConfigCmd, Common
  <2>2. CASE i = 2
    BY <2>2, CommandFacts DEF ConfigCmd, Common
  <2>3. CASE i = n
    <3>1. i # 1 /\ i # 2 /\ i = D + 3
      BY <1>0, <2>3
    <3>2. ConfigCmd(g, i) = <<"build_russula", g, 0>>
      BY <3>1 DEF ConfigCmd
    <3> QED BY <2>3, <3>2, CommandFacts DEF Common
  <2>4. CASE i # 1 /\ i # 2 /\ i # n
    <3>1. i - 2 \in Drivers /\ i # D + 3 /\ (i - 2) + 2 = i
      BY <1>0, <2>4 DEF Drivers
    <3>2. ConfigCmd(g, i) = <<"build_driver", g, i - 2>>
      BY <2>4, <3>1 DEF ConfigCmd
    <3>3. <<"build_driver", g, i - 2>> \in Commands
      BY <3>1, CommandFacts DEF PerDriver
    <3> QED BY <3>1, <3>2, <3>3
  <2> QED BY <2>1, <2>2, <2>3, <2>4
<1> DEFINE group(i) == IF i <= n THEN "server" ELSE "client"
           nth(i)   == IF i <= n THEN i ELSE i - n
<1>2. ASSUME NEW i \in 1..(n + n)
      PROVE  /\ ConfigSend(i) = ConfigCmd(group(i), nth(i))
             /\ group(i) \in Groups /\ nth(i) \in 1..n
             /\ i = IF group(i) = "server" THEN nth(i) ELSE nth(i) + n
  <2>1. group(i) \in Groups /\ (group(i) = "server" <=> i <= n)
    BY DEF Groups
  <2>2. nth(i) \in 1..n /\ i = IF i <= n THEN nth(i) ELSE nth(i) + n
    BY <1>0
  <2> QED BY <1>0, <2>1, <2>2 DEF ConfigSend
<1> HIDE DEF n, group, nth
<1>3. ASSUME NEW i \in 1..(n + n), NEW j \in 1..(n + n), ConfigSend(i) = ConfigSend(j)
      PROVE  i = j
  <2>1. ConfigCmd(group(i), nth(i)) = ConfigCmd(group(j), nth(j))
    BY <1>2, <1>3
  <2>2. group(i) = group(j)
    BY <1>1, <1>2, <2>1
  <2>3. nth(i) = nth(j)
    BY <1>1, <1>2, <2>1
  <2> QED BY <1>2, <2>2, <2>3
<1>4. ASSUME NEW i \in 1..(n + n)
      PROVE  ConfigSend(i) \in Commands /\ ConfigSend(i)[1] \in Common \cup {"build_driver"}
  BY <1>1, <1>2
<1> QED BY <1>3, <1>4 DEF n

(* What the commands of the instructions are, by their kind.               *)
LEMMA ProgramFacts ==
  /\ \A d \in 0..D : /\ DOMAIN Program[d] = 1..Len(Program[d])
                     /\ Len(Program[d]) \in Nat /\ Len(Program[d]) >= 1
  /\ \A d, i : Is(d, i, "send") => CommandAt(d, i) \in Commands
  /\ \A d, i, op : Is(d, i, op) /\ op \in {"connect", "running", "done"} =>
       /\ d \in Drivers
       /\ \E g \in Groups : Program[d][i].cmds = <<<<"run_russula", g, d>>>>
  /\ \A d, i : Is(d, i, "wait") => Program[d][i].cmds \in Seq(Commands)
<1> DEFINE last == (D + 3) + (D + 3) + 1
<1>1. /\ D \in Nat /\ last \in Nat /\ last >= 1
      /\ \A d \in 0..D : d = 0 \/ d \in Drivers
  BY CommandFacts DEF Drivers
<1>2. /\ DOMAIN Program[0] = 1..last /\ Len(Program[0]) = last
      /\ \A i \in 1..(last - 1) : /\ Program[0][i].op = "send"
                                  /\ CommandAt(0, i) = ConfigSend(i)
                                  /\ ConfigSend(i) \in Commands
      /\ Program[0][last].op = "wait"
      /\ Program[0][last].cmds \in Seq(Commands)
  <2>1. \A i \in 1..(last - 1) : i \in 1..((D + 3) + (D + 3))
    BY <1>1
  <2>2. Program[0][last].cmds \in Seq(Commands)
    BY ListZeroFacts, AwaitedFacts
  <2> QED BY <2>1, <2>2, ListZeroFacts, ConfigSendFacts
<1> HIDE DEF last
<1>3. ASSUME NEW d \in 0..D
      PROVE  /\ DOMAIN Program[d] = 1..Len(Program[d])
             /\ Len(Program[d]) \in Nat /\ Len(Program[d]) >= 1
  <2>1. CASE d = 0
    BY <1>1, <1>2, <2>1
  <2>2. CASE d \in Drivers
    <3>1. Len(Program[d]) = 10 /\ DOMAIN Program[d] = 1..10
      BY <2>2, PairFacts
    <3> QED BY <3>1
  <2> QED BY <1>1, <2>1, <2>2
<1>4. ASSUME NEW i, NEW op, Is(0, i, op)
      PROVE  /\ op = "send" => CommandAt(0, i) \in Commands
             /\ op = "wait" => Program[0][i].cmds \in Seq(Commands)
             /\ op \in {"send", "wait"}
  <2>1. i \in 1..(last - 1) \/ i = last
    BY <1>1, <1>2, <1>4 DEF Is
  <2>2. CASE i \in 1..(last - 1)
    BY <1>2, <1>4, <2>2 DEF Is
  <2>3. CASE i = last
    BY <1>2, <1>4, <2>3 DEF Is
  <2> QED BY <2>1, <2>2, <2>3
<1>5. ASSUME NEW d \in Drivers, NEW i, NEW op, Is(d, i, op)
      PROVE  /\ op = "send" => CommandAt(d, i) \in Commands
             /\ op = "wait" => Program[d][i].cmds \in Seq(Commands)
             /\ op \in {"connect", "running", "done"} =>
                  \E g \in Groups : Program[d][i].cmds = <<<<"run_russula", g, d>>>>
  <2>1. i \in 1..10 /\ op = PairOp[i]
    BY <1>5, PairFacts DEF Is
  <2>2. \A g \in Groups : Run(g, d) \in Commands /\ Upload(g, d) \in Commands
    BY CommandFacts DEF PerDriver, Run, Upload
  <2>3. CASE i \in 1..9
    <3>1. PairCmd(d)[i] \in Commands
      BY <2>2, <2>3 DEF PairCmd, Groups
    <3>2. i \in 2..7 => \E g \in Groups : PairCmd(d)[i] = <<"run_russula", g, d>>
      BY <2>3 DEF PairCmd, Groups, Run
    <3>3. op # "wait" /\ (op \in {"connect", "running", "done"} => i \in 2..7)
      BY <2>1, <2>3 DEF PairOp
    <3>4. Program[d][i].cmds = <<PairCmd(d)[i]>> /\ CommandAt(d, i) = PairCmd(d)[i]
      BY <2>3, PairFacts
    <3> QED BY <3>1, <3>2, <3>3, <3>4
  <2>4. CASE i = 10
    <3>1. op = "wait"
      BY <2>1, <2>4 DEF PairOp
    <3>2. Program[d][i].cmds = <<Upload("server", d), Upload("client", d)>>
      BY <2>4, PairFacts
    <3>3. Program[d][i].cmds \in Seq(Commands)
      BY <2>2, <3>2 DEF Groups
    <3> QED BY <3>1, <3>3
  <2> QED BY <2>1, <2>3, <2>4
<1>6. \A d, i, op : Is(d, i, op) => d = 0 \/ d \in Drivers
  BY <1>1 DEF Is
<1>7. ASSUME NEW d, NEW i, NEW op, Is(d, i, op)
      PROVE  /\ op = "send" => CommandAt(d, i) \in Commands
             /\ op = "wait" => Program[d][i].cmds \in Seq(Commands)
             /\ op \in {"connect", "running", "done"} =>
                  /\ d \in Drivers
                  /\ \E g \in Groups : Program[d][i].cmds = <<<<"run_russula", g, d>>>>
  <2>1. CASE d = 0
    BY <1>4, <1>7, <2>1
  <2>2. CASE d \in Drivers
    BY <1>5, <1>7, <2>2
  <2> QED BY <1>6, <1>7, <2>1, <2>2
<1> QED BY <1>3, <1>7

(* Where the commands of a driver are sent.                                *)
LEMMA PairSends ==
  ASSUME NEW d \in Drivers, NEW i, Is(d, i, "send")
  PROVE  \/ i = 1 /\ CommandAt(d, i) = Run("server", d)
         \/ i = 3 /\ CommandAt(d, i) = Run("client", d)
         \/ i = 8 /\ CommandAt(d, i) = Upload("server", d)
         \/ i = 9 /\ CommandAt(d, i) = Upload("client", d)
<1>1. i \in 1..10 /\ PairOp[i] = "send"
  BY PairFacts DEF Is
<1>2. i \in {1, 3, 8, 9}
  BY <1>1 DEF PairOp
<1>3. CommandAt(d, i) = PairCmd(d)[i]
  BY <1>2, PairFacts
<1> QED BY <1>2, <1>3 DEF PairCmd

(* Where those of the configuration are.                                   *)
LEMMA ConfigSends ==
  ASSUME NEW i, Is(0, i, "send")
  PROVE  /\ i \in 1..((D + 3) + (D + 3)) /\ CommandAt(0, i) = ConfigSend(i)
         /\ CommandAt(0, i)[1] \in Common \cup {"build_driver"}
<1> DEFINE n == (D + 3) + (D + 3)
<1>1. n \in Nat
  BY CommandFacts
<1>2. i \in 1..(n + 1) /\ Program[0][n + 1].op = "wait" /\ Program[0][i].op = "send"
  BY ListZeroFacts DEF Is
<1>3. i \in 1..n /\ i \in 1..((n + 1) - 1)
  BY <1>1, <1>2
<1>4. CommandAt(0, i) = ConfigSend(i)
  BY <1>3, ListZeroFacts
<1> QED BY <1>3, <1>4, ConfigSendFacts

(* No command is sent twice.                                               *)
LEMMA SentOnce ==
  ASSUME NEW d, NEW i, NEW e, NEW j, Is(d, i, "send"), Is(e, j, "send"),
         CommandAt(d, i) = CommandAt(e, j)
  PROVE  d = e /\ i = j
<1>1. (d = 0 \/ d \in Drivers) /\ (e = 0 \/ e \in Drivers)
  BY CommandFacts DEF Drivers, Is
<1>2. CASE d = 0 /\ e = 0
  BY <1>2, ConfigSends, ConfigSendFacts
<1>3. CASE d \in Drivers /\ e \in Drivers
  BY <1>3, PairSends DEF Run, Upload
<1>4. CASE d = 0 /\ e \in Drivers
  BY <1>4, ConfigSends, PairSends DEF Run, Upload, Common
<1>5. CASE d \in Drivers /\ e = 0
  BY <1>5, ConfigSends, PairSends DEF Run, Upload, Common
<1> QED BY <1>1, <1>2, <1>3, <1>4, <1>5

--------------------------------------------------------------------------------
(* Hosts and groups: a host has one group, and a command of it is known on *)
(* no host of the other.                                                   *)
LEMMA GroupFacts ==
  /\ \A g \in Groups : HostsOf[g] \subseteq Hosts /\ HostsOf[g] # {}
  /\ \A g, k \in Groups : \A h : h \in HostsOf[g] /\ h \in HostsOf[k] => g = k
  /\ \A c \in Commands : HostsFor(c) = HostsOf[c[2]] /\ HostsFor(c) \subseteq Hosts
<1>1. \A g \in Groups : HostsOf[g] \subseteq Hosts /\ HostsOf[g] # {}
  BY SsmAssumption DEF SsmAssumption, Hosts
<1>2. \A g, k \in Groups : \A h : h \in HostsOf[g] /\ h \in HostsOf[k] => g = k
  BY SsmAssumption DEF SsmAssumption, Groups
<1>3. \A c \in Commands : HostsFor(c) = HostsOf[c[2]] /\ HostsFor(c) \subseteq Hosts
  BY <1>1, CommandFacts DEF HostsFor
<1> QED BY <1>1, <1>2, <1>3

(* The parts of TypeOK, one by one.                                        *)
ControlOK ==
  /\ driver \in 0..(D + 1)
  /\ ip \in (IF Finished THEN {1} ELSE DOMAIN Program[driver])
  /\ panicked \in BOOLEAN /\ complete \in BOOLEAN /\ polled \in Nat
  /\ polled > 0 => panicked \/ (Doing("wait") /\ polled <= Len(Instruction.cmds))

Status == {"none", "sent", "running", "success", "failed"}

HostsOK ==
  /\ invocation \in [Hosts -> [Commands -> Status]]
  /\ files \in [Hosts -> SUBSET ({"start", "fin"} \X Steps)]
  /\ broken \subseteq Hosts
  /\ results \in [Hosts -> [Drivers -> {"none", "copied", "failed"}]]

LEMMA TypeParts ==
  (TypeOK /\ polled \in Nat) <=> (ControlOK /\ HostsOK /\ coordDone \subseteq Commands)
  BY DEF TypeOK, ControlOK, HostsOK, Status

(* The instruction being executed is one of the program, not yet past.     *)
LEMMA DoingFacts ==
  ASSUME ControlOK, Active
  PROVE  /\ driver \in 0..D /\ driver \in Nat /\ ip \in Nat /\ ip \in 1..Len(Program[driver])
         /\ \A op : Doing(op) <=> Is(driver, ip, op)
         /\ Instruction = Program[driver][ip] /\ Command = CommandAt(driver, ip)
         /\ ~Past(driver, ip)
<1>1. driver \in 0..D /\ ip \in DOMAIN Program[driver]
  BY CommandFacts DEF ControlOK, Active, Finished
<1>2. /\ DOMAIN Program[driver] = 1..Len(Program[driver])
      /\ Len(Program[driver]) \in Nat /\ D \in Nat
  BY <1>1, ProgramFacts, CommandFacts
<1>3. driver \in Nat /\ ip \in Nat /\ ip \in 1..Len(Program[driver])
  BY <1>1, <1>2
<1>4. \A op : Doing(op) <=> Is(driver, ip, op)
  BY <1>1 DEF Doing, Is, Instruction
<1> QED BY <1>1, <1>3, <1>4 DEF Past, Instruction, Command, CommandAt

(* The first states satisfy the invariant.                                 *)
LEMMA InitIInv == Init => IInv
<1> SUFFICES ASSUME Init PROVE IInv
  OBVIOUS
<1>1. /\ D \in Nat /\ D >= 1 /\ driver = 0 /\ ip = 1 /\ polled = 0
      /\ 1 \in DOMAIN Program[0] /\ 0 \in 0..(D + 1) /\ ~Finished
  <2>1. D \in Nat /\ D >= 1
    BY CommandFacts
  <2>2. 0 \in 0..D
    BY <2>1
  <2>3. 1 \in DOMAIN Program[0]
    BY <2>2, ProgramFacts
  <2> QED BY <2>1, <2>3 DEF Init, Finished
<1>2. ControlOK
  <2>1. ip \in (IF Finished THEN {1} ELSE DOMAIN Program[driver])
    BY <1>1
  <2>2. panicked \in BOOLEAN /\ complete \in BOOLEAN
    BY DEF Init
  <2>3. driver \in 0..(D + 1) /\ polled \in Nat /\ ~(polled > 0)
    BY <1>1
  <2> QED BY <2>1, <2>2, <2>3 DEF ControlOK
<1>3. \A h \in Hosts, c \in Commands : invocation[h][c] = "none"
  BY DEF Init
<1>4. HostsOK /\ coordDone \subseteq Commands
  BY DEF Init, HostsOK, Status
<1>5. \A d, i : \A op : Is(d, i, op) => ~Past(d, i)
  <2> SUFFICES ASSUME NEW d, NEW i, NEW op, Is(d, i, op) PROVE ~Past(d, i)
    OBVIOUS
  <2>1. d \in 0..D /\ i \in 1..Len(Program[d]) /\ Len(Program[d]) \in Nat
    BY ProgramFacts DEF Is
  <2> QED BY <1>1, <2>1 DEF Past
<1>6. SentInv
  BY <1>3 DEF SentInv
<1>7. MarkerInv
  BY <1>3 DEF MarkerInv, Init, Started
<1>8. CoordInv
  BY <1>5 DEF CoordInv
<1>9. WaitInv
  BY <1>1, <1>5 DEF WaitInv
<1> QED BY <1>2, <1>4, <1>6, <1>7, <1>8, <1>9, TypeParts DEF IInv

--------------------------------------------------------------------------------
(* What a script does to its host, or SSM to a command: a status moves on, *)
(* never back from success; a fin_ marker is left by success and stays.    *)
Effect(h, c) ==
  /\ \A k \in Hosts, b \in Commands :
       /\ invocation'[k][b] # "none" => invocation[k][b] # "none"
       /\ Done(k, b) => Done(k, b)'
       /\ Started(k, b)' => \/ Started(k, b)
                            \/ \A s \in WaitSteps(b[1]) : <<"fin", s>> \in files[k]
  /\ \A k \in Hosts, s \in Steps :
       /\ <<"fin", s>> \in files[k] => <<"fin", s>> \in files'[k]
       /\ <<"fin", s>> \in files'[k] =>
            <<"fin", s>> \in files[k] \/ (k = h /\ s = c[1] /\ Done(h, c)')
  /\ \A k \in broken' :
       k \in broken \/ (k = h /\ c[1] = "build_russula" /\ invocation[h][c] = "running")

(* Every step of a script, and every one of SSM, has this effect.          *)
LEMMA ScriptEffect ==
  ASSUME IInv, NEW h \in Hosts, NEW c \in Commands,
         Script(h, c) \/ TimeOut(h, c) \/ WaitTimesOut(h, c)
  PROVE  HostsOK' /\ Effect(h, c) /\ UNCHANGED orchVars
<1>1. HostsOK
  BY TypeParts DEF IInv
<1>2. c[1] \in Steps
  BY CommandFacts
<1>3. ASSUME NEW st \in Status, SetStatus(h, c, st)
      PROVE  /\ invocation' \in [Hosts -> [Commands -> Status]]
             /\ \A k \in Hosts, b \in Commands :
                  invocation'[k][b] = IF k = h /\ b = c THEN st ELSE invocation[k][b]
  BY <1>1, <1>3 DEF HostsOK, SetStatus
<1>4. CASE Begin(h, c)
  <2>1. SetStatus(h, c, "running") /\ invocation[h][c] = "sent"
    BY <1>4 DEF Begin
  <2>2. /\ invocation' \in [Hosts -> [Commands -> Status]]
        /\ \A k \in Hosts, b \in Commands :
             invocation'[k][b] = IF k = h /\ b = c THEN "running" ELSE invocation[k][b]
    BY <1>3, <2>1 DEF Status
  <2>3. /\ files' = [files EXCEPT ![h] = @ \cup {<<"start", c[1]>>}]
        /\ \A s \in WaitSteps(c[1]) : <<"fin", s>> \in files[h]
        /\ UNCHANGED <<broken, results, orchVars>>
    BY <1>4 DEF Begin
  <2>4. HostsOK'
    BY <1>1, <1>2, <2>2, <2>3 DEF HostsOK
  <2>5. \A k \in Hosts, s \in Steps : <<"fin", s>> \in files'[k] <=> <<"fin", s>> \in files[k]
    BY <1>1, <2>3 DEF HostsOK
  <2>6. Effect(h, c)
    BY <2>1, <2>2, <2>3, <2>5 DEF Effect, Done, Started
  <2> QED BY <2>3, <2>4, <2>6
<1>5. CASE End(h, c)
  <2> DEFINE start == <<"start", c[1]>>
  <2>1. invocation[h][c] = "running" /\ UNCHANGED orchVars
    BY <1>5 DEF End
  <2>2. PICK st \in {"success", "failed"} :
          /\ SetStatus(h, c, st)
          /\ \/ st = "success" /\ files' = [files EXCEPT ![h] = (@ \ {start}) \cup {<<"fin", c[1]>>}]
             \/ UNCHANGED files
    BY <1>5 DEF End
  <2>3. broken' = broken \/ (c[1] = "build_russula" /\ broken' = broken \cup {h})
    BY <1>5 DEF End
  <2>4. /\ invocation' \in [Hosts -> [Commands -> Status]]
        /\ \A k \in Hosts, b \in Commands :
             invocation'[k][b] = IF k = h /\ b = c THEN st ELSE invocation[k][b]
    BY <1>3, <2>2 DEF Status
  <2>8. results' \in [Hosts -> [Drivers -> {"none", "copied", "failed"}]]
    <3>1. \/ UNCHANGED results
          \/ \E o \in {"copied", "failed"} : results' = [results EXCEPT ![h][c[3]] = o]
      BY <1>5 DEF End, CopyOutcomes
    <3> QED BY <1>1, <3>1 DEF HostsOK
  <2>5. HostsOK'
    <3>1. files' \in [Hosts -> SUBSET ({"start", "fin"} \X Steps)]
      BY <1>1, <1>2, <2>2 DEF HostsOK
    <3>2. broken' \subseteq Hosts
      BY <1>1, <2>3 DEF HostsOK
    <3> QED BY <2>4, <2>8, <3>1, <3>2 DEF HostsOK
  <2>6. \A k \in Hosts, s \in Steps :
          /\ <<"fin", s>> \in files[k] => <<"fin", s>> \in files'[k]
          /\ <<"fin", s>> \in files'[k] =>
               <<"fin", s>> \in files[k] \/ (k = h /\ s = c[1] /\ st = "success")
    BY <1>1, <2>2 DEF HostsOK
  <2>7. Effect(h, c)
    BY <2>1, <2>3, <2>4, <2>6 DEF Effect, Done, Started
  <2> QED BY <2>1, <2>5, <2>7
<1>6. CASE TimeOut(h, c) \/ WaitTimesOut(h, c)
  <2>1. /\ SetStatus(h, c, "failed") /\ invocation[h][c] \in {"running", "sent"}
        /\ UNCHANGED <<files, broken, results, orchVars>>
    BY <1>6 DEF TimeOut, WaitTimesOut
  <2>2. /\ invocation' \in [Hosts -> [Commands -> Status]]
        /\ \A k \in Hosts, b \in Commands :
             invocation'[k][b] = IF k = h /\ b = c THEN "failed" ELSE invocation[k][b]
    BY <1>3, <2>1 DEF Status
  <2>3. HostsOK'
    BY <1>1, <2>1, <2>2 DEF HostsOK
  <2>4. Effect(h, c)
    BY <2>1, <2>2 DEF Effect, Done, Started
  <2> QED BY <2>1, <2>3, <2>4
<1> QED BY <1>4, <1>5, <1>6 DEF Script

(* A script's step keeps the invariant.                                    *)
LEMMA ScriptStep ==
  ASSUME IInv, NEW h \in Hosts, NEW c \in Commands,
         Script(h, c) \/ TimeOut(h, c) \/ WaitTimesOut(h, c)
  PROVE  IInv'
<1>1. HostsOK' /\ Effect(h, c) /\ UNCHANGED <<driver, ip, panicked, polled, complete, coordDone>>
  BY ScriptEffect DEF orchVars
<1>2. ControlOK /\ coordDone \subseteq Commands
  BY TypeParts DEF IInv
<1>3. ControlOK' /\ (coordDone \subseteq Commands)'
  BY <1>1, <1>2 DEF ControlOK, Finished, Doing, Active, Instruction
<1>4. (TypeOK /\ polled \in Nat)'
  BY <1>1, <1>3 DEF TypeOK, ControlOK, HostsOK, Status
<1>5. \A d, i : Past(d, i)' <=> Past(d, i)
  BY <1>1 DEF Past
<1>6. SentInv'
  <2>1. \A b : HasBeenSent(b)' <=> HasBeenSent(b)
    BY <1>5 DEF HasBeenSent, Is, CommandAt
  <2> QED BY <1>1, <2>1 DEF SentInv, Effect, IInv, HostsFor
<1>7. MarkerInv'
  <2>1. \A k \in Hosts, s \in Steps :
          (<<"fin", s>> \in files[k])' => \E b \in Commands : b[1] = s /\ Done(k, b)'
    BY <1>1 DEF Effect, MarkerInv, IInv
  <2>2. ASSUME NEW k \in Hosts, NEW b \in Commands, Started(k, b)', NEW s \in WaitSteps(b[1])
        PROVE  (<<"fin", s>> \in files[k])'
    <3>1. <<"fin", s>> \in files[k]
      BY <1>1, <2>2 DEF Effect, MarkerInv, IInv
    <3>2. s \in Steps
      BY <2>2, CommandFacts DEF WaitSteps, Steps, Common, PerDriver
    <3> QED BY <1>1, <3>1, <3>2 DEF Effect
  <2> QED BY <2>1, <2>2 DEF MarkerInv
<1>8. CoordInv'
  <2>1. ASSUME NEW d \in Nat, NEW i \in Nat, Is(d, i, "connect"), Past(d, i),
               NEW k \in HostsFor(CommandAt(d, i))
        PROVE  /\ k \notin broken'
               /\ Done(k, <<"build_russula", CommandAt(d, i)[2], 0>>)'
    <3> DEFINE built == <<"build_russula", CommandAt(d, i)[2], 0>>
    <3>1. k \notin broken /\ Done(k, built)
      BY <2>1 DEF IInv, CoordInv
    <3>2. /\ CommandAt(d, i)[2] \in Groups /\ built \in Commands
          /\ k \in HostsOf[CommandAt(d, i)[2]] /\ k \in Hosts
      <4>1. PICK g \in Groups : Program[d][i].cmds = <<<<"run_russula", g, d>>>>
        BY <2>1, ProgramFacts
      <4>2. CommandAt(d, i)[2] = g
        BY <4>1 DEF CommandAt
      <4> QED BY <2>1, <4>2, CommandFacts, GroupFacts DEF HostsFor, Common
    <3>3. Done(k, built)'
      BY <1>1, <3>1, <3>2 DEF Effect
    <3>4. ~(k = h /\ c[1] = "build_russula" /\ invocation[h][c] = "running")
      <4> SUFFICES ASSUME k = h, c[1] = "build_russula", invocation[h][c] = "running"
                   PROVE  FALSE
        OBVIOUS
      <4>1. h \in HostsOf[c[2]]
        BY GroupFacts DEF IInv, SentInv
      <4>2. c[2] = CommandAt(d, i)[2]
        BY <3>2, <4>1, CommandFacts, GroupFacts
      <4>3. c = built
        BY <4>2, CommandFacts DEF Common
      <4> QED BY <3>1, <4>3 DEF Done
    <3> QED BY <1>1, <3>1, <3>3, <3>4 DEF Effect
  <2>2. \A d, i \in Nat :
          Is(d, i, "done") /\ Past(d, i) => CommandAt(d, i) \in coordDone'
    BY <1>1 DEF IInv, CoordInv
  <2> QED BY <1>5, <2>1, <2>2 DEF CoordInv, Is, CommandAt, HostsFor
<1>9. WaitInv'
  <2>1. ASSUME NEW b \in Commands, DoneSomewhere(b)
        PROVE  DoneSomewhere(b)'
    BY <1>1, <2>1, GroupFacts DEF Effect, DoneSomewhere, HostsFor
  <2>2. ASSUME (Active /\ complete /\ polled > 0)', NEW j \in 1..polled
        PROVE  DoneSomewhere(Instruction.cmds[j])'
    <3>1. Active /\ complete /\ polled > 0 /\ Instruction' = Instruction
      BY <1>1, <2>2 DEF Active, Finished, Instruction
    <3>2. Is(driver, ip, "wait") /\ j \in 1..Len(Instruction.cmds)
      <4>1. Doing("wait") /\ polled \in Nat /\ polled <= Len(Instruction.cmds)
        BY <1>2, <3>1 DEF ControlOK, Active
      <4>2. Is(driver, ip, "wait")
        BY <1>2, <3>1, <4>1, DoingFacts
      <4>3. Instruction.cmds \in Seq(Commands)
        BY <4>2, ProgramFacts DEF Instruction
      <4>4. Len(Instruction.cmds) \in Nat
        BY <4>3, LenProperties
      <4> QED BY <2>2, <4>1, <4>2, <4>4
    <3>3. Instruction.cmds[j] \in Commands
      <4>1. Instruction.cmds \in Seq(Commands)
        BY <3>2, ProgramFacts DEF Instruction
      <4> QED BY <3>2, <4>1, ElementOfSeq
    <3>4. DoneSomewhere(Instruction.cmds[j])
      BY <3>1 DEF IInv, WaitInv
    <3> QED BY <2>1, <3>1, <3>3, <3>4 DEF DoneSomewhere, HostsFor, Done
  <2>3. ASSUME NEW d \in Nat, NEW i \in Nat, Is(d, i, "wait"), Past(d, i),
               NEW j \in DOMAIN Program[d][i].cmds
        PROVE  DoneSomewhere(Program[d][i].cmds[j])'
    <3>1. Program[d][i].cmds \in Seq(Commands)
      BY <2>3, ProgramFacts
    <3>2. Program[d][i].cmds[j] \in Commands
      BY <3>1, LenProperties, ElementOfSeq
    <3>3. DoneSomewhere(Program[d][i].cmds[j])
      BY <2>3 DEF IInv, WaitInv
    <3> QED BY <2>1, <3>2, <3>3
  <2> QED BY <1>1, <1>5, <2>2, <2>3 DEF WaitInv, Is
<1> QED BY <1>4, <1>6, <1>7, <1>8, <1>9 DEF IInv

--------------------------------------------------------------------------------
(* A step to the next instruction leaves one more behind.                  *)
LEMMA AdvanceFacts ==
  ASSUME ControlOK, Active, Advance
  PROVE  /\ driver' \in 0..(D + 1)
         /\ ip' \in (IF Finished' THEN {1} ELSE DOMAIN Program[driver'])
         /\ panicked' = FALSE
         /\ \A d, i, op : Is(d, i, op) =>
              (Past(d, i)' <=> Past(d, i) \/ (d = driver /\ i = ip))
<1>1. driver \in 0..D /\ ip \in 1..Len(Program[driver])
  BY DoingFacts
<1>2. /\ D \in Nat
      /\ \A d \in 0..D : /\ DOMAIN Program[d] = 1..Len(Program[d])
                         /\ Len(Program[d]) \in Nat /\ Len(Program[d]) >= 1
  BY ProgramFacts, CommandFacts
<1>3. panicked' = FALSE
  BY DEF Advance, Active, ControlOK
<1>4. CASE ip < Len(Program[driver])
  <2>1. driver' = driver /\ ip' = ip + 1
    BY <1>4 DEF Advance
  <2>2. driver' \in 0..D /\ ip' \in DOMAIN Program[driver'] /\ driver' # D + 1
    BY <1>1, <1>2, <1>4, <2>1
  <2>3. ASSUME NEW d, NEW i, NEW op, Is(d, i, op)
        PROVE  Past(d, i)' <=> Past(d, i) \/ (d = driver /\ i = ip)
    <3>1. d \in 0..D /\ i \in 1..Len(Program[d]) /\ Len(Program[d]) \in Nat
      BY <1>2, <2>3 DEF Is
    <3> QED BY <1>1, <1>2, <2>1, <3>1 DEF Past
  <2> QED BY <1>2, <1>3, <2>2, <2>3 DEF Finished
<1>5. CASE ~(ip < Len(Program[driver]))
  <2>1. driver' = driver + 1 /\ ip' = 1 /\ ip = Len(Program[driver])
    BY <1>1, <1>2, <1>5 DEF Advance
  <2>2. driver' \in 0..(D + 1) /\ (driver' # D + 1 => driver' \in 0..D)
    BY <1>1, <1>2, <2>1
  <2>3. driver' # D + 1 => ip' \in DOMAIN Program[driver']
    BY <1>2, <2>1, <2>2
  <2>4. ASSUME NEW d, NEW i, NEW op, Is(d, i, op)
        PROVE  Past(d, i)' <=> Past(d, i) \/ (d = driver /\ i = ip)
    <3>1. d \in 0..D /\ i \in 1..Len(Program[d]) /\ Len(Program[d]) \in Nat
      BY <1>2, <2>4 DEF Is
    <3> QED BY <1>1, <1>2, <2>1, <3>1 DEF Past
  <2> QED BY <1>3, <2>1, <2>2, <2>3, <2>4 DEF Finished
<1> QED BY <1>4, <1>5

(* The scripts are where they were, as far as the invariant can tell.      *)
SameScripts ==
  /\ \A h \in Hosts, c \in Commands : /\ Done(h, c)' <=> Done(h, c)
                                      /\ Started(h, c)' <=> Started(h, c)
  /\ UNCHANGED <<files, broken, results>>

(* What is asked of an instruction before the orchestrator goes on.        *)
Accomplished ==
  /\ Doing("connect") => \A h \in HostsFor(Command) :
       h \notin broken /\ Done(h, <<"build_russula", Command[2], 0>>)
  /\ Doing("done") => Command \in coordDone'
  /\ Doing("wait") =>
       \A j \in DOMAIN Instruction.cmds : DoneSomewhere(Instruction.cmds[j])

(* An instruction that is accomplished keeps the invariant when it is left.*)
LEMMA AdvanceStep ==
  ASSUME IInv, Active, Advance, SameScripts, Accomplished, HostsOK', SentInv',
         coordDone \subseteq coordDone', coordDone' \subseteq Commands,
         polled' = 0, complete' \in BOOLEAN
  PROVE  IInv'
<1>1. ControlOK /\ HostsOK
  BY TypeParts DEF IInv
<1>2. ControlOK'
  <2>1. /\ driver' \in 0..(D + 1) /\ panicked' = FALSE
        /\ ip' \in (IF Finished' THEN {1} ELSE DOMAIN Program[driver'])
    BY <1>1, AdvanceFacts
  <2>2. polled' \in Nat /\ ~(polled' > 0)
    OBVIOUS
  <2> QED BY <2>1, <2>2 DEF ControlOK
<1>3. (TypeOK /\ polled \in Nat)'
  BY <1>2 DEF TypeOK, ControlOK, HostsOK, Status
<1>4. \A d, i, op : Is(d, i, op) => (Past(d, i)' <=> Past(d, i) \/ (d = driver /\ i = ip))
  BY <1>1, AdvanceFacts
<1>5. /\ \A op : Doing(op) <=> Is(driver, ip, op)
      /\ Instruction = Program[driver][ip] /\ Command = CommandAt(driver, ip)
  BY <1>1, DoingFacts
<1>6. MarkerInv'
  BY DEF MarkerInv, IInv, SameScripts
<1>7. CoordInv'
  <2>1. ASSUME NEW d \in Nat, NEW i \in Nat, Is(d, i, "connect"), Past(d, i)',
               NEW h \in HostsFor(CommandAt(d, i))
        PROVE  h \notin broken' /\ Done(h, <<"build_russula", CommandAt(d, i)[2], 0>>)'
    <3>1. h \notin broken /\ Done(h, <<"build_russula", CommandAt(d, i)[2], 0>>)
      BY <1>4, <1>5, <2>1 DEF IInv, CoordInv, Accomplished
    <3>2. h \in Hosts /\ <<"build_russula", CommandAt(d, i)[2], 0>> \in Commands
      <4>1. PICK g \in Groups : Program[d][i].cmds = <<<<"run_russula", g, d>>>>
        BY <2>1, ProgramFacts
      <4>2. CommandAt(d, i)[2] = g
        BY <4>1 DEF CommandAt
      <4> QED BY <2>1, <4>2, CommandFacts, GroupFacts DEF HostsFor, Common
    <3> QED BY <3>1, <3>2 DEF SameScripts
  <2>2. ASSUME NEW d \in Nat, NEW i \in Nat, Is(d, i, "done"), Past(d, i)'
        PROVE  CommandAt(d, i) \in coordDone'
    BY <1>4, <1>5, <2>2 DEF IInv, CoordInv, Accomplished
  <2> QED BY <2>1, <2>2 DEF CoordInv, Is, CommandAt, HostsFor
<1>8. WaitInv'
  <2>1. ASSUME NEW d \in Nat, NEW i \in Nat, Is(d, i, "wait"), Past(d, i)',
               NEW j \in DOMAIN Program[d][i].cmds
        PROVE  DoneSomewhere(Program[d][i].cmds[j])'
    <3>1. DoneSomewhere(Program[d][i].cmds[j])
      BY <1>4, <1>5, <2>1 DEF IInv, WaitInv, Accomplished
    <3>2. Program[d][i].cmds \in Seq(Commands)
      BY <2>1, ProgramFacts
    <3>3. Program[d][i].cmds[j] \in Commands
      BY <3>2, LenProperties, ElementOfSeq
    <3> QED BY <3>1, <3>3, GroupFacts DEF DoneSomewhere, SameScripts, HostsFor
  <2> QED BY <2>1 DEF WaitInv, Is
<1> QED BY <1>3, <1>6, <1>7, <1>8 DEF IInv

(* Where the program is, and what the hosts hold, say all but how far a    *)
(* wait has polled.                                                        *)
LEMMA Untouched ==
  ASSUME IInv, UNCHANGED <<driver, ip, invocation, files, coordDone, broken, results>>
  PROVE  SentInv' /\ MarkerInv' /\ CoordInv'
<1>1. \A d, i : Past(d, i)' <=> Past(d, i)
  BY DEF Past
<1>2. SentInv'
  <2>1. ASSUME NEW c, HasBeenSent(c) PROVE HasBeenSent(c)'
    BY <1>1, <2>1, Zenon DEF HasBeenSent, Is, CommandAt
  <2>2. invocation' = invocation
    OBVIOUS
  <2> QED BY <2>1, <2>2, Zenon DEF IInv, SentInv, HostsFor
<1>3. MarkerInv'
  <2>1. UNCHANGED <<invocation, files>>
    OBVIOUS
  <2> QED BY <2>1 DEF IInv, MarkerInv, Done, Started
<1>4. CoordInv'
  <2>1. UNCHANGED <<invocation, coordDone, broken, results>>
    OBVIOUS
  <2> QED BY <1>1, <2>1 DEF IInv, CoordInv, Is, CommandAt, HostsFor, Done
<1> QED BY <1>2, <1>3, <1>4

(* An orchestrator that panics leaves everything else as it is.            *)
LEMMA AbortStep ==
  ASSUME IInv, Abort, UNCHANGED <<polled, complete, invocation, files, coordDone, broken, results>>
  PROVE  IInv'
<1>1. UNCHANGED <<driver, ip>> /\ panicked' = TRUE
  BY DEF Abort
<1>2. (TypeOK /\ polled \in Nat)'
  BY <1>1 DEF IInv, TypeOK, Finished, Doing, Active, Instruction
<1>3. SentInv' /\ MarkerInv' /\ CoordInv'
  BY <1>1, Untouched
<1>4. WaitInv'
  BY <1>1 DEF IInv, WaitInv, Past, Is, DoneSomewhere, Done, HostsFor, Active
<1> QED BY <1>2, <1>3, <1>4 DEF IInv

(* A command that is sent is a new one, so nothing is forgotten.           *)
LEMMA SendStep ==
  ASSUME IInv, SendCommand
  PROVE  IInv'
<1>1. ControlOK /\ HostsOK /\ coordDone \subseteq Commands
  BY TypeParts DEF IInv
<1>2. /\ Doing("send") /\ Active /\ Advance
      /\ UNCHANGED <<polled, complete, files, coordDone, broken, results>>
      /\ invocation' = [h \in Hosts |->
           IF h \in HostsFor(Command) THEN [invocation[h] EXCEPT ![Command] = "sent"]
                                      ELSE invocation[h]]
  BY DEF SendCommand, Doing
<1>3. Is(driver, ip, "send") /\ Command = CommandAt(driver, ip) /\ ~Past(driver, ip)
  BY <1>1, <1>2, DoingFacts
<1>4. Command \in Commands
  BY <1>3, ProgramFacts
<1>5. \A h \in Hosts : invocation[h][Command] = "none"
  <2> SUFFICES ASSUME NEW h \in Hosts, invocation[h][Command] # "none" PROVE FALSE
    OBVIOUS
  <2>1. PICK d, i \in Nat : Is(d, i, "send") /\ CommandAt(d, i) = Command /\ Past(d, i)
    BY <1>4 DEF IInv, SentInv, HasBeenSent
  <2>2. d = driver /\ i = ip
    BY <1>3, <2>1, SentOnce
  <2> QED BY <1>3, <2>1, <2>2
<1>6. \A h \in Hosts, c \in Commands :
        invocation'[h][c] = IF c = Command /\ h \in HostsFor(c) THEN "sent" ELSE invocation[h][c]
  BY <1>1, <1>2, <1>4 DEF HostsOK
<1>7. HostsOK'
  <2>1. invocation' \in [Hosts -> [Commands -> Status]]
    BY <1>1, <1>2, <1>4 DEF HostsOK, Status
  <2> QED BY <1>1, <1>2, <2>1 DEF HostsOK
<1>8. SameScripts
  BY <1>2, <1>5, <1>6 DEF SameScripts, Done, Started
<1>9. polled' = 0 /\ complete' \in BOOLEAN
  BY <1>1, <1>2 DEF ControlOK, Doing, Active
<1>10. Accomplished
  BY <1>2 DEF Accomplished, Doing
<1>11. SentInv'
  <2>1. \A d, i : Is(d, i, "send") =>
          (Past(d, i)' <=> Past(d, i) \/ (d = driver /\ i = ip))
    BY <1>1, <1>2, AdvanceFacts
  <2>2. \A c : HasBeenSent(c) => HasBeenSent(c)'
    BY <2>1 DEF HasBeenSent, Is, CommandAt
  <2>3. driver \in Nat /\ ip \in Nat
    BY <1>1, <1>2, DoingFacts
  <2>4. ASSUME NEW c, c = Command PROVE HasBeenSent(c)'
    <3>1. PICK d \in Nat, i \in Nat : d = driver /\ i = ip
      BY <2>3
    <3>2. Is(d, i, "send") /\ CommandAt(d, i) = c /\ Past(d, i)'
      BY <1>3, <2>1, <2>4, <3>1
    <3> QED BY <3>2 DEF HasBeenSent, Is, CommandAt
  <2> QED
    <3> SUFFICES ASSUME NEW h \in Hosts, NEW c \in Commands, invocation'[h][c] # "none"
                 PROVE  h \in HostsFor(c) /\ HasBeenSent(c)'
      BY DEF SentInv, HostsFor
    <3>1. CASE c = Command /\ h \in HostsFor(c)
      BY <2>4, <3>1
    <3>2. CASE ~(c = Command /\ h \in HostsFor(c))
      BY <1>6, <2>2, <3>2 DEF IInv, SentInv
    <3> QED BY <3>1, <3>2
<1> QED BY <1>1, <1>2, <1>7, <1>8, <1>9, <1>10, <1>11, AdvanceStep

(* A step of the orchestrator that leaves the hosts alone, and is accomplished. *)
LEMMA QuietAdvance ==
  ASSUME IInv, Active, Advance, Accomplished, UNCHANGED <<invocation, files, broken, results>>,
         coordDone \subseteq coordDone', coordDone' \subseteq Commands,
         polled' = 0, complete' \in BOOLEAN
  PROVE  IInv'
<1>1. ControlOK /\ HostsOK
  BY TypeParts DEF IInv
<1>2. HostsOK'
  BY <1>1 DEF HostsOK
<1>3. SameScripts
  BY DEF SameScripts, Done, Started
<1>4. SentInv'
  <2>1. \A d, i : Is(d, i, "send") => (Past(d, i) => Past(d, i)')
    BY <1>1, AdvanceFacts
  <2>2. \A c : HasBeenSent(c) => HasBeenSent(c)'
    BY <2>1 DEF HasBeenSent, Is, CommandAt
  <2> QED BY <2>2 DEF SentInv, IInv, HostsFor
<1> QED BY <1>2, <1>3, <1>4, AdvanceStep

(* Every worker listens: its script runs, so russula has been built.       *)
LEMMA ConnectStep ==
  ASSUME IInv, Connect
  PROVE  IInv'
<1>1. ControlOK /\ coordDone \subseteq Commands
  BY TypeParts DEF IInv
<1>2. /\ Doing("connect") /\ Active /\ Advance
      /\ UNCHANGED <<polled, complete, invocation, files, coordDone, broken, results>>
      /\ \A h \in HostsFor(Command) : invocation[h][Command] = "running" /\ h \notin broken
  BY DEF Connect, Doing, Listens
<1>3. PICK g \in Groups : Command = Run(g, driver) /\ driver \in Drivers
  BY <1>1, <1>2, DoingFacts, ProgramFacts DEF CommandAt, Run
<1>4. Command \in Commands /\ Command[1] = "run_russula" /\ Command[2] = g
  BY <1>3, CommandFacts DEF PerDriver, Run
<1>5. ASSUME NEW h \in HostsFor(Command)
      PROVE  Done(h, <<"build_russula", Command[2], 0>>)
  <2>1. h \in Hosts /\ h \in HostsOf[g] /\ Started(h, Command)
    BY <1>2, <1>4, GroupFacts DEF Started
  <2>2. "build_russula" \in WaitSteps(Command[1]) /\ "build_russula" \in Steps
    BY <1>4 DEF WaitSteps, Steps, Common
  <2>3. PICK b \in Commands : b[1] = "build_russula" /\ Done(h, b)
    BY <1>4, <2>1, <2>2 DEF IInv, MarkerInv
  <2>4. h \in HostsOf[b[2]] /\ b[2] \in Groups
    BY <2>1, <2>3, CommandFacts, GroupFacts DEF IInv, SentInv, Done
  <2>5. b[2] = g /\ b = <<"build_russula", g, 0>>
    BY <2>1, <2>3, <2>4, CommandFacts, GroupFacts DEF Common
  <2> QED BY <1>4, <2>3, <2>5
<1>6. Accomplished
  BY <1>2, <1>5 DEF Accomplished, Doing
<1>7. polled' = 0 /\ complete' \in BOOLEAN
  BY <1>1, <1>2 DEF ControlOK, Doing, Active
<1> QED BY <1>1, <1>2, <1>6, <1>7, QuietAdvance

(* A coordinator reaches WorkersRunning, or Done.                          *)
LEMMA CoordStep ==
  ASSUME IInv, CoordReaches
  PROVE  IInv'
<1>1. ControlOK /\ coordDone \subseteq Commands
  BY TypeParts DEF IInv
<1>2. /\ Doing("running") \/ Doing("done")
      /\ Active /\ Advance
      /\ UNCHANGED <<polled, complete, invocation, files, broken, results>>
      /\ coordDone' = IF Doing("done") THEN coordDone \cup {Command} ELSE coordDone
  BY DEF CoordReaches, Doing
<1>3. PICK g \in Groups : Command = Run(g, driver) /\ driver \in Drivers
  BY <1>1, <1>2, DoingFacts, ProgramFacts DEF CommandAt, Run
<1>4. Command \in Commands
  BY <1>3, CommandFacts DEF PerDriver, Run
<1>5. Accomplished
  BY <1>2 DEF Accomplished, Doing
<1>6. polled' = 0 /\ complete' \in BOOLEAN
  BY <1>1, <1>2 DEF ControlOK, Doing, Active
<1> QED BY <1>1, <1>2, <1>4, <1>5, <1>6, QuietAdvance

(* One command more is polled, and found complete or not.                  *)
LEMMA PollStep ==
  ASSUME IInv, PollComplete
  PROVE  IInv'
<1>1. ControlOK /\ HostsOK /\ coordDone \subseteq Commands
  BY TypeParts DEF IInv
<1>2. /\ Doing("wait") /\ Active /\ polled < Len(Instruction.cmds) /\ polled' = polled + 1
      /\ UNCHANGED <<driver, ip, panicked, invocation, files, coordDone, broken, results>>
  BY DEF PollComplete, Doing
<1>3. PICK r \in {"ready", "pending"} :
        Polls(Instruction.cmds[polled + 1], r) /\ complete' = (complete /\ r = "ready")
  BY DEF PollComplete
<1>4. Instruction.cmds \in Seq(Commands) /\ Len(Instruction.cmds) \in Nat
  <2>1. Instruction.cmds \in Seq(Commands)
    BY <1>1, <1>2, DoingFacts, ProgramFacts
  <2> QED BY <2>1, LenProperties
<1>5. polled \in Nat /\ polled + 1 \in 1..Len(Instruction.cmds)
  BY <1>1, <1>2, <1>4 DEF ControlOK
<1>6. ControlOK'
  <2>1. complete' \in BOOLEAN
    BY <1>3
  <2>2. (Doing("wait") /\ polled <= Len(Instruction.cmds))' /\ polled' \in Nat
    BY <1>2, <1>5 DEF Doing, Active, Finished, Instruction
  <2> QED BY <1>1, <1>2, <2>1, <2>2 DEF ControlOK, Finished
<1>7. (TypeOK /\ polled \in Nat)'
  BY <1>1, <1>2, <1>6 DEF TypeOK, ControlOK, HostsOK, Status
<1>8. SentInv' /\ MarkerInv' /\ CoordInv'
  BY <1>2, Untouched
<1>9. WaitInv'
  <2>1. ASSUME complete', NEW j \in 1..(polled + 1)
        PROVE  DoneSomewhere(Instruction.cmds[j])
    <3>1. complete /\ r = "ready"
      BY <1>3, <2>1
    <3>2. CASE j = polled + 1
      BY <1>3, <3>1, <3>2 DEF Polls, Result, DoneSomewhere, Done
    <3>3. CASE j # polled + 1
      <4>1. j \in 1..polled /\ polled > 0
        BY <1>5, <2>1, <3>3
      <4> QED BY <1>2, <3>1, <4>1 DEF IInv, WaitInv
    <3> QED BY <3>2, <3>3
  <2>2. \A c : DoneSomewhere(c)' <=> DoneSomewhere(c)
    BY <1>2 DEF DoneSomewhere, Done, HostsFor
  <2>3. Instruction' = Instruction /\ \A d, i : Past(d, i)' <=> Past(d, i)
    BY <1>2 DEF Instruction, Past
  <2>4. (Active /\ complete /\ polled > 0 =>
           \A j \in 1..polled : DoneSomewhere(Instruction.cmds[j]))'
    BY <1>2, <2>1, <2>2, <2>3
  <2> QED BY <2>2, <2>3, <2>4 DEF IInv, WaitInv, Is
<1> QED BY <1>7, <1>8, <1>9 DEF IInv

(* A pass that has found all of them complete is the last one.             *)
LEMMA PassStep ==
  ASSUME IInv, PassEnds
  PROVE  IInv'
<1>1. ControlOK /\ HostsOK /\ coordDone \subseteq Commands
  BY TypeParts DEF IInv
<1>2. /\ Doing("wait") /\ Active /\ polled = Len(Instruction.cmds)
      /\ polled' = 0 /\ complete' = TRUE
      /\ UNCHANGED <<invocation, files, coordDone, broken, results>>
      /\ IF complete THEN Advance ELSE UNCHANGED <<driver, ip, panicked>>
  BY DEF PassEnds, Doing
<1>3. CASE complete
  <2>1. Instruction.cmds \in Seq(Commands)
    BY <1>1, <1>2, DoingFacts, ProgramFacts
  <2>2. DOMAIN Instruction.cmds = 1..polled
    BY <1>2, <2>1, LenProperties
  <2>3. \A j \in 1..polled : DoneSomewhere(Instruction.cmds[j])
    <3>1. polled \in Nat /\ (\A j \in 1..polled : polled > 0)
      BY <1>1 DEF ControlOK
    <3> QED BY <1>2, <1>3, <3>1 DEF IInv, WaitInv
  <2>4. Accomplished
    BY <1>2, <2>2, <2>3 DEF Accomplished, Doing
  <2> QED BY <1>1, <1>2, <1>3, <2>4, QuietAdvance
<1>4. CASE ~complete
  <2>1. UNCHANGED <<driver, ip, panicked>>
    BY <1>2, <1>4
  <2>2. ControlOK'
    BY <1>1, <1>2, <2>1 DEF ControlOK, Finished
  <2>3. (TypeOK /\ polled \in Nat)'
    BY <1>1, <1>2, <2>2 DEF TypeOK, ControlOK, HostsOK, Status
  <2>4. SentInv' /\ MarkerInv' /\ CoordInv'
    BY <1>2, <2>1, Untouched
  <2>5. WaitInv'
    BY <1>2, <2>1 DEF IInv, WaitInv, Past, Is, DoneSomewhere, Done, HostsFor
  <2> QED BY <2>3, <2>4, <2>5 DEF IInv
<1> QED BY <1>3, <1>4

--------------------------------------------------------------------------------
(* THEOREMS                                                                *)

(* Every step keeps the invariant.                                         *)
LEMMA NextIInv == IInv /\ [Next]_vars => IInv'
<1> SUFFICES ASSUME IInv, [Next]_vars PROVE IInv'
  OBVIOUS
<1>1. CASE SendCommand
  BY <1>1, SendStep
<1>2. CASE SendFails \/ PollError \/ ConnectGivesUp
  BY <1>2, AbortStep DEF SendFails, PollError, ConnectGivesUp
<1>3. CASE PollComplete
  BY <1>3, PollStep
<1>4. CASE PassEnds
  BY <1>4, PassStep
<1>5. CASE Connect
  BY <1>5, ConnectStep
<1>6. CASE CoordReaches
  BY <1>6, CoordStep
<1>7. ASSUME NEW h \in Hosts, NEW c \in Commands,
             Script(h, c) \/ TimeOut(h, c) \/ WaitTimesOut(h, c)
      PROVE  IInv'
  BY <1>7, ScriptStep
<1>8. CASE UNCHANGED vars
  <2>1. (TypeOK /\ polled \in Nat)'
    BY <1>8 DEF vars, IInv, TypeOK, Finished, Doing, Active, Instruction
  <2>2. SentInv' /\ MarkerInv' /\ CoordInv'
    BY <1>8, Untouched DEF vars
  <2>3. WaitInv'
    BY <1>8 DEF vars, IInv, WaitInv, Past, Is, HostsFor, Done, DoneSomewhere, Active, Finished,
                Instruction
  <2> QED BY <2>1, <2>2, <2>3 DEF IInv
<1> QED BY <1>1, <1>2, <1>3, <1>4, <1>5, <1>6, <1>7, <1>8 DEF Next, Orchestrate, Terminating

(* The invariant holds in every reachable state.                           *)
THEOREM Inductive == Spec => []IInv
  BY InitIInv, NextIInv, PTL DEF Spec

(* The variables keep their types, and only a wait counts what it polled   *)
(* (wait_complete).                                                        *)
THEOREM TypeCorrect == Spec => []TypeOK
<1>1. IInv => TypeOK
  BY DEF IInv
<1> QED BY <1>1, Inductive, PTL

(* Nothing runs on a host before every earlier step is completed there,    *)
(* also those it does not wait for itself: the markers are handed on       *)
(* (ssm_utils.rs, send_command).                                           *)
THEOREM StepsInOrderHolds == Spec => []StepsInOrder
<1>1. ASSUME IInv PROVE StepsInOrder
  <2>1. ASSUME NEW h \in Hosts, NEW c \in Commands, Started(h, c), NEW s \in WaitSteps(c[1])
        PROVE  \E b \in Commands : b[1] = s /\ Done(h, b)
    <3>1. s \in Steps
      BY <2>1, CommandFacts DEF WaitSteps, Steps, Common, PerDriver
    <3> QED BY <1>1, <2>1, <3>1 DEF IInv, MarkerInv
  <2>2. \A h \in Hosts, b \in Commands : Done(h, b) => Started(h, b)
    BY DEF Done, Started
  <2>3. ASSUME NEW h \in Hosts, NEW c \in Commands, Started(h, c),
               c[1] \in {"build_driver", "build_russula"}, NEW s \in Before(c[1])
        PROVE  \E b \in Commands : b[1] = s /\ Done(h, b)
    BY <2>1, <2>3 DEF WaitSteps, Before
  <2>4. ASSUME NEW h \in Hosts, NEW c \in Commands, Started(h, c), c[1] = "run_russula",
               NEW s \in Before(c[1])
        PROVE  \E b \in Commands : b[1] = s /\ Done(h, b)
    <3>1. \A t \in {"build_driver", "build_russula"} :
            \E b \in Commands : b[1] = t /\ Done(h, b)
      BY <2>1, <2>4 DEF WaitSteps
    <3>2. PICK b \in Commands : b[1] = "build_russula" /\ Done(h, b)
      BY <3>1
    <3>3. \A t \in {"configure", "upload_scenario_file"} :
            \E a \in Commands : a[1] = t /\ Done(h, a)
      BY <2>2, <2>3, <3>2 DEF Before
    <3> QED BY <2>4, <3>1, <3>3 DEF Before, Common
  <2>5. ASSUME NEW h \in Hosts, NEW c \in Commands, Started(h, c),
               c[1] = "upload_netbench_raw_data", NEW s \in Before(c[1])
        PROVE  \E b \in Commands : b[1] = s /\ Done(h, b)
    <3>1. PICK b \in Commands : b[1] = "run_russula" /\ Done(h, b)
      BY <2>1, <2>5 DEF WaitSteps
    <3>2. \A t \in Before("run_russula") : \E a \in Commands : a[1] = t /\ Done(h, a)
      BY <2>2, <2>4, <3>1
    <3> QED BY <2>5, <3>1, <3>2 DEF Before
  <2>6. ASSUME NEW c \in Commands, c[1] \in {"configure", "upload_scenario_file"}
        PROVE  Before(c[1]) = {}
    BY <2>6 DEF Before
  <2>7. \A c \in Commands :
          c[1] \in {"configure", "upload_scenario_file", "build_driver", "build_russula",
                    "run_russula", "upload_netbench_raw_data"}
    BY CommandFacts DEF Steps, Common, PerDriver
  <2> QED BY <2>3, <2>4, <2>5, <2>6, <2>7 DEF StepsInOrder
<1> QED BY <1>1, Inductive, PTL

(* A results command has started, so it was sent, and everything its driver*)
(* pair does before is behind.                                             *)
LEMMA UploadSent ==
  ASSUME IInv, NEW h \in Hosts, NEW g \in Groups, NEW d \in Drivers, Started(h, Upload(g, d))
  PROVE  \A i \in 1..7 : Past(d, i)
<1>1. Upload(g, d) \in Commands
  BY CommandFacts DEF PerDriver, Upload
<1>2. PICK e, i \in Nat : Is(e, i, "send") /\ CommandAt(e, i) = Upload(g, d) /\ Past(e, i)
  BY <1>1 DEF IInv, SentInv, HasBeenSent, Started
<1>3. e \in Drivers
  <2>1. e = 0 \/ e \in Drivers
    BY <1>2, CommandFacts DEF Is, Drivers
  <2>2. e # 0
    BY <1>2, ConfigSends DEF Upload, Common
  <2> QED BY <2>1, <2>2
<1>4. e = d /\ i \in {8, 9}
  BY <1>2, <1>3, PairSends DEF Run, Upload
<1>5. driver \in Nat /\ ip \in Nat /\ d \in Nat
  <2>1. ControlOK
    BY TypeParts DEF IInv
  <2>2. \A f \in 0..D : DOMAIN Program[f] = 1..Len(Program[f])
    BY ProgramFacts
  <2> QED BY <2>1, <2>2, CommandFacts DEF ControlOK, Finished, Drivers
<1> QED BY <1>2, <1>4, <1>5 DEF Past

(* What a coordinator has done for driver d when the results are copied.   *)
LEMMA PairPast ==
  ASSUME IInv, NEW d \in Drivers, \A i \in 1..7 : Past(d, i)
  PROVE  \A g \in Groups : /\ Run(g, d) \in coordDone
                           /\ \A h \in HostsOf[g] : h \notin broken
<1>1. d \in Nat /\ 2 \in Nat /\ 4 \in Nat /\ 6 \in Nat /\ 7 \in Nat
  BY CommandFacts DEF Drivers
<1>2. /\ Is(d, 2, "connect") /\ Is(d, 4, "connect") /\ Is(d, 6, "done") /\ Is(d, 7, "done")
  BY PairFacts DEF Is, PairOp
<1>3. /\ CommandAt(d, 2) = Run("server", d) /\ CommandAt(d, 4) = Run("client", d)
      /\ CommandAt(d, 6) = Run("client", d) /\ CommandAt(d, 7) = Run("server", d)
  <2>1. \A i \in 1..9 : CommandAt(d, i) = PairCmd(d)[i]
    BY PairFacts
  <2> QED BY <2>1 DEF PairCmd
<1>4. Past(d, 2) /\ Past(d, 4) /\ Past(d, 6) /\ Past(d, 7)
  OBVIOUS
<1>5. Run("client", d) \in coordDone /\ Run("server", d) \in coordDone
  BY <1>1, <1>2, <1>3, <1>4 DEF IInv, CoordInv
<1>6. \A h \in HostsFor(Run("server", d)) \cup HostsFor(Run("client", d)) : h \notin broken
  BY <1>1, <1>2, <1>3, <1>4 DEF IInv, CoordInv
<1>7. \A g \in Groups : HostsFor(Run(g, d)) = HostsOf[g]
  BY DEF HostsFor, Run
<1> QED BY <1>5, <1>6, <1>7 DEF Groups

(* Results are not copied from any host before both coordinators are Done, *)
(* also when the marker it waits for is an old one (orchestrator.rs).      *)
THEOREM UploadAfterNetbenchHolds == Spec => []UploadAfterNetbench
<1>1. IInv => UploadAfterNetbench
  BY UploadSent, PairPast DEF UploadAfterNetbench, Upload, Run
<1> QED BY <1>1, Inductive, PTL

(* No results are copied once russula could not be built on some host,     *)
(* although every wait took that build for complete (ssm_utils.rs).        *)
THEOREM NoResultsFromBrokenBuildHolds == Spec => []NoResultsFromBrokenBuild
<1>1. ASSUME IInv, NEW h \in Hosts, NEW g \in Groups, NEW d \in Drivers,
             Started(h, Upload(g, d))
      PROVE  broken = {}
  <2>1. \A k \in Groups : \A b \in HostsOf[k] : b \notin broken
    BY <1>1, UploadSent, PairPast
  <2>2. broken \subseteq Hosts
    BY <1>1 DEF IInv, TypeOK
  <2> QED BY <2>1, <2>2 DEF Hosts
<1>2. IInv => NoResultsFromBrokenBuild
  BY <1>1 DEF NoResultsFromBrokenBuild, Upload
<1> QED BY <1>2, Inductive, PTL

(* With one host in each group, the host a wait looks at is the only one.  *)
OneHostEachGroup == \A g \in Groups : \E h : HostsOf[g] = {h}

(* Then no worker starts before every driver has been built on its host:   *)
(* the wait for the build commands holds back the first driver pair        *)
(* (collect_config_cmds).  With more hosts this is false, which the run    *)
(* run_before_build shows.                                                 *)
THEOREM BuiltBeforeRunHolds == OneHostEachGroup /\ Spec => []BuiltBeforeRun
<1> SUFFICES ASSUME OneHostEachGroup PROVE Spec => []BuiltBeforeRun
  OBVIOUS
<1>1. ASSUME IInv, NEW g \in Groups, NEW h \in HostsOf[g], NEW c \in Drivers, NEW d \in Drivers,
             Started(h, Run(g, c))
      PROVE  Done(h, <<"build_driver", g, d>>)
  <2> DEFINE last == (D + 3) + (D + 3) + 1
  <2>1. Run(g, c) \in Commands /\ h \in Hosts
    BY CommandFacts, GroupFacts DEF PerDriver, Run
  <2>2. PICK e, i \in Nat : Is(e, i, "send") /\ CommandAt(e, i) = Run(g, c) /\ Past(e, i)
    BY <1>1, <2>1 DEF IInv, SentInv, HasBeenSent, Started
  <2>3. e # 0
    BY <2>2, ConfigSends DEF Run, Common
  <2>4. driver \in Nat /\ driver > 0
    <3>1. ControlOK
      BY <1>1, TypeParts DEF IInv
    <3> QED BY <2>2, <2>3, <3>1, CommandFacts DEF Past, ControlOK
  <2>5. Is(0, last, "wait") /\ Past(0, last) /\ 0 \in Nat /\ last \in Nat
    BY <2>4, ListZeroFacts DEF Is, Past
  <2>6. PICK j \in DOMAIN Program[0][last].cmds :
          Program[0][last].cmds[j] = <<"build_driver", g, d>>
    BY ListZeroFacts, AwaitedFacts
  <2>7. DoneSomewhere(<<"build_driver", g, d>>)
    BY <1>1, <2>5, <2>6 DEF IInv, WaitInv
  <2> QED BY <2>7 DEF DoneSomewhere, HostsFor, OneHostEachGroup
<1>2. IInv => BuiltBeforeRun
  BY <1>1 DEF BuiltBeforeRun, Run
<1> QED BY <1>2, Inductive, PTL

(* An upload script that has ended left the outcome of its copy.           *)
CopyInv ==
  /\ \A g \in Groups : \A h \in HostsOf[g], d \in Drivers :
       Done(h, Upload(g, d)) => results[h][d] # "none"
  /\ \A h \in Hosts, d \in Drivers : results[h][d] = "failed" => "copy" \in Faults

LEMMA UploadCommand ==
  /\ \A g \in Groups, d \in Drivers : Upload(g, d) \in Commands
  /\ \A c \in Commands : c[1] = "upload_netbench_raw_data" => c[3] \in Drivers
  BY CommandFacts DEF Upload, PerDriver

LEMMA CopyKept ==
  ASSUME IInv, CopyInv, [Next]_vars
  PROVE  CopyInv'
<1>0. HostsOK /\ HostsOK'
  <2>1. TypeOK /\ TypeOK'
    BY NextIInv DEF IInv
  <2> QED BY <2>1 DEF TypeOK, HostsOK, Status
<1>1. CASE UNCHANGED <<invocation, results>>
  BY <1>1 DEF CopyInv, Done
<1>2. ASSUME NEW k \in Hosts, NEW c \in Commands, NEW st \in Status \ {"success"},
             SetStatus(k, c, st), UNCHANGED results
      PROVE  CopyInv'
  <2>1. \A h \in Hosts, b \in Commands : Done(h, b)' => Done(h, b)
    BY <1>0, <1>2 DEF HostsOK, SetStatus, Done
  <2> QED BY <1>2, <2>1, GroupFacts, UploadCommand DEF CopyInv
<1>3. CASE SendCommand
  <2>1. \A h \in Hosts, b \in Commands : Done(h, b)' => Done(h, b)
    BY <1>0, <1>3 DEF HostsOK, SendCommand, Done
  <2> QED BY <1>3, <2>1, GroupFacts, UploadCommand DEF CopyInv, SendCommand
<1>4. ASSUME NEW k \in Hosts, NEW c \in Commands, End(k, c)
      PROVE  CopyInv'
  <2>1. PICK st \in Status : SetStatus(k, c, st)
    BY <1>4 DEF End, Status
  <2>2. \A h \in Hosts, b \in Commands : Done(h, b)' => Done(h, b) \/ (h = k /\ b = c)
    BY <1>0, <2>1 DEF HostsOK, SetStatus, Done
  <2>3. CASE c[1] = "upload_netbench_raw_data"
    <3>1. PICK o \in {"copied", "failed"} :
            /\ results' = [results EXCEPT ![k][c[3]] = o]
            /\ o = "failed" => "copy" \in Faults
      BY <1>4, <2>3 DEF End, CopyOutcomes
    <3>2. c[3] \in Drivers
      BY <2>3, UploadCommand
    <3>3. \A h \in Hosts, d \in Drivers :
            results'[h][d] = IF h = k /\ d = c[3] THEN o ELSE results[h][d]
      BY <1>0, <3>1, <3>2 DEF HostsOK
    <3>4. \A g \in Groups, d \in Drivers : Upload(g, d) = c => d = c[3]
      BY DEF Upload
    <3> QED BY <2>2, <3>1, <3>3, <3>4, GroupFacts, UploadCommand DEF CopyInv
  <2>4. CASE c[1] # "upload_netbench_raw_data"
    <3>1. UNCHANGED results
      BY <1>4, <2>4 DEF End
    <3>2. \A g \in Groups, d \in Drivers : Upload(g, d) # c
      BY <2>4 DEF Upload
    <3> QED BY <2>2, <3>1, <3>2, GroupFacts, UploadCommand DEF CopyInv
  <2> QED BY <2>3, <2>4
<1>5. ASSUME NEW k \in Hosts, NEW c \in Commands, Begin(k, c) \/ TimeOut(k, c) \/ WaitTimesOut(k, c)
      PROVE  CopyInv'
  <2>1. UNCHANGED results /\ \E st \in Status \ {"success"} : SetStatus(k, c, st)
    BY <1>5 DEF Begin, TimeOut, WaitTimesOut, Status
  <2> QED BY <1>2, <2>1
<1>6. CASE SendFails \/ PollComplete \/ PassEnds \/ PollError \/ Connect \/ ConnectGivesUp \/ CoordReaches
  BY <1>1, <1>6 DEF SendFails, PollComplete, PassEnds, PollError, Connect, ConnectGivesUp, CoordReaches
<1>7. CASE UNCHANGED vars
  BY <1>1, <1>7 DEF vars
<1> QED BY <1>3, <1>4, <1>5, <1>6, <1>7 DEF Next, Orchestrate, Script, Terminating

(* When a run ends, the upload of every driver is over on every host, with *)
(* the results in S3 unless the copy itself failed (upload_netbench_data   *)
(* and the wait for it).                                                   *)
THEOREM NoUploadCutOffHolds == OneHostEachGroup /\ Spec => []NoUploadCutOff
<1> SUFFICES ASSUME OneHostEachGroup PROVE Spec => []NoUploadCutOff
  OBVIOUS
<1>1. ASSUME IInv, Finished, NEW g \in Groups, NEW h \in HostsOf[g], NEW d \in Drivers
      PROVE  Done(h, Upload(g, d))
  <2>1. driver = D + 1 /\ d \in 1..D /\ D \in Nat
    BY <1>1, CommandFacts DEF Finished, Drivers
  <2>2. Is(d, 10, "wait") /\ Past(d, 10) /\ d \in Nat /\ 10 \in Nat
    BY <2>1, PairFacts DEF Is, Past, PairOp, Drivers
  <2>3. Program[d][10].cmds = <<Upload("server", d), Upload("client", d)>>
    BY PairFacts
  <2>4. \A j \in DOMAIN Program[d][10].cmds : DoneSomewhere(Program[d][10].cmds[j])
    BY <1>1, <2>2 DEF IInv, WaitInv
  <2>5. DoneSomewhere(Upload("server", d)) /\ DoneSomewhere(Upload("client", d))
    BY <2>3, <2>4
  <2> QED BY <2>5 DEF DoneSomewhere, HostsFor, OneHostEachGroup, Upload, Groups
<1>2. ASSUME IInv, CopyInv PROVE NoUploadCutOff
  <2> SUFFICES ASSUME Finished, NEW h \in Hosts, NEW d \in Drivers
               PROVE  results[h][d] = "copied" \/ ("copy" \in Faults /\ results[h][d] = "failed")
    BY DEF NoUploadCutOff
  <2>1. PICK g \in Groups : h \in HostsOf[g]
    BY DEF Hosts
  <2>2. results[h][d] # "none"
    BY <1>1, <1>2, <2>1 DEF CopyInv
  <2>3. results[h][d] \in {"none", "copied", "failed"}
    BY <1>2 DEF IInv, TypeOK
  <2> QED BY <1>2, <2>2, <2>3 DEF CopyInv
<1>3. Init => CopyInv
  <2>1. ASSUME Init, NEW h \in Hosts, NEW d \in Drivers PROVE results[h][d] = "none"
    BY <2>1 DEF Init
  <2>2. ASSUME Init, NEW h \in Hosts, NEW c \in Commands PROVE ~Done(h, c)
    BY <2>2 DEF Init, Done
  <2> QED BY <2>1, <2>2, GroupFacts, UploadCommand DEF CopyInv
<1>4. IInv /\ CopyInv /\ [Next]_vars => CopyInv'
  BY CopyKept
<1> QED BY <1>2, <1>3, <1>4, Inductive, PTL DEF Spec
================================================================================
