--------------------------------- MODULE MCSsm ---------------------------------
EXTENDS Ssm, TLC

CONSTANTS s1, s2, c1

OneHostEach == [server |-> {s1}, client |-> {c1}]
TwoServers  == [server |-> {s1, s2}, client |-> {c1}]

(* The servers can be exchanged: they only differ by name.                 *)
ServerSymmetry == Permutations({s1, s2})
================================================================================
