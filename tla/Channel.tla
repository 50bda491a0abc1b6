-------------------------------- MODULE Channel --------------------------------
(***************************************************************************)
(* What one direction of a Russula connection promises: messages 1, 2, ... *)
(* are received in the order they were sent and none twice; a reliable     *)
(* channel loses none either, and nothing is received that was not sent.   *)
(* Module Russula is written over reliable channels: its inbox holds what  *)
(* is sent and not yet received.                                           *)
(***************************************************************************)
EXTENDS Naturals, Sequences

VARIABLES sent, received, reliable

vars == <<sent, received, reliable>>

Init == sent = 0 /\ received = <<>> /\ reliable \in BOOLEAN

Send == sent' = sent + 1 /\ UNCHANGED <<received, reliable>>

Receive ==
  /\ \E m \in 1..sent :
       /\ \A i \in DOMAIN received : received[i] < m
       /\ reliable => m = Len(received) + 1
       /\ received' = Append(received, m)
  /\ UNCHANGED <<sent, reliable>>

(* Something that is not a message.                                        *)
Garble == ~reliable /\ received' = Append(received, 0) /\ UNCHANGED <<sent, reliable>>

Spec == Init /\ [][Send \/ Receive \/ Garble]_vars
================================================================================
