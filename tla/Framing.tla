-------------------------------- MODULE Framing --------------------------------
(***************************************************************************)
(* How Russula puts messages on a TCP stream                               *)
(* (src/russula/network_utils.rs): a length of two bytes, then the data.   *)
(* One direction of one connection: a peer that writes messages 1, 2, ...  *)
(* with try_write, and a process that reads them with two calls of try_read*)
(* per message.                                                            *)
(*                                                                         *)
(* A byte is <<m, i>>: byte i of message m, 0 and 1 being the length.  Only*)
(* its value as part of a length matters otherwise (Value).  A stream keeps*)
(* the order of bytes and nothing else: it may cut what was written in one *)
(* call, and a write may take a part of it.                                *)
(***************************************************************************)
EXTENDS Integers, Sequences

CONSTANTS
  K,         \* number of data bytes of a message
  Messages   \* bound: how many messages are written

ASSUME FramingAssumption ==
  /\ K \in 1..255
  /\ Messages \in Nat

VARIABLES
  cut,    \* what is cut: "none", "segments" by the network, "writes" as well
  sent,   \* Nat: messages written so far
  wire,   \* Seq(bytes): on their way
  buf,    \* Seq(bytes): arrived and not read yet
  eof,    \* BOOLEAN: the peer has closed, and everything before has arrived
  ready,  \* BOOLEAN: tokio's cached readiness
  pc,     \* "idle", "data" once the length is read, "failed" after BadMsg
  len,    \* Nat: the length that was read
  torn,   \* BOOLEAN: some write took a part of its message
  got     \* Seq: the data of the messages read_msg has returned

vars == <<cut, sent, wire, buf, eof, ready, pc, len, torn, got>>

Cuts == {"none", "segments", "writes"}

Data(m)  == [i \in 1..K |-> <<m, i + 1>>]
Frame(m) == <<<<m, 0>>, <<m, 1>>>> \o Data(m)

(* The length is below 256 and big-endian; a data byte is a character.     *)
Character == 32
Value(b) == CASE b[2] = 0 -> 0 [] b[2] = 1 -> K [] OTHER -> Character

Init ==
  /\ cut \in Cuts
  /\ sent = 0 /\ wire = <<>> /\ buf = <<>>
  /\ eof = FALSE /\ ready = FALSE
  /\ pc = "idle" /\ len = 0 /\ torn = FALSE /\ got = <<>>

--------------------------------------------------------------------------------
(* write_msg: one try_write.  How many bytes it took is not looked at.  (A *)
(* write that takes none reports NetworkBlocked and changes nothing here.) *)
Write ==
  /\ ~eof /\ sent < Messages
  /\ \E n \in 1..(K + 2) :
       /\ n < K + 2 => cut = "writes"
       /\ wire' = wire \o SubSeq(Frame(sent + 1), 1, n)
       /\ torn' = (torn \/ n < K + 2)
  /\ sent' = sent + 1
  /\ UNCHANGED <<cut, buf, eof, ready, pc, len, got>>

(* Bytes arrive, in whole messages unless something is cut.                *)
Arrive ==
  /\ \E n \in 1..Len(wire) :
       /\ cut = "none" => wire[n][2] = K + 1
       /\ buf' = buf \o SubSeq(wire, 1, n)
       /\ wire' = SubSeq(wire, n + 1, Len(wire))
  /\ ready' = TRUE
  /\ UNCHANGED <<cut, sent, eof, pc, len, torn, got>>

PeerCloses ==
  /\ ~eof /\ wire = <<>>
  /\ eof' = TRUE /\ ready' = TRUE
  /\ UNCHANGED <<cut, sent, wire, buf, pc, len, torn, got>>

--------------------------------------------------------------------------------
Least(a, b) == IF a < b THEN a ELSE b
Rest(n) == SubSeq(buf, n + 1, Len(buf))

(* Faulty: little-endian.                                                  *)
LengthLittleEndian(bytes) ==
  Value(bytes[1]) + (IF Len(bytes) = 2 THEN 256 * Value(bytes[2]) ELSE 0)

(* u16::from_be_bytes of a buffer of two zeros into which bytes were read. *)
Length(bytes) ==
  256 * Value(bytes[1]) + (IF Len(bytes) = 2 THEN Value(bytes[2]) ELSE 0)

(* readable(), and a read that finds nothing: the end of the stream, or    *)
(* WouldBlock, which takes the readiness back.  NetworkBlocked both times. *)
ReadNothing ==
  /\ pc = "idle" /\ ready /\ buf = <<>>
  /\ ready' = eof
  /\ UNCHANGED <<cut, sent, wire, buf, eof, pc, len, torn, got>>

(* Faulty: takes the readiness back although the read succeeded.           *)
ReadLengthClearsReady ==
  /\ pc = "idle" /\ ready /\ buf # <<>>
  /\ len' = Length(SubSeq(buf, 1, Least(2, Len(buf))))
  /\ buf' = Rest(2)
  /\ pc' = "data"
  /\ ready' = FALSE
  /\ UNCHANGED <<cut, sent, wire, eof, torn, got>>

(* The first try_read: one or two bytes.                                   *)
ReadLength ==
  /\ pc = "idle" /\ ready /\ buf # <<>>
  /\ len' = Length(SubSeq(buf, 1, Least(2, Len(buf))))
  /\ buf' = Rest(2)
  /\ pc' = "data"
  /\ UNCHANGED <<cut, sent, wire, eof, ready, torn, got>>

(* Nothing has arrived after the length: WouldBlock, NetworkBlocked.  The  *)
(* length is lost, and what follows will be read as one.                   *)
LoseLength ==
  /\ pc = "data" /\ buf = <<>> /\ ~eof
  /\ pc' = "idle" /\ ready' = FALSE
  /\ UNCHANGED <<cut, sent, wire, buf, eof, len, torn, got>>

(* Faulty: takes what is there for the message, whatever its length.       *)
ReadDataUnchecked ==
  LET n == Least(len, Len(buf)) IN
  /\ pc = "data" /\ (buf # <<>> \/ eof)
  /\ buf' = Rest(n)
  /\ got' = Append(got, SubSeq(buf, 1, n)) /\ pc' = "idle"
  /\ UNCHANGED <<cut, sent, wire, eof, ready, len, torn>>

(* Faulty: a buffer of fixed size, and all of it for the message.          *)
ReadDataFixedBuffer ==
  LET n == Least(64, Len(buf)) IN
  /\ pc = "data" /\ (buf # <<>> \/ eof)
  /\ buf' = Rest(n)
  /\ got' = Append(got, SubSeq(buf, 1, n)) /\ pc' = "idle"
  /\ UNCHANGED <<cut, sent, wire, eof, ready, len, torn>>

(* The second: at most len bytes, into a Vec of that capacity; one of      *)
(* capacity 0 is grown to 64 bytes before the read.  Any other number than *)
(* len is a BadMsg, which is fatal.                                        *)
ReadData ==
  LET n == Least(IF len = 0 THEN 64 ELSE len, Len(buf)) IN
  /\ pc = "data" /\ (buf # <<>> \/ eof)
  /\ buf' = Rest(n)
  /\ IF n = len
     THEN got' = Append(got, SubSeq(buf, 1, n)) /\ pc' = "idle"
     ELSE pc' = "failed" /\ UNCHANGED got
  /\ UNCHANGED <<cut, sent, wire, eof, ready, len, torn>>

Read == ReadNothing \/ ReadLength \/ LoseLength \/ ReadData

(* The reader has failed, and nobody is left to read.                      *)
Terminating == pc = "failed" /\ UNCHANGED vars

Next == Write \/ Arrive \/ PeerCloses \/ Read \/ Terminating

(* What was written arrives, and the reader is polled again and again.     *)
Spec == Init /\ [][Next]_vars /\ WF_vars(Arrive) /\ WF_vars(Read)

--------------------------------------------------------------------------------
(* PROPERTIES                                                              *)

IsMessage(d) == \E m \in 1..sent : d = Data(m)

(* Whatever the stream cuts, messages are received in order and at most    *)
(* once; if it cuts nothing, none is lost, and nothing else is received.   *)
Received == [i \in DOMAIN got |-> IF IsMessage(got[i]) THEN got[i][1][1] ELSE 0]

Ch == INSTANCE Channel WITH received <- Received, reliable <- (cut = "none")
ImplementsChannel == Ch!Spec

(* A stream that cuts messages makes read_msg lose some and fail on others, *)
(* but never return one that was not sent: only a write that was cut short *)
(* makes the next message complete it.  It needs that fewer bytes are      *)
(* unread than a length that begins with a data byte announces             *)
(* (FramingProofs, BacklogSmall): with few Messages they always are.       *)
NoForgery == \A i \in DOMAIN got : IsMessage(got[i]) \/ torn

(* read_msg fails only on a stream that was cut.                           *)
BadMsgMeansCut == pc = "failed" => cut # "none"

(* As long as nothing is cut, every message is received, however the two   *)
(* reads of a message interleave with arrivals.                            *)
EveryMessageArrives ==
  \A m \in 1..Messages : (cut = "none" /\ sent >= m) ~> (Len(got) >= m)
================================================================================
