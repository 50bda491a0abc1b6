----------------------------- MODULE FramingProofs -----------------------------
(***************************************************************************)
(* Safety of module Framing for messages of any length and any number of   *)
(* them: it implements Channel, read_msg fails only on a stream that was   *)
(* cut, and forges no message as long as the backlog is small.             *)
(***************************************************************************)
EXTENDS Framing, SequenceTheorems, TLAPS

Bytes == {<<m, i>> : m \in Nat \ {0}, i \in 0..(K + 1)}

(* What has been written and not read, whether it has arrived or not.      *)
Stream == buf \o wire

(* Byte a comes before byte b.                                             *)
Precedes(a, b) == a[1] < b[1] \/ (a[1] = b[1] /\ a[2] < b[2])

TypeInv ==
  /\ cut \in Cuts /\ sent \in Nat /\ len \in Nat
  /\ wire \in Seq(Bytes) /\ buf \in Seq(Bytes) /\ got \in Seq(Seq(Bytes))
  /\ eof \in BOOLEAN /\ torn \in BOOLEAN /\ ready \in BOOLEAN
  /\ pc \in {"idle", "data", "failed"}
  /\ torn => cut = "writes"
  /\ eof => wire = <<>>

(* The bytes are in the order in which they were written.                  *)
Sorted(s) == \A i, j \in DOMAIN s : i < j => Precedes(s[i], s[j])

(* Bytes s are left of messages 1..n and bytes g[1], g[2], ... were taken. *)
Ordered(s, n, g) ==
  /\ Sorted(s)
  /\ \A i \in DOMAIN s : s[i][1] <= n
  /\ \A k \in DOMAIN g : \A i \in DOMAIN g[k] :
       /\ g[k][i][1] <= n
       /\ \A j \in DOMAIN s : Precedes(g[k][i], s[j])
  /\ \A k, l \in DOMAIN g : k < l =>
       \A i \in DOMAIN g[k] : \A j \in DOMAIN g[l] : Precedes(g[k][i], g[l][j])

OrderInv == Ordered(Stream, sent, got)

(* From any of its bytes on, the rest of a message is there.               *)
Complete(s) ==
  \A i \in DOMAIN s : \A x \in s[i][2]..(K + 1) :
    /\ i + (x - s[i][2]) \in DOMAIN s
    /\ s[i + (x - s[i][2])] = <<s[i][1], x>>

(* As long as no write was torn: the length that was read is the right one,*)
(* or that of the first byte alone, or one made of other bytes.            *)
LengthInv ==
  ~torn =>
    /\ Complete(Stream)
    /\ pc = "data" => \/ len = K /\ Stream # <<>> /\ Stream[1][2] = 2
                      \/ len = 0 /\ Stream # <<>>
                      \/ len >= 256 * Least(K, Character)

(* If nothing is cut, the reader is at a message's beginning or, between   *)
(* its two reads, at the beginning of its data, all of which has arrived.  *)
Consecutive(s) ==
  \A i \in DOMAIN s : s[i][2] = K + 1 /\ i + 1 \in DOMAIN s => s[i + 1] = <<s[i][1] + 1, 0>>

WholeInv ==
  cut = "none" =>
    /\ Consecutive(Stream)
    /\ buf # <<>> => buf[Len(buf)][2] = K + 1
    /\ IF Stream = <<>> THEN sent = Len(got) ELSE Stream[Len(Stream)] = <<sent, K + 1>>
    /\ pc = "idle" => (Stream # <<>> => Stream[1] = <<Len(got) + 1, 0>>)
    /\ pc = "data" => len = K /\ buf # <<>> /\ Stream[1] = <<Len(got) + 1, 2>>
    /\ pc # "failed"

IInv == TypeInv /\ OrderInv /\ LengthInv /\ WholeInv

--------------------------------------------------------------------------------
(* SEQUENCES OF BYTES                                                      *)

LEMMA Bounds == K \in Nat /\ K >= 1 /\ K + 1 \in Nat /\ K + 2 \in Nat /\ Messages \in Nat
  BY FramingAssumption DEF FramingAssumption

LEMMA ByteFacts ==
  /\ \A b \in Bytes : /\ b = <<b[1], b[2]>> /\ b[1] \in Nat /\ b[1] >= 1
                      /\ b[2] \in Nat /\ b[2] <= K + 1
  /\ \A m \in Nat, i \in Nat : m >= 1 /\ i <= K + 1 => <<m, i>> \in Bytes
  BY Bounds DEF Bytes

(* Two sequences in a row, read position by position.                      *)
LEMMA Concat ==
  ASSUME NEW S, NEW s \in Seq(S), NEW t \in Seq(S)
  PROVE  /\ s \o t \in Seq(S) /\ Len(s \o t) = Len(s) + Len(t)
         /\ DOMAIN (s \o t) = 1..(Len(s) + Len(t))
         /\ \A i \in 1..Len(s) : (s \o t)[i] = s[i]
         /\ \A i \in 1..Len(t) : (s \o t)[Len(s) + i] = t[i]
<1> DEFINE m == Len(s)
           n == Len(t)
<1>0. m \in Nat /\ n \in Nat
  BY LenProperties
<1>1. /\ s \o t \in Seq(S) /\ Len(s \o t) = m + n
      /\ \A i \in 1..(m + n) : (s \o t)[i] = IF i <= m THEN s[i] ELSE t[i - m]
  BY ConcatProperties
<1>2. DOMAIN (s \o t) = 1..(m + n)
  BY <1>1, LenProperties
<1> HIDE DEF m, n
<1>3. \A i \in 1..m : (s \o t)[i] = s[i]
  BY <1>0, <1>1
<1>4. \A i \in 1..n : m + i \in 1..(m + n) /\ ~(m + i <= m) /\ (m + i) - m = i
  BY <1>0
<1>5. \A i \in 1..n : (s \o t)[m + i] = t[i]
  BY <1>1, <1>4
<1> QED BY <1>1, <1>2, <1>3, <1>5 DEF m, n

LEMMA Associative ==
  \A b \in Seq(Bytes), c \in Seq(Bytes), d \in Seq(Bytes) : (b \o c) \o d = b \o (c \o d)
  BY ConcatAssociative

(* The first n elements, and the rest.                                     *)
LEMMA Cut ==
  ASSUME NEW S, NEW s \in Seq(S), NEW n \in 0..Len(s)
  PROVE  /\ SubSeq(s, 1, n) \in Seq(S) /\ Len(SubSeq(s, 1, n)) = n
         /\ \A i \in 1..n : SubSeq(s, 1, n)[i] = s[i]
         /\ SubSeq(s, n + 1, Len(s)) \in Seq(S) /\ Len(SubSeq(s, n + 1, Len(s))) = Len(s) - n
         /\ \A i \in 1..(Len(s) - n) : SubSeq(s, n + 1, Len(s))[i] = s[n + i]
<1>1. Len(s) \in Nat /\ n \in Nat /\ n <= Len(s)
  BY LenProperties
<1>2. \A i \in 1..n : s[i] \in S
  BY <1>1, ElementOfSeq
<1>3. \A i \in (n + 1)..Len(s) : s[i] \in S
  BY <1>1, ElementOfSeq
<1>4. /\ SubSeq(s, 1, n) \in Seq(S)
      /\ Len(SubSeq(s, 1, n)) = IF 1 <= n THEN n - 1 + 1 ELSE 0
      /\ \A i \in 1..(n - 1 + 1) : SubSeq(s, 1, n)[i] = s[1 + i - 1]
  BY <1>1, <1>2, SubSeqProperties
<1>5. /\ SubSeq(s, n + 1, Len(s)) \in Seq(S)
      /\ Len(SubSeq(s, n + 1, Len(s))) = IF n + 1 <= Len(s) THEN Len(s) - (n + 1) + 1 ELSE 0
      /\ \A i \in 1..(Len(s) - (n + 1) + 1) : SubSeq(s, n + 1, Len(s))[i] = s[(n + 1) + i - 1]
  BY <1>1, <1>3, SubSeqProperties
<1>6. \A i \in 1..n : SubSeq(s, 1, n)[i] = s[i]
  BY <1>1, <1>4
<1>7. \A i \in 1..(Len(s) - n) : SubSeq(s, n + 1, Len(s))[i] = s[n + i]
  BY <1>1, <1>5
<1>8. Len(SubSeq(s, 1, n)) = n /\ Len(SubSeq(s, n + 1, Len(s))) = Len(s) - n
  BY <1>1, <1>4, <1>5
<1> QED BY <1>4, <1>5, <1>6, <1>7, <1>8

(* What a message looks like on the wire.                                  *)
LEMMA FrameFacts ==
  ASSUME NEW m \in Nat, m >= 1
  PROVE  /\ Frame(m) \in Seq(Bytes) /\ Len(Frame(m)) = K + 2
         /\ \A i \in 1..(K + 2) : Frame(m)[i] = <<m, i - 1>>
         /\ Data(m) \in Seq(Bytes) /\ Len(Data(m)) = K /\ DOMAIN Data(m) = 1..K
         /\ \A i \in 1..K : Data(m)[i] = <<m, i + 1>>
<1> DEFINE head == <<<<m, 0>>, <<m, 1>>>>
<1>1. <<m, 0>> \in Bytes /\ <<m, 1>> \in Bytes
  BY Bounds, ByteFacts
<1>2. head \in Seq(Bytes) /\ Len(head) = 2 /\ head[1] = <<m, 0>> /\ head[2] = <<m, 1>>
  BY <1>1
<1>3. \A i \in 1..K : Data(m)[i] = <<m, i + 1>> /\ <<m, i + 1>> \in Bytes
  BY Bounds, ByteFacts DEF Data
<1>4. Data(m) \in [1..K -> Bytes]
  BY <1>3 DEF Data
<1>5. Data(m) \in Seq(Bytes) /\ Len(Data(m)) = K /\ DOMAIN Data(m) = 1..K
  BY <1>4, Bounds
<1>6. Frame(m) = head \o Data(m)
  BY DEF Frame
<1> DEFINE d == Data(m)
<1> HIDE DEF head, d
<1>7. head \in Seq(Bytes) /\ d \in Seq(Bytes)
  BY <1>2, <1>5 DEF d
<1>8. /\ head \o d \in Seq(Bytes) /\ Len(head \o d) = Len(head) + Len(d)
      /\ \A i \in 1..Len(head) : (head \o d)[i] = head[i]
      /\ \A i \in 1..Len(d) : (head \o d)[Len(head) + i] = d[i]
  BY <1>7, Concat
<1>9. Len(head) = 2 /\ Len(d) = K /\ Frame(m) = head \o d
  BY <1>2, <1>5, <1>6 DEF d
<1>10. ASSUME NEW i \in 1..(K + 2) PROVE Frame(m)[i] = <<m, i - 1>>
  <2>1. CASE i <= 2
    <3>1. i \in {1, 2} /\ i \in 1..2
      BY <2>1
    <3> QED BY <1>2, <1>8, <1>9, <3>1
  <2>2. CASE i > 2
    <3>1. i - 2 \in 1..K /\ 2 + (i - 2) = i /\ (i - 2) + 1 = i - 1
      BY <2>2, Bounds
    <3>2. Frame(m)[i] = d[i - 2]
      BY <1>8, <1>9, <3>1
    <3>3. d[i - 2] = <<m, (i - 2) + 1>>
      BY <1>3, <3>1 DEF d
    <3> QED BY <3>1, <3>2, <3>3
  <2> QED BY <2>1, <2>2
<1>11. Len(Frame(m)) = K + 2
  BY <1>8, <1>9, Bounds
<1> QED BY <1>3, <1>5, <1>8, <1>9, <1>10, <1>11

(* The stream is what has arrived and then what has not.                   *)
LEMMA StreamFacts ==
  ASSUME buf \in Seq(Bytes), wire \in Seq(Bytes)
  PROVE  /\ Stream \in Seq(Bytes)
         /\ Len(buf) \in Nat /\ Len(wire) \in Nat /\ Len(Stream) \in Nat
         /\ Len(Stream) = Len(buf) + Len(wire) /\ DOMAIN Stream = 1..Len(Stream)
         /\ \A i \in 1..Len(buf) : Stream[i] = buf[i]
         /\ \A i \in 1..Len(wire) : Stream[Len(buf) + i] = wire[i]
         /\ \A i \in DOMAIN Stream : Stream[i] \in Bytes
<1>1. Len(buf) \in Nat /\ Len(wire) \in Nat
  BY LenProperties
<1>2. /\ buf \o wire \in Seq(Bytes) /\ Len(buf \o wire) = Len(buf) + Len(wire)
      /\ DOMAIN (buf \o wire) = 1..(Len(buf) + Len(wire))
      /\ \A i \in 1..Len(buf) : (buf \o wire)[i] = buf[i]
      /\ \A i \in 1..Len(wire) : (buf \o wire)[Len(buf) + i] = wire[i]
  BY Concat
<1>3. \A i \in DOMAIN (buf \o wire) : (buf \o wire)[i] \in Bytes
  <2> DEFINE t == buf \o wire
  <2>1. t \in Seq(Bytes)
    BY <1>2
  <2> HIDE DEF t
  <2>2. DOMAIN t = 1..Len(t)
    BY <2>1, LenProperties
  <2>3. \A i \in DOMAIN t : t[i] \in Bytes
    BY <2>1, <2>2, ElementOfSeq
  <2> QED BY <2>3 DEF t
<1> QED BY <1>1, <1>2, <1>3 DEF Stream

--------------------------------------------------------------------------------
(* WHAT A STEP DOES TO A SEQUENCE OF BYTES                                 *)

(* Sequence t is s without its first k bytes.                              *)
Dropped(s, t, k) ==
  /\ k \in 0..Len(s) /\ Len(t) = Len(s) - k
  /\ \A i \in 1..Len(t) : t[i] = s[k + i]

(* Sequence t is s and then the first n bytes of message m.                *)
Extended(s, t, m, n) ==
  /\ n \in 1..(K + 2) /\ Len(t) = Len(s) + n
  /\ \A i \in 1..Len(s) : t[i] = s[i]
  /\ \A i \in 1..n : t[Len(s) + i] = <<m, i - 1>>

(* Order, completeness and consecutiveness survive in what is left.        *)
LEMMA DroppedFacts ==
  ASSUME NEW s \in Seq(Bytes), NEW t \in Seq(Bytes), NEW k, Dropped(s, t, k)
  PROVE  /\ Sorted(s) => Sorted(t)
         /\ Complete(s) => Complete(t)
         /\ Consecutive(s) => Consecutive(t)
         /\ Len(t) > 0 => t[Len(t)] = s[Len(s)]
         /\ \A i \in DOMAIN t : k + i \in DOMAIN s /\ t[i] = s[k + i]
         /\ Sorted(s) => \A i \in 1..k : \A j \in DOMAIN t : Precedes(s[i], t[j])
<1> DEFINE ls == Len(s)
           lt == Len(t)
<1>1. ls \in Nat /\ lt \in Nat /\ DOMAIN s = 1..ls /\ DOMAIN t = 1..lt
  BY LenProperties
<1>2. k \in Nat /\ k <= ls /\ lt = ls - k /\ \A i \in 1..lt : t[i] = s[k + i]
  BY <1>1 DEF Dropped
<1>3. \A i \in 1..lt : s[k + i] \in Bytes
  <2> TAKE i \in 1..lt
  <2>1. k + i \in 1..ls
    BY <1>1, <1>2
  <2> QED BY <2>1, ElementOfSeq
<1>4. \A i \in 1..lt : s[k + i][2] \in Nat /\ s[k + i][2] <= K + 1
  BY <1>3, ByteFacts
<1> HIDE DEF ls, lt
<1>5. \A i \in 1..lt : k + i \in 1..ls /\ t[i] = s[k + i]
  BY <1>1, <1>2
<1>6. Sorted(s) => Sorted(t)
  <2> SUFFICES ASSUME Sorted(s), NEW i \in 1..lt, NEW j \in 1..lt, i < j
               PROVE  Precedes(t[i], t[j])
    BY <1>1 DEF Sorted
  <2>1. k + i \in 1..ls /\ k + j \in 1..ls /\ k + i < k + j
    BY <1>1, <1>2
  <2>2. Precedes(s[k + i], s[k + j])
    BY <1>1, <2>1 DEF Sorted
  <2> QED BY <1>5, <2>2
<1>7. ASSUME Complete(s) PROVE Complete(t)
  <2> SUFFICES ASSUME NEW i \in 1..lt, NEW x \in t[i][2]..(K + 1)
               PROVE  /\ i + (x - t[i][2]) \in 1..lt
                      /\ t[i + (x - t[i][2])] = <<t[i][1], x>>
    BY <1>1 DEF Complete
  <2> DEFINE j == i + (x - t[i][2])
  <2>1. t[i] = s[k + i] /\ k + i \in 1..ls /\ t[i][2] \in Nat
    BY <1>4, <1>5
  <2>2. (k + i) + (x - s[k + i][2]) \in 1..ls /\ s[(k + i) + (x - s[k + i][2])] = <<s[k + i][1], x>>
    BY <1>1, <1>7, <2>1 DEF Complete
  <2> DEFINE y == t[i][2]
  <2>a. y \in Nat /\ x \in y..(K + 1) /\ j = i + (x - y) /\ s[k + i][2] = y
    BY <2>1
  <2> HIDE DEF y, j
  <2>b. x \in Int /\ x >= y /\ i \in Int /\ i >= 1
    BY <1>1, <2>a, Bounds
  <2>3. (k + i) + (x - s[k + i][2]) = k + j /\ j \in Int /\ j >= 1
    BY <1>2, <2>a, <2>b
  <2>4. j \in 1..lt
    BY <1>1, <1>2, <2>2, <2>3
  <2>5. t[j] = s[k + j]
    BY <1>5, <2>4
  <2> QED BY <2>1, <2>2, <2>3, <2>4, <2>5 DEF y, j
<1>8. ASSUME Consecutive(s) PROVE Consecutive(t)
  <2> SUFFICES ASSUME NEW i \in 1..lt, t[i][2] = K + 1, i + 1 \in 1..lt
               PROVE  t[i + 1] = <<t[i][1] + 1, 0>>
    BY <1>1 DEF Consecutive
  <2>1. t[i] = s[k + i] /\ t[i + 1] = s[k + (i + 1)] /\ k + i \in 1..ls
        /\ k + (i + 1) = (k + i) + 1 /\ k + (i + 1) \in 1..ls
    BY <1>1, <1>2, <1>5
  <2> QED BY <1>1, <1>8, <2>1 DEF Consecutive
<1>9. lt > 0 => t[lt] = s[ls]
  BY <1>1, <1>2
<1>10. Sorted(s) => \A i \in 1..k : \A j \in 1..lt : Precedes(s[i], t[j])
  <2> SUFFICES ASSUME Sorted(s), NEW i \in 1..k, NEW j \in 1..lt
               PROVE  Precedes(s[i], t[j])
    OBVIOUS
  <2>1. i \in 1..ls /\ k + j \in 1..ls /\ i < k + j
    BY <1>1, <1>2
  <2>2. Precedes(s[i], s[k + j])
    BY <1>1, <2>1 DEF Sorted
  <2> QED BY <1>5, <2>2
<1> QED BY <1>1, <1>5, <1>6, <1>7, <1>8, <1>9, <1>10 DEF ls, lt

(* They survive the bytes of a later message, if all of them are written.  *)
LEMMA ExtendedFacts ==
  ASSUME NEW s \in Seq(Bytes), NEW t \in Seq(Bytes), NEW m \in Nat, NEW n, m >= 1,
         Extended(s, t, m, n), \A i \in DOMAIN s : s[i][1] < m
  PROVE  /\ Sorted(s) => Sorted(t)
         /\ Complete(s) /\ n = K + 2 => Complete(t)
         /\ \A i \in DOMAIN t : t[i][1] <= m
         /\ \A i \in DOMAIN t : i \notin DOMAIN s => t[i][1] = m
         /\ /\ Consecutive(s) /\ n = K + 2
            /\ s # <<>> => s[Len(s)] = <<m - 1, K + 1>>
            => Consecutive(t) /\ t[Len(t)] = <<m, K + 1>>
<1> DEFINE ls == Len(s)
           lt == Len(t)
<1>1. ls \in Nat /\ lt \in Nat /\ DOMAIN s = 1..ls /\ DOMAIN t = 1..lt /\ (s # <<>> <=> ls > 0)
  BY LenProperties, EmptySeq
<1>0. n \in 1..(K + 2) /\ lt = ls + n
  BY DEF Extended
<1>2. /\ n \in Nat /\ n >= 1 /\ n <= K + 2 /\ lt = ls + n /\ \A i \in 1..ls : t[i] = s[i]
      /\ \A i \in 1..n : t[ls + i] = <<m, i - 1>>
  <2> HIDE DEF lt
  <2>1. n \in Nat /\ n >= 1 /\ n <= K + 2
    BY <1>0, Bounds
  <2> QED BY <1>0, <2>1, Zenon DEF Extended
<1>3. \A i \in 1..ls : s[i][1] \in Nat /\ s[i][2] \in Nat /\ s[i][1] < m /\ s[i][2] <= K + 1
  BY <1>1, ElementOfSeq, ByteFacts
<1> HIDE DEF ls, lt
<1>4. \A i \in 1..lt : i <= ls \/ (i - ls \in 1..n /\ t[i] = <<m, (i - ls) - 1>>)
  <2> TAKE i \in 1..lt
  <2>1. CASE i > ls
    <3>1. i - ls \in 1..n /\ ls + (i - ls) = i
      BY <1>1, <1>2, <2>1
    <3> QED BY <1>2, <3>1
  <2> QED BY <1>1, <2>1
<1>5. \A i \in 1..lt : i <= ls => i \in 1..ls /\ t[i] = s[i]
  BY <1>1, <1>2
<1>6. \A i \in 1..lt : i > ls => i - ls \in 1..n /\ t[i] = <<m, (i - ls) - 1>>
  BY <1>1, <1>4
<1>7. ASSUME Sorted(s) PROVE Sorted(t)
  <2> SUFFICES ASSUME NEW i \in 1..lt, NEW j \in 1..lt, i < j PROVE Precedes(t[i], t[j])
    BY <1>1 DEF Sorted
  <2>1. CASE j <= ls
    BY <1>1, <1>5, <1>7, <2>1 DEF Sorted
  <2>2. CASE i <= ls /\ j > ls
    <3>1. t[i][1] < m /\ t[j][1] = m
      BY <1>3, <1>5, <1>6, <2>2
    <3> QED BY <3>1 DEF Precedes
  <2>3. CASE i > ls
    <3>1. t[i] = <<m, (i - ls) - 1>> /\ t[j] = <<m, (j - ls) - 1>>
      BY <1>1, <1>6, <2>3
    <3>2. t[i][1] = m /\ t[j][1] = m /\ t[i][2] = (i - ls) - 1 /\ t[j][2] = (j - ls) - 1
      BY <3>1
    <3>3. (i - ls) - 1 < (j - ls) - 1
      BY <1>1
    <3> QED BY <3>2, <3>3 DEF Precedes
  <2> QED BY <1>1, <2>1, <2>2, <2>3
<1>8. ASSUME Complete(s), n = K + 2 PROVE Complete(t)
  <2> SUFFICES ASSUME NEW i \in 1..lt, NEW x \in t[i][2]..(K + 1)
               PROVE  /\ i + (x - t[i][2]) \in 1..lt
                      /\ t[i + (x - t[i][2])] = <<t[i][1], x>>
    BY <1>1 DEF Complete
  <2>1. CASE i <= ls
    <3>1. t[i] = s[i] /\ i \in 1..ls
      BY <1>5, <2>1
    <3>2. i + (x - s[i][2]) \in 1..ls /\ s[i + (x - s[i][2])] = <<s[i][1], x>>
      BY <1>1, <1>8, <3>1 DEF Complete
    <3>3. i + (x - s[i][2]) \in 1..lt
      BY <1>1, <1>2, <3>2
    <3> QED BY <1>2, <3>1, <3>2, <3>3
  <2>2. CASE i > ls
    <3>1. t[i] = <<m, (i - ls) - 1>> /\ i - ls \in 1..n
      BY <1>6, <2>2
    <3>2. t[i][2] = (i - ls) - 1 /\ t[i][1] = m
      BY <3>1
    <3>3. x \in Nat /\ x <= K + 1 /\ x >= (i - ls) - 1
      BY <1>1, <3>1, <3>2, Bounds, SMTT(30)
    <3>4. i + (x - t[i][2]) = ls + (x + 1) /\ x + 1 \in 1..n /\ (x + 1) - 1 = x
      BY <1>1, <1>8, <3>2, <3>3, Bounds
    <3>5. t[ls + (x + 1)] = <<m, x>>
      BY <1>2, <3>4
    <3>6. ls + (x + 1) \in 1..lt
      BY <1>1, <1>2, <3>4
    <3> QED BY <3>2, <3>4, <3>5, <3>6
  <2> QED BY <1>1, <2>1, <2>2
<1>9. \A i \in 1..lt : t[i][1] <= m /\ (i \notin 1..ls => t[i][1] = m)
  <2> TAKE i \in 1..lt
  <2>1. CASE i <= ls
    BY <1>3, <1>5, <2>1
  <2>2. CASE i > ls
    <3>1. t[i] = <<m, (i - ls) - 1>>
      BY <1>6, <2>2
    <3> QED BY <3>1
  <2> QED BY <1>1, <2>1, <2>2
<1>10. ASSUME Consecutive(s), n = K + 2, s # <<>> => s[Len(s)] = <<m - 1, K + 1>>
       PROVE  Consecutive(t) /\ t[lt] = <<m, K + 1>>
  <2>0. ls > 0 => s[ls] = <<m - 1, K + 1>>
    BY <1>1, <1>10 DEF ls
  <2>1. t[lt] = <<m, K + 1>>
    <3>1. lt = ls + (K + 2) /\ K + 2 \in 1..n /\ (K + 2) - 1 = K + 1
      BY <1>2, <1>10, Bounds
    <3> QED BY <1>2, <3>1
  <2>2. ASSUME NEW i \in 1..lt, t[i][2] = K + 1, i + 1 \in 1..lt
        PROVE  t[i + 1] = <<t[i][1] + 1, 0>>
    <3>1. CASE i + 1 <= ls
      <4>1. i \in 1..ls /\ i + 1 \in 1..ls /\ t[i] = s[i] /\ t[i + 1] = s[i + 1]
        BY <1>1, <1>2, <3>1
      <4> QED BY <1>1, <1>10, <2>2, <4>1 DEF Consecutive
    <3>2. CASE i = ls
      <4>1. t[i] = <<m - 1, K + 1>> /\ (i + 1) - ls = 1
        BY <1>1, <1>5, <2>0, <3>2
      <4>2. t[i + 1] = <<m, 0>>
        BY <1>1, <1>6, <2>2, <3>2, <4>1
      <4>3. t[i][1] + 1 = m
        BY <4>1
      <4> QED BY <4>2, <4>3
    <3>3. CASE i > ls
      <4>1. t[i] = <<m, (i - ls) - 1>> /\ i + 1 <= ls + (K + 2)
        BY <1>1, <1>2, <1>6, <1>10, <2>2, <3>3
      <4>2. t[i][2] = (i - ls) - 1
        BY <4>1
      <4> QED BY <1>1, <2>2, <4>1, <4>2, Bounds
    <3> QED BY <1>1, <3>1, <3>2, <3>3
  <2> QED BY <1>1, <2>1, <2>2 DEF Consecutive
<1> QED BY <1>1, <1>7, <1>8, <1>9, <1>10 DEF ls, lt

(* Bytes arrive: they only change places.                                  *)
Moved(b, w, n, b2, w2) == b2 = b \o SubSeq(w, 1, n) /\ w2 = SubSeq(w, n + 1, Len(w))

LEMMA MoveBytes ==
  ASSUME NEW b \in Seq(Bytes), NEW w \in Seq(Bytes), NEW n \in 1..Len(w),
         NEW b2, NEW w2, Moved(b, w, n, b2, w2)
  PROVE  /\ b2 \in Seq(Bytes) /\ w2 \in Seq(Bytes)
         /\ b2 \o w2 = b \o w /\ b2 # <<>> /\ b2[Len(b2)] = w[n]
<1> DEFINE u == SubSeq(w, 1, n)
           lb == Len(b)
           lw == Len(w)
<1>1. lb \in Nat /\ lw \in Nat /\ n \in Nat /\ n >= 1 /\ n <= lw /\ n \in 0..Len(w)
  BY LenProperties
<1>2. /\ u \in Seq(Bytes) /\ Len(u) = n /\ (\A i \in 1..n : u[i] = w[i])
      /\ w2 \in Seq(Bytes) /\ Len(w2) = lw - n /\ (\A i \in 1..(lw - n) : w2[i] = w[n + i])
  BY <1>1, Cut DEF Moved
<1> HIDE DEF u
<1>3. u \in Seq(Bytes)
  BY <1>2
<1>4. /\ b \o u \in Seq(Bytes) /\ Len(b \o u) = lb + Len(u)
      /\ \A i \in 1..lb : (b \o u)[i] = b[i]
      /\ \A i \in 1..Len(u) : (b \o u)[lb + i] = u[i]
  BY <1>3, Concat
<1>5. b2 = b \o u
  BY DEF u, Moved
<1> DEFINE lu == Len(u)
<1> HIDE DEF lb, lw, lu
<1>6. b2 \in Seq(Bytes) /\ Len(b2) = lb + n /\ \A i \in 1..n : b2[lb + i] = w[i]
  BY <1>2, <1>4, <1>5
<1>7. b2 # <<>> /\ b2[Len(b2)] = w[n]
  <2>1. lb + n # 0 /\ n \in 1..n
    BY <1>1
  <2> QED BY <1>6, <2>1, EmptySeq
<1>8. u \o w2 = w
  <2>1. w2 \in Seq(Bytes)
    BY <1>2
  <2>2. /\ u \o w2 \in Seq(Bytes) /\ Len(u \o w2) = Len(u) + Len(w2)
        /\ \A i \in 1..Len(u) : (u \o w2)[i] = u[i]
        /\ \A i \in 1..Len(w2) : (u \o w2)[Len(u) + i] = w2[i]
    BY <1>3, <2>1, Concat
  <2> DEFINE t == u \o w2
  <2> HIDE DEF t
  <2>3. Len(t) = Len(w)
    BY <1>1, <1>2, <2>2 DEF t, lw
  <2>4. ASSUME NEW i \in 1..Len(t) PROVE t[i] = w[i]
    <3>1. i \in Nat /\ i >= 1 /\ i <= lw
      BY <1>1, <2>3 DEF lw
    <3>2. CASE i <= n
      <4>1. i \in 1..n
        BY <1>1, <3>1, <3>2
      <4>2. u[i] = w[i] /\ i \in 1..Len(u)
        BY <1>2, <4>1
      <4>3. (u \o w2)[i] = u[i]
        BY <2>2, <4>2
      <4> QED BY <4>2, <4>3 DEF t
    <3>3. CASE i > n
      <4>1. i - n \in 1..(lw - n) /\ n + (i - n) = i
        BY <1>1, <3>1, <3>3
      <4>2. w2[i - n] = w[i] /\ i - n \in 1..Len(w2) /\ Len(u) = n
        BY <1>2, <4>1
      <4>3. (u \o w2)[Len(u) + (i - n)] = w2[i - n]
        BY <2>2, <4>2
      <4> QED BY <4>1, <4>2, <4>3 DEF t
    <3> QED BY <1>1, <3>1, <3>2, <3>3
  <2>5. t \in Seq(Bytes)
    BY <2>2 DEF t
  <2>6. t = w
    BY <2>3, <2>4, <2>5, SeqEqual
  <2> QED BY <2>6 DEF t
<1>9. (b \o u) \o w2 = b \o (u \o w2)
  <2>1. w2 \in Seq(Bytes)
    BY <1>2
  <2> QED BY <1>3, <2>1, Associative, ZenonT(30)
<1> QED BY <1>2, <1>5, <1>6, <1>7, <1>8, <1>9

(* Bytes are read: they leave the stream.                                  *)
LEMMA TakeBytes ==
  ASSUME NEW b \in Seq(Bytes), NEW w \in Seq(Bytes), NEW k \in 0..Len(b),
         NEW b2, b2 = SubSeq(b, k + 1, Len(b))
  PROVE  /\ b2 \in Seq(Bytes) /\ Len(b2) = Len(b) - k
         /\ b2 # <<>> => b2[Len(b2)] = b[Len(b)]
         /\ Dropped(b \o w, b2 \o w, k)
         /\ b2 \o w \in Seq(Bytes)
<1> DEFINE lb == Len(b)
           lw == Len(w)
<1>1. lb \in Nat /\ lw \in Nat /\ k \in Nat /\ k <= lb
  BY LenProperties
<1>2. b2 \in Seq(Bytes) /\ Len(b2) = lb - k /\ \A i \in 1..(lb - k) : b2[i] = b[k + i]
  BY Cut
<1>3. b2 \in Seq(Bytes)
  BY <1>2
<1>4. /\ b \o w \in Seq(Bytes) /\ Len(b \o w) = lb + lw
      /\ \A i \in 1..lb : (b \o w)[i] = b[i]
      /\ \A i \in 1..lw : (b \o w)[lb + i] = w[i]
  BY Concat
<1>a. ASSUME NEW c \in Seq(Bytes)
      PROVE  /\ c \o w \in Seq(Bytes) /\ Len(c \o w) = Len(c) + lw
             /\ \A i \in 1..Len(c) : (c \o w)[i] = c[i]
             /\ \A i \in 1..lw : (c \o w)[Len(c) + i] = w[i]
  BY Concat
<1>5. /\ b2 \o w \in Seq(Bytes) /\ Len(b2 \o w) = Len(b2) + lw
      /\ \A i \in 1..Len(b2) : (b2 \o w)[i] = b2[i]
      /\ \A i \in 1..lw : (b2 \o w)[Len(b2) + i] = w[i]
  BY <1>3, <1>a
<1> DEFINE s == b \o w
           t == b2 \o w
<1> HIDE DEF lb, lw, s, t
<1>6. Len(t) = (lb - k) + lw /\ Len(s) = lb + lw
  BY <1>2, <1>4, <1>5 DEF s, t
<1>7. ASSUME NEW i \in 1..Len(t) PROVE t[i] = s[k + i]
  <2>1. i \in Nat /\ i >= 1 /\ i <= (lb - k) + lw
    BY <1>1, <1>6
  <2>2. CASE i <= lb - k
    <3>1. i \in 1..(lb - k) /\ k + i \in 1..lb
      BY <1>1, <2>1, <2>2
    <3>2. b2[i] = b[k + i] /\ i \in 1..Len(b2)
      BY <1>2, <3>1
    <3>3. t[i] = b2[i]
      BY <1>5, <3>2 DEF t
    <3>4. s[k + i] = b[k + i]
      BY <1>4, <3>1 DEF s
    <3> QED BY <3>2, <3>3, <3>4
  <2>3. CASE i > lb - k
    <3>1. /\ i - (lb - k) \in 1..lw /\ (lb - k) + (i - (lb - k)) = i
          /\ lb + (i - (lb - k)) = k + i
      BY <1>1, <2>1, <2>3
    <3>2. t[i] = w[i - (lb - k)]
      <4>1. Len(b2) = lb - k
        BY <1>2
      <4> QED BY <1>5, <3>1, <4>1 DEF t
    <3>3. s[k + i] = w[i - (lb - k)]
      BY <1>4, <3>1 DEF s
    <3> QED BY <3>2, <3>3
  <2> QED BY <1>1, <2>1, <2>2, <2>3
<1>8. Dropped(s, t, k)
  <2>1. k \in 0..(lb + lw) /\ (lb - k) + lw = (lb + lw) - k
    BY <1>1
  <2> QED BY <1>6, <1>7, <2>1 DEF Dropped
<1>9. b2 # <<>> => b2[Len(b2)] = b[lb]
  <2> SUFFICES ASSUME b2 # <<>> PROVE b2[Len(b2)] = b[lb]
    OBVIOUS
  <2>1. Len(b2) # 0
    BY <1>3, EmptySeq
  <2>2. lb - k \in 1..(lb - k) /\ k + (lb - k) = lb
    BY <1>1, <1>2, <2>1
  <2> QED BY <1>2, <2>2
<1> QED BY <1>2, <1>5, <1>8, <1>9 DEF lb, s, t

(* A message is written, or its beginning.                                 *)
LEMMA PutBytes ==
  ASSUME NEW b \in Seq(Bytes), NEW w \in Seq(Bytes), NEW m \in Nat, m >= 1,
         NEW n \in 1..(K + 2), NEW w2, w2 = w \o SubSeq(Frame(m), 1, n)
  PROVE  /\ w2 \in Seq(Bytes) /\ b \o w2 \in Seq(Bytes)
         /\ Extended(b \o w, b \o w2, m, n)
<1> DEFINE f == SubSeq(Frame(m), 1, n)
           lb == Len(b)
           lw == Len(w)
<1>1. lb \in Nat /\ lw \in Nat /\ n \in Nat /\ n >= 1 /\ n <= K + 2
  BY LenProperties, Bounds
<1>2. f \in Seq(Bytes) /\ Len(f) = n /\ \A i \in 1..n : f[i] = <<m, i - 1>>
  <2> DEFINE F == Frame(m)
  <2>1. F \in Seq(Bytes) /\ Len(F) = K + 2 /\ \A i \in 1..(K + 2) : F[i] = <<m, i - 1>>
    BY FrameFacts
  <2> HIDE DEF F
  <2>2. n \in 0..Len(F) /\ F \in Seq(Bytes)
    BY <1>1, <2>1, Bounds
  <2>3. /\ SubSeq(F, 1, n) \in Seq(Bytes) /\ Len(SubSeq(F, 1, n)) = n
        /\ \A i \in 1..n : SubSeq(F, 1, n)[i] = F[i]
    BY <2>2, Cut
  <2>4. \A i \in 1..n : i \in 1..(K + 2)
    BY <1>1, Bounds
  <2> QED BY <2>1, <2>3, <2>4 DEF F
<1> HIDE DEF f
<1>3. f \in Seq(Bytes) /\ w2 = w \o f
  BY <1>2 DEF f
<1>4. /\ w \o f \in Seq(Bytes) /\ Len(w \o f) = lw + Len(f)
      /\ \A i \in 1..lw : (w \o f)[i] = w[i]
      /\ \A i \in 1..Len(f) : (w \o f)[lw + i] = f[i]
  BY <1>3, Concat
<1> DEFINE s == b \o w
<1>5. s \in Seq(Bytes) /\ Len(s) = lb + lw
  BY Concat
<1>6. b \o (w \o f) = s \o f
  <2>1. f \in Seq(Bytes)
    BY <1>2
  <2> QED BY <2>1, Associative, Zenon
<1> HIDE DEF s, lb, lw
<1>7. s \in Seq(Bytes)
  BY <1>5
<1>8. /\ s \o f \in Seq(Bytes) /\ Len(s \o f) = Len(s) + Len(f)
      /\ \A i \in 1..Len(s) : (s \o f)[i] = s[i]
      /\ \A i \in 1..Len(f) : (s \o f)[Len(s) + i] = f[i]
  BY <1>3, <1>7, Concat
<1> DEFINE t == b \o w2
<1>9. t = s \o f
  BY <1>3, <1>6
<1> HIDE DEF t
<1>10. Extended(s, t, m, n)
  BY <1>2, <1>8, <1>9 DEF Extended
<1> QED BY <1>3, <1>4, <1>8, <1>9, <1>10 DEF s, t

--------------------------------------------------------------------------------
(* ORDER                                                                   *)

LEMMA GotFacts ==
  ASSUME NEW g \in Seq(Seq(Bytes)), NEW k \in DOMAIN g
  PROVE  /\ k \in 1..Len(g) /\ g[k] \in Seq(Bytes) /\ DOMAIN g[k] = 1..Len(g[k])
         /\ \A i \in DOMAIN g[k] : g[k][i] \in Bytes
<1>1. k \in 1..Len(g)
  BY LenProperties
<1>2. g[k] \in Seq(Bytes)
  BY <1>1, ElementOfSeq
<1> DEFINE d == g[k]
<1> HIDE DEF d
<1>3. d \in Seq(Bytes)
  BY <1>2 DEF d
<1>4. DOMAIN d = 1..Len(d)
  BY <1>3, LenProperties
<1>5. \A i \in 1..Len(d) : d[i] \in Bytes
  BY <1>3, ElementOfSeq
<1> QED BY <1>1, <1>3, <1>4, <1>5 DEF d

(* Bytes that leave the stream ...                                         *)
LEMMA OrderedDropped ==
  ASSUME NEW s \in Seq(Bytes), NEW t \in Seq(Bytes), NEW n \in Nat, NEW k,
         NEW g \in Seq(Seq(Bytes)), Ordered(s, n, g), Dropped(s, t, k)
  PROVE  Ordered(t, n, g)
<1>1. Sorted(s)
  BY DEF Ordered
<1>2. Sorted(t) /\ \A i \in DOMAIN t : k + i \in DOMAIN s /\ t[i] = s[k + i]
  BY <1>1, DroppedFacts
<1> QED BY <1>2 DEF Ordered

(* ... and are taken for a message.                                        *)
LEMMA OrderedTaken ==
  ASSUME NEW s \in Seq(Bytes), NEW t \in Seq(Bytes), NEW n \in Nat, NEW k,
         NEW g \in Seq(Seq(Bytes)), Ordered(s, n, g), Dropped(s, t, k),
         NEW d \in Seq(Bytes), Len(d) = k, \A i \in 1..k : d[i] = s[i]
  PROVE  Ordered(t, n, Append(g, d))
<1> DEFINE h == Append(g, d)
           lg == Len(g)
<1>0. Sorted(s)
  BY DEF Ordered
<1>1. Ordered(t, n, g) /\ Sorted(s)
  BY <1>0, OrderedDropped
<1>2. /\ lg \in Nat /\ DOMAIN g = 1..lg /\ DOMAIN h = 1..(lg + 1)
      /\ \A x \in 1..lg : h[x] = g[x]
      /\ h[lg + 1] = d
  BY AppendProperties, LenProperties
<1>3. DOMAIN d = 1..k
  BY LenProperties
<1>4. \A i \in 1..k : i \in DOMAIN s
  <2>1. k \in 0..Len(s) /\ DOMAIN s = 1..Len(s) /\ Len(s) \in Nat
    BY LenProperties DEF Dropped
  <2> QED BY <2>1
<1>5. \A i \in 1..k : \A j \in DOMAIN t : Precedes(d[i], t[j])
  <2>1. \A i \in 1..k : \A j \in DOMAIN t : Precedes(s[i], t[j])
    BY <1>1, DroppedFacts
  <2> QED BY <2>1
<1> HIDE DEF h, lg
<1>6. ASSUME NEW x \in DOMAIN h PROVE (x \in DOMAIN g /\ h[x] = g[x]) \/ (x = lg + 1 /\ h[x] = d)
  BY <1>2
<1>7. ASSUME NEW x \in DOMAIN h, NEW i \in DOMAIN h[x]
      PROVE  h[x][i][1] <= n /\ \A j \in DOMAIN t : Precedes(h[x][i], t[j])
  <2>1. CASE x \in DOMAIN g /\ h[x] = g[x]
    BY <1>1, <1>7, <2>1 DEF Ordered
  <2>2. CASE h[x] = d
    <3>1. i \in 1..k /\ i \in DOMAIN s /\ d[i] = s[i]
      BY <1>3, <1>4, <1>7, <2>2
    <3>2. s[i][1] <= n
      BY <3>1 DEF Ordered
    <3> QED BY <1>5, <2>2, <3>1, <3>2
  <2> QED BY <1>6, <2>1, <2>2
<1>8. ASSUME NEW x \in DOMAIN h, NEW y \in DOMAIN h, x < y,
             NEW i \in DOMAIN h[x], NEW j \in DOMAIN h[y]
      PROVE  Precedes(h[x][i], h[y][j])
  <2>0. x \in DOMAIN g /\ h[x] = g[x]
    BY <1>2, <1>8
  <2>1. CASE y \in DOMAIN g /\ h[y] = g[y]
    BY <1>1, <1>8, <2>0, <2>1 DEF Ordered
  <2>2. CASE h[y] = d
    <3>1. j \in 1..k /\ j \in DOMAIN s /\ d[j] = s[j]
      BY <1>3, <1>4, <1>8, <2>2
    <3>2. Precedes(g[x][i], s[j])
      BY <1>8, <2>0, <3>1 DEF Ordered
    <3> QED BY <2>0, <2>2, <3>1, <3>2
  <2> QED BY <1>6, <2>1, <2>2
<1>9. Ordered(t, n, h)
  BY <1>1, <1>7, <1>8 DEF Ordered
<1> QED BY <1>9 DEF h

(* The next message comes after all that was written and taken before it.  *)
LEMMA OrderedExtended ==
  ASSUME NEW s \in Seq(Bytes), NEW t \in Seq(Bytes), NEW n \in Nat, NEW c,
         NEW g \in Seq(Seq(Bytes)), Ordered(s, n, g), Extended(s, t, n + 1, c)
  PROVE  Ordered(t, n + 1, g)
<1>1. Sorted(s) /\ \A i \in DOMAIN s : s[i][1] < n + 1
  <2>1. \A i \in DOMAIN s : s[i] \in Bytes
    BY LenProperties, ElementOfSeq
  <2>2. \A i \in DOMAIN s : s[i][1] \in Nat
    BY <2>1, ByteFacts
  <2> QED BY <2>2 DEF Ordered
<1>2. /\ Sorted(t)
      /\ \A i \in DOMAIN t : t[i][1] <= n + 1
      /\ \A i \in DOMAIN t : i \notin DOMAIN s => t[i][1] = n + 1
  <2>1. n + 1 \in Nat /\ n + 1 >= 1
    OBVIOUS
  <2> QED BY <1>1, <2>1, ExtendedFacts
<1>3. \A i \in DOMAIN s : t[i] = s[i]
  BY LenProperties DEF Extended
<1>4. ASSUME NEW k \in DOMAIN g, NEW i \in DOMAIN g[k]
      PROVE  g[k][i][1] <= n + 1 /\ \A j \in DOMAIN t : Precedes(g[k][i], t[j])
  <2>1. g[k][i][1] \in Nat /\ g[k][i][1] <= n
    <3>1. g[k][i] \in Bytes
      BY <1>4, GotFacts
    <3> QED BY <1>4, <3>1, ByteFacts DEF Ordered
  <2>2. ASSUME NEW j \in DOMAIN t PROVE Precedes(g[k][i], t[j])
    <3>1. CASE j \in DOMAIN s
      BY <1>3, <1>4, <3>1 DEF Ordered
    <3>2. CASE j \notin DOMAIN s
      <4>1. t[j][1] = n + 1
        BY <1>2, <3>2
      <4> QED BY <2>1, <4>1 DEF Precedes
    <3> QED BY <3>1, <3>2
  <2> QED BY <2>1, <2>2
<1> QED BY <1>2, <1>4 DEF Ordered

--------------------------------------------------------------------------------
(* THE STEPS                                                               *)

LEMMA InitIInv == Init => IInv
<1> SUFFICES ASSUME Init PROVE IInv
  OBVIOUS
<1>1. <<>> \in Seq(Bytes) /\ <<>> \in Seq(Seq(Bytes)) /\ wire = <<>> /\ buf = <<>> /\ got = <<>>
  BY EmptySeq DEF Init
<1>2. Stream = <<>>
  BY <1>1, ConcatEmptySeq DEF Stream
<1>3. TypeInv
  BY <1>1 DEF TypeInv, Init
<1>4. OrderInv
  BY <1>1, <1>2 DEF OrderInv, Ordered, Sorted
<1>5. LengthInv
  BY <1>2 DEF LengthInv, Complete, Init
<1>6. WholeInv
  BY <1>1, <1>2, EmptySeq DEF WholeInv, Consecutive, Init
<1> QED BY <1>3, <1>4, <1>5, <1>6 DEF IInv

(* What is read at once: the bytes of a length, or of data.                *)
LengthBytes == Least(2, Len(buf))
DataBytes == Least(IF len = 0 THEN 64 ELSE len, Len(buf))

(* Every step leaves the stream as it is, extends it or takes its first    *)
(* bytes.                                                                  *)
LEMMA WriteStream ==
  ASSUME TypeInv, Write
  PROVE  /\ sent + 1 \in Nat /\ sent + 1 >= 1 /\ wire' \in Seq(Bytes) /\ Stream' \in Seq(Bytes)
         /\ \E n \in 1..(K + 2) : /\ Extended(Stream, Stream', sent + 1, n)
                                  /\ n < K + 2 => cut = "writes"
                                  /\ torn' = (torn \/ n < K + 2)
<1>1. sent + 1 \in Nat /\ sent + 1 >= 1 /\ buf \in Seq(Bytes) /\ wire \in Seq(Bytes)
  BY DEF TypeInv
<1>2. PICK n \in 1..(K + 2) : /\ n < K + 2 => cut = "writes"
                              /\ wire' = wire \o SubSeq(Frame(sent + 1), 1, n)
                              /\ torn' = (torn \/ n < K + 2)
  BY DEF Write
<1> DEFINE m == sent + 1
           w == SubSeq(Frame(m), 1, n)
<1>a. m \in Nat /\ m >= 1 /\ wire' = wire \o w
  BY <1>1, <1>2
<1> HIDE DEF m
<1>b. /\ wire \o w \in Seq(Bytes) /\ buf \o (wire \o w) \in Seq(Bytes)
      /\ Extended(buf \o wire, buf \o (wire \o w), m, n)
  BY <1>1, <1>a, PutBytes
<1>3. /\ wire' \in Seq(Bytes) /\ buf \o wire' \in Seq(Bytes)
      /\ Extended(buf \o wire, buf \o wire', sent + 1, n)
  BY <1>a, <1>b DEF m
<1>4. buf' = buf
  BY DEF Write
<1>5. Stream = buf \o wire /\ Stream' = buf \o wire'
  BY <1>4 DEF Stream
<1> QED BY <1>1, <1>2, <1>3, <1>5

LEMMA ArriveStream ==
  ASSUME TypeInv, Arrive
  PROVE  /\ buf' \in Seq(Bytes) /\ wire' \in Seq(Bytes) /\ Stream' = Stream
         /\ buf' # <<>>
         /\ cut = "none" => buf'[Len(buf')][2] = K + 1
<1>1. buf \in Seq(Bytes) /\ wire \in Seq(Bytes)
  BY DEF TypeInv
<1>2. PICK n \in 1..Len(wire) : /\ cut = "none" => wire[n][2] = K + 1
                                /\ buf' = buf \o SubSeq(wire, 1, n)
                                /\ wire' = SubSeq(wire, n + 1, Len(wire))
  BY DEF Arrive
<1>b. Moved(buf, wire, n, buf', wire')
  BY <1>2 DEF Moved
<1>3. /\ buf' \in Seq(Bytes) /\ wire' \in Seq(Bytes)
      /\ buf' \o wire' = buf \o wire /\ buf' # <<>> /\ buf'[Len(buf')] = wire[n]
  BY <1>1, <1>b, MoveBytes
<1> QED BY <1>2, <1>3 DEF Stream

LEMMA TakeStream ==
  ASSUME TypeInv, NEW k \in 0..Len(buf), buf' = SubSeq(buf, k + 1, Len(buf)), wire' = wire
  PROVE  /\ buf' \in Seq(Bytes) /\ Len(buf') = Len(buf) - k /\ Stream' \in Seq(Bytes)
         /\ Dropped(Stream, Stream', k)
         /\ buf' # <<>> => buf'[Len(buf')] = buf[Len(buf)]
<1>1. buf \in Seq(Bytes) /\ wire \in Seq(Bytes)
  BY DEF TypeInv
<1> DEFINE b == SubSeq(buf, k + 1, Len(buf))
<1>a. /\ b \in Seq(Bytes) /\ Len(b) = Len(buf) - k
      /\ b # <<>> => b[Len(b)] = buf[Len(buf)]
      /\ Dropped(buf \o wire, b \o wire, k)
      /\ b \o wire \in Seq(Bytes)
  BY <1>1, TakeBytes
<1>b. buf' = b
  OBVIOUS
<1> HIDE DEF b
<1>2. /\ buf' \in Seq(Bytes) /\ Len(buf') = Len(buf) - k
      /\ buf' # <<>> => buf'[Len(buf')] = buf[Len(buf)]
      /\ Dropped(buf \o wire, buf' \o wire, k)
      /\ buf' \o wire \in Seq(Bytes)
  BY <1>a, <1>b
<1> QED BY <1>2 DEF Stream

LEMMA ReadLengthStream ==
  ASSUME TypeInv, ReadLength
  PROVE  /\ LengthBytes \in 1..2 /\ LengthBytes <= Len(buf)
         /\ Len(buf) = 1 => LengthBytes = 1
         /\ Len(buf) # 1 => LengthBytes = 2
         /\ buf' \in Seq(Bytes) /\ Len(buf') = Len(buf) - LengthBytes /\ Stream' \in Seq(Bytes)
         /\ Dropped(Stream, Stream', LengthBytes)
         /\ buf' # <<>> => buf'[Len(buf')] = buf[Len(buf)]
         /\ len' \in Nat
         /\ len' = Length(SubSeq(buf, 1, LengthBytes))
<1> DEFINE k == LengthBytes
           n == Len(buf)
<1>1. buf \in Seq(Bytes) /\ n \in Nat /\ n # 0
  BY LenProperties, EmptySeq DEF TypeInv, ReadLength
<1>2. k \in 1..2 /\ k \in 0..n /\ k <= n /\ (n = 1 => k = 1) /\ (n # 1 => k = 2)
  <2>1. k = IF 2 < n THEN 2 ELSE n
    BY DEF LengthBytes, Least
  <2>2. n \in Nat /\ n # 0
    BY <1>1
  <2> HIDE DEF k, n
  <2> QED BY <2>1, <2>2
<1>3. buf' = SubSeq(buf, 3, n) /\ wire' = wire
  BY DEF ReadLength, Rest
<1>4. buf' = SubSeq(buf, k + 1, n)
  <2>1. CASE n = 1
    <3>1. /\ SubSeq(buf, 3, n) = <<>> /\ SubSeq(buf, 2, n) = <<>>
      BY <1>1, <2>1, SubSeqEmpty
    <3>2. k + 1 = 2
      BY <1>2, <2>1
    <3> QED BY <1>3, <3>1, <3>2
  <2>2. CASE n # 1
    BY <1>2, <1>3, <2>2
  <2> QED BY <2>1, <2>2
<1>5. /\ buf' \in Seq(Bytes) /\ Len(buf') = n - k /\ Stream' \in Seq(Bytes)
      /\ Dropped(Stream, Stream', k)
      /\ buf' # <<>> => buf'[Len(buf')] = buf[n]
  BY <1>2, <1>3, <1>4, TakeStream
<1>6. len' = Length(SubSeq(buf, 1, k))
  BY DEF ReadLength, LengthBytes
<1>7. len' \in Nat
  <2> DEFINE u == SubSeq(buf, 1, k)
  <2>1. Value(u[1]) \in Nat /\ Value(u[2]) \in Nat
    BY Bounds DEF Value, Character
  <2> DEFINE a == Value(u[1])
             b == Value(u[2])
  <2>2. len' = 256 * a + (IF Len(u) = 2 THEN b ELSE 0)
    BY <1>6 DEF Length
  <2>3. a \in Nat /\ b \in Nat
    BY <2>1
  <2> HIDE DEF u, a, b
  <2> QED BY <2>2, <2>3
<1> QED BY <1>2, <1>5, <1>6, <1>7

LEMMA ReadDataStream ==
  ASSUME TypeInv, ReadData
  PROVE  /\ DataBytes \in 0..Len(buf)
         /\ buf' \in Seq(Bytes) /\ Len(buf') = Len(buf) - DataBytes /\ Stream' \in Seq(Bytes)
         /\ Dropped(Stream, Stream', DataBytes)
         /\ buf' # <<>> => buf'[Len(buf')] = buf[Len(buf)]
         /\ SubSeq(buf, 1, DataBytes) \in Seq(Bytes)
         /\ Len(SubSeq(buf, 1, DataBytes)) = DataBytes
         /\ \A i \in 1..DataBytes : SubSeq(buf, 1, DataBytes)[i] = Stream[i]
<1> DEFINE k == DataBytes
           n == Len(buf)
<1>1. buf \in Seq(Bytes) /\ wire \in Seq(Bytes) /\ n \in Nat /\ len \in Nat
  BY LenProperties DEF TypeInv
<1>2. k \in 0..n
  BY <1>1 DEF DataBytes, Least
<1>3. buf' = SubSeq(buf, k + 1, n) /\ wire' = wire
  BY DEF ReadData, Rest, DataBytes
<1>4. /\ buf' \in Seq(Bytes) /\ Len(buf') = n - k /\ Stream' \in Seq(Bytes)
      /\ Dropped(Stream, Stream', k)
      /\ buf' # <<>> => buf'[Len(buf')] = buf[n]
  BY <1>2, <1>3, TakeStream
<1>5. /\ SubSeq(buf, 1, k) \in Seq(Bytes) /\ Len(SubSeq(buf, 1, k)) = k
      /\ \A i \in 1..k : SubSeq(buf, 1, k)[i] = buf[i]
  BY <1>1, <1>2, Cut
<1>6. \A i \in 1..k : i \in 1..n
  BY <1>1, <1>2
<1>7. \A i \in 1..n : Stream[i] = buf[i]
  BY <1>1, StreamFacts
<1> QED BY <1>2, <1>4, <1>5, <1>6, <1>7

LEMMA TypeStep ==
  ASSUME TypeInv, [Next]_vars
  PROVE  TypeInv'
<1> USE DEF TypeInv
<1>1. ASSUME Write PROVE TypeInv'
  <2>1. wire' \in Seq(Bytes) /\ sent + 1 \in Nat
    BY <1>1, WriteStream
  <2>2. PICK n \in 1..(K + 2) : (n < K + 2 => cut = "writes") /\ torn' = (torn \/ n < K + 2)
    BY <1>1, WriteStream
  <2>3. torn' \in BOOLEAN /\ (torn' => cut = "writes")
    BY <2>2
  <2> QED BY <1>1, <2>1, <2>3 DEF Write
<1>2. ASSUME Arrive PROVE TypeInv'
  <2>1. buf' \in Seq(Bytes) /\ wire' \in Seq(Bytes)
    BY <1>2, ArriveStream
  <2>2. ~eof
    <3>1. ASSUME eof PROVE FALSE
      <4>1. Len(wire) = 0
        BY <3>1, EmptySeq
      <4> QED BY <1>2, <4>1 DEF Arrive
    <3> QED BY <3>1
  <2> QED BY <1>2, <2>1, <2>2 DEF Arrive
<1>3. ASSUME PeerCloses PROVE TypeInv'
  BY <1>3 DEF PeerCloses
<1>4. ASSUME ReadNothing PROVE TypeInv'
  BY <1>4 DEF ReadNothing
<1>5. ASSUME ReadLength PROVE TypeInv'
  <2>1. buf' \in Seq(Bytes) /\ len' \in Nat
    BY <1>5, ReadLengthStream
  <2> QED BY <1>5, <2>1 DEF ReadLength
<1>6. ASSUME LoseLength PROVE TypeInv'
  BY <1>6 DEF LoseLength
<1>7. ASSUME ReadData PROVE TypeInv'
  <2>1. buf' \in Seq(Bytes) /\ SubSeq(buf, 1, DataBytes) \in Seq(Bytes)
    BY <1>7, ReadDataStream
  <2>2. got' = Append(got, SubSeq(buf, 1, DataBytes)) \/ got' = got
    BY <1>7 DEF ReadData, DataBytes
  <2>a. ASSUME NEW d \in Seq(Bytes) PROVE Append(got, d) \in Seq(Seq(Bytes))
    BY AppendProperties
  <2>3. got' \in Seq(Seq(Bytes))
    BY <2>1, <2>2, <2>a
  <2> QED BY <1>7, <2>1, <2>3 DEF ReadData
<1>8. ASSUME UNCHANGED vars PROVE TypeInv'
  BY <1>8 DEF vars
<1> QED BY <1>1, <1>2, <1>3, <1>4, <1>5, <1>6, <1>7, <1>8 DEF Next, Read, Terminating

(* The steps that neither write nor read bytes.                            *)
LEMMA SameStream ==
  ASSUME TypeInv, Arrive \/ PeerCloses \/ ReadNothing \/ LoseLength \/ UNCHANGED vars
  PROVE  /\ Stream' = Stream /\ sent' = sent /\ got' = got /\ torn' = torn /\ cut' = cut
         /\ len' = len /\ (pc' = pc \/ pc' = "idle")
<1>1. CASE Arrive
  BY <1>1, ArriveStream DEF Arrive
<1>2. CASE PeerCloses
  BY <1>2 DEF PeerCloses, Stream
<1>3. CASE ReadNothing
  BY <1>3 DEF ReadNothing, Stream
<1>4. CASE LoseLength
  BY <1>4 DEF LoseLength, Stream
<1>5. CASE UNCHANGED vars
  BY <1>5 DEF vars, Stream
<1> QED BY <1>1, <1>2, <1>3, <1>4, <1>5

LEMMA StreamType == TypeInv => Stream \in Seq(Bytes)
  BY StreamFacts DEF TypeInv

LEMMA OrderStep ==
  ASSUME TypeInv, OrderInv, [Next]_vars
  PROVE  OrderInv'
<1>0. Ordered(Stream, sent, got) /\ Stream \in Seq(Bytes) /\ sent \in Nat /\ got \in Seq(Seq(Bytes))
  BY StreamType DEF OrderInv, TypeInv
<1> SUFFICES Ordered(Stream', sent', got')
  BY DEF OrderInv
<1>1. ASSUME Write PROVE Ordered(Stream', sent', got')
  <2>1. PICK n \in 1..(K + 2) : Extended(Stream, Stream', sent + 1, n)
    BY <1>1, WriteStream
  <2>2. Stream' \in Seq(Bytes) /\ sent' = sent + 1 /\ got' = got
    BY <1>1, WriteStream DEF Write
  <2>3. Ordered(Stream', sent + 1, got)
    BY <1>0, <2>1, <2>2, OrderedExtended
  <2> QED BY <2>2, <2>3
<1>2. ASSUME ReadLength PROVE Ordered(Stream', sent', got')
  <2>1. Stream' \in Seq(Bytes) /\ Dropped(Stream, Stream', LengthBytes)
    BY <1>2, ReadLengthStream
  <2>2. sent' = sent /\ got' = got
    BY <1>2 DEF ReadLength
  <2>3. Ordered(Stream', sent, got)
    BY <1>0, <2>1, OrderedDropped
  <2> QED BY <2>2, <2>3
<1>3. ASSUME ReadData PROVE Ordered(Stream', sent', got')
  <2> DEFINE d == SubSeq(buf, 1, DataBytes)
             k == DataBytes
  <2>1. /\ Stream' \in Seq(Bytes) /\ Dropped(Stream, Stream', k)
        /\ d \in Seq(Bytes) /\ Len(d) = k /\ \A i \in 1..k : d[i] = Stream[i]
    BY <1>3, ReadDataStream
  <2>2. sent' = sent /\ (got' = got \/ got' = Append(got, d))
    BY <1>3 DEF ReadData, DataBytes
  <2> HIDE DEF d, k
  <2>3. Ordered(Stream', sent, got)
    BY <1>0, <2>1, OrderedDropped
  <2>4. Ordered(Stream', sent, Append(got, d))
    BY <1>0, <2>1, OrderedTaken
  <2> QED BY <2>2, <2>3, <2>4
<1>4. ASSUME Arrive \/ PeerCloses \/ ReadNothing \/ LoseLength \/ UNCHANGED vars
      PROVE  Ordered(Stream', sent', got')
  BY <1>0, <1>4, SameStream
<1> QED BY <1>1, <1>2, <1>3, <1>4 DEF Next, Read, Terminating

(* A byte that is not the end of its message is followed by the next one.  *)
LEMMA NextByte ==
  ASSUME NEW s \in Seq(Bytes), Complete(s), NEW i \in 1..Len(s),
         NEW x \in Nat, s[i][2] <= x, x <= K + 1
  PROVE  i + (x - s[i][2]) \in 1..Len(s) /\ s[i + (x - s[i][2])] = <<s[i][1], x>>
<1>1. DOMAIN s = 1..Len(s) /\ s[i] \in Bytes
  BY LenProperties, ElementOfSeq
<1>2. s[i][2] \in Nat
  BY <1>1, ByteFacts
<1>3. x \in s[i][2]..(K + 1)
  BY <1>2, Bounds
<1> QED BY <1>1, <1>3 DEF Complete

LEMMA LengthStep ==
  ASSUME TypeInv, OrderInv, LengthInv, [Next]_vars
  PROVE  LengthInv'
<1>0. Stream \in Seq(Bytes) /\ sent \in Nat
  BY StreamType DEF TypeInv
<1> DEFINE Known(s, p, l) == p = "data" => \/ l = K /\ s # <<>> /\ s[1][2] = 2
                                           \/ l = 0 /\ s # <<>>
                                           \/ l >= 256 * Least(K, Character)
<1> SUFFICES ASSUME ~torn' PROVE Complete(Stream') /\ Known(Stream', pc', len')
  BY DEF LengthInv, Complete
<1>a. ~torn => Complete(Stream) /\ Known(Stream, pc, len)
  BY DEF LengthInv
<1> HIDE DEF Known
<1>1. ASSUME Write PROVE Complete(Stream') /\ Known(Stream', pc', len')
  <2>1. PICK n \in 1..(K + 2) : Extended(Stream, Stream', sent + 1, n) /\ torn' = (torn \/ n < K + 2)
    BY <1>1, WriteStream
  <2>2. /\ Stream' \in Seq(Bytes) /\ sent + 1 \in Nat /\ sent + 1 >= 1
        /\ ~torn /\ n = K + 2 /\ pc' = pc /\ len' = len
    <3>1. ~(n < K + 2) /\ ~torn
      BY <2>1, Zenon
    <3>2. n = K + 2
      BY <3>1, Bounds
    <3> QED BY <1>1, <3>1, <3>2, WriteStream DEF Write
  <2>3. \A i \in DOMAIN Stream : Stream[i][1] < sent + 1
    <3>1. \A i \in DOMAIN Stream : Stream[i] \in Bytes
      BY <1>0, LenProperties, ElementOfSeq
    <3>2. \A i \in DOMAIN Stream : Stream[i][1] \in Nat
      BY <3>1, ByteFacts
    <3> QED BY <1>0, <3>2 DEF OrderInv, Ordered
  <2>4. Complete(Stream')
    BY <1>0, <1>a, <2>1, <2>2, <2>3, ExtendedFacts
  <2>5. Stream # <<>> => Stream' # <<>> /\ Stream'[1] = Stream[1]
    <3>1. Len(Stream) \in Nat /\ (Stream # <<>> => Len(Stream) # 0)
      BY <1>0, LenProperties, EmptySeq
    <3>2. Len(Stream') = Len(Stream) + (K + 2)
      BY <2>1, <2>2 DEF Extended
    <3>3. Stream' # <<>>
      BY <3>1, <3>2, Bounds, EmptySeq
    <3>4. 1 \in 1..Len(Stream) => Stream'[1] = Stream[1]
      BY <2>1 DEF Extended
    <3> QED BY <3>1, <3>3, <3>4
  <2> QED BY <1>a, <2>2, <2>4, <2>5 DEF Known
<1>2. ASSUME ReadLength PROVE Complete(Stream') /\ Known(Stream', pc', len')
  <2> DEFINE k == LengthBytes
             u == SubSeq(buf, 1, k)
             s == Stream
             t == Stream'
  <2>0. ~torn /\ Complete(s)
    BY <1>2, <1>a DEF ReadLength
  <2>1. /\ k \in 1..2 /\ k <= Len(buf) /\ Len(buf) \in Nat
        /\ Len(buf) = 1 => k = 1
        /\ Len(buf) # 1 => k = 2
        /\ t \in Seq(Bytes) /\ Dropped(s, t, k) /\ len' = Length(u)
    BY <1>2, ReadLengthStream, LenProperties DEF TypeInv
  <2>2. Complete(t)
    BY <1>0, <2>0, <2>1, DroppedFacts
  <2>3. /\ Len(u) = k /\ u[1] = s[1] /\ (k = 2 => u[2] = s[2])
    <3>1. /\ \A i \in 1..Len(buf) : s[i] = buf[i]
      BY StreamFacts DEF TypeInv
    <3>2. buf \in Seq(Bytes) /\ k \in 0..Len(buf)
      BY <2>1 DEF TypeInv
    <3>3. Len(u) = k /\ \A i \in 1..k : u[i] = buf[i]
      BY <3>2, Cut
    <3>4. 1 \in 1..k /\ 1 \in 1..Len(buf) /\ (k = 2 => 2 \in 1..k /\ 2 \in 1..Len(buf))
      BY <2>1
    <3> HIDE DEF u, s, k
    <3> QED BY <3>1, <3>3, <3>4
  <2>4. Len(s) \in Nat /\ Len(t) \in Nat /\ Len(buf) <= Len(s) /\ 1 \in 1..Len(s)
    BY <2>1, StreamFacts, LenProperties DEF TypeInv
  <2>5. Len(t) = Len(s) - k /\ \A i \in 1..Len(t) : t[i] = s[k + i]
    BY <2>1 DEF Dropped
  <2>6. s[1] \in Bytes
    BY <1>0, <2>4, ElementOfSeq
  <2> HIDE DEF u, k, s, t
  <2>7. s[1][2] \in Nat /\ s[1][2] <= K + 1
    BY <2>6, ByteFacts
  <2>8. Length(u) = 256 * Value(s[1]) + (IF k = 2 THEN Value(s[2]) ELSE 0)
    BY <2>3 DEF Length
  <2>9. CASE s[1][2] = 0
    <3>1. s \in Seq(Bytes)
      BY <1>0 DEF s
    <3>2. 1 + (1 - 0) \in 1..Len(s) /\ s[1 + (1 - 0)] = <<s[1][1], 1>>
      BY <2>0, <2>4, <2>9, <3>1, NextByte, Bounds
    <3>3. 1 + (2 - 0) \in 1..Len(s) /\ s[1 + (2 - 0)] = <<s[1][1], 2>>
      BY <2>0, <2>4, <2>9, <3>1, NextByte, Bounds
    <3>4. 2 \in 1..Len(s) /\ s[2] = <<s[1][1], 1>> /\ 3 \in 1..Len(s) /\ s[3] = <<s[1][1], 2>>
      BY <3>2, <3>3
    <3>5. Value(s[1]) = 0 /\ Value(s[2]) = K
      BY <2>9, <3>4 DEF Value
    <3>6. t # <<>>
      <4>1. Len(t) # 0
        BY <2>1, <2>4, <2>5, <3>4
      <4> QED BY <4>1, EmptySeq
    <3>7. CASE k = 2
      <4>1. len' = K
        BY <2>1, <2>8, <3>5, <3>7, Bounds
      <4>2. 1 \in 1..Len(t) /\ t[1] = s[3]
        BY <2>4, <2>5, <3>4, <3>7
      <4>3. t[1][2] = 2
        BY <3>4, <4>2
      <4> QED BY <2>2, <3>6, <4>1, <4>3 DEF Known, t
    <3>8. CASE k = 1
      <4>1. len' = 0
        BY <2>1, <2>8, <3>5, <3>8
      <4> QED BY <2>2, <3>6, <4>1 DEF Known, t
    <3> QED BY <2>1, <3>7, <3>8
  <2>10. CASE s[1][2] # 0
    <3>1. Value(s[1]) \in Nat /\ Value(s[1]) >= Least(K, Character)
      BY <2>10, Bounds DEF Value, Least, Character
    <3>2. Value(s[2]) \in Nat /\ Least(K, Character) \in Nat
      BY Bounds DEF Value, Least, Character
    <3> DEFINE a == Value(s[1])
               b == IF k = 2 THEN Value(s[2]) ELSE 0
               c == Least(K, Character)
    <3>3. a \in Nat /\ b \in Nat /\ c \in Nat /\ a >= c /\ len' = 256 * a + b
      BY <2>1, <2>8, <3>1, <3>2
    <3> HIDE DEF a, b, c
    <3>4. len' >= 256 * c
      BY <3>3
    <3> QED BY <2>2, <3>4 DEF Known, c, t
  <2> QED BY <2>2, <2>9, <2>10 DEF t
<1>3. ASSUME ReadData PROVE Complete(Stream') /\ Known(Stream', pc', len')
  <2>1. Stream' \in Seq(Bytes) /\ Dropped(Stream, Stream', DataBytes)
    BY <1>3, ReadDataStream
  <2>2. ~torn /\ pc' # "data"
    BY <1>3 DEF ReadData
  <2>3. Complete(Stream')
    BY <1>0, <1>a, <2>1, <2>2, DroppedFacts
  <2> QED BY <2>2, <2>3 DEF Known
<1>4. ASSUME Arrive \/ PeerCloses \/ ReadNothing \/ LoseLength \/ UNCHANGED vars
      PROVE  Complete(Stream') /\ Known(Stream', pc', len')
  BY <1>4, <1>a, SameStream DEF Known
<1> QED BY <1>1, <1>2, <1>3, <1>4 DEF Next, Read, Terminating

(* Where the reader is in an uncut stream: what follows the received       *)
(* messages, in terms of the stream s, the buffer b, the numbers of        *)
(* messages written n and received g, the control state p and length l.    *)
Whole(s, b, n, g, p, l) ==
  /\ Consecutive(s)
  /\ b # <<>> => b[Len(b)][2] = K + 1
  /\ s = <<>> => n = g
  /\ s # <<>> => s[Len(s)] = <<n, K + 1>>
  /\ p = "idle" => (s # <<>> => s[1] = <<g + 1, 0>>)
  /\ p = "data" => l = K /\ b # <<>> /\ s[1] = <<g + 1, 2>>
  /\ p # "failed"

LEMMA WholeIs == WholeInv <=> (cut = "none" => Whole(Stream, buf, sent, Len(got), pc, len))
  BY DEF WholeInv, Whole

(* The second read finds all of the data that the first one announced.     *)
LEMMA WholeData ==
  ASSUME TypeInv, LengthInv, WholeInv, cut = "none", pc = "data"
  PROVE  /\ len = K /\ DataBytes = K /\ K \in 1..Len(Stream) /\ ~torn
         /\ \A i \in 1..K : Stream[i] = <<Len(got) + 1, i + 1>>
         /\ Stream[K] = <<Len(got) + 1, K + 1>>
<1> DEFINE s == Stream
           g == Len(got)
           n == Len(buf)
<1>1. /\ s \in Seq(Bytes) /\ buf \in Seq(Bytes) /\ n \in Nat /\ Len(s) \in Nat /\ n <= Len(s)
      /\ \A i \in 1..n : s[i] = buf[i]
  BY StreamType, StreamFacts DEF TypeInv
<1>2. ~torn /\ Complete(s)
  BY DEF TypeInv, LengthInv
<1>3. len = K /\ buf # <<>> /\ s[1] = <<g + 1, 2>> /\ buf[n][2] = K + 1
  BY DEF WholeInv
<1> HIDE DEF s, g, n
<1>4. n # 0 /\ 1 \in 1..Len(s) /\ n \in 1..Len(s)
  <2>1. n # 0
    BY <1>1, <1>3, EmptySeq DEF n
  <2> QED BY <1>1, <2>1
<1>5. ASSUME NEW x \in Nat, 2 <= x, x <= K + 1
      PROVE  x - 1 \in 1..Len(s) /\ s[x - 1] = <<g + 1, x>>
  <2>1. s[1][2] = 2 /\ s[1][1] = g + 1
    BY <1>3
  <2>2. 1 + (x - s[1][2]) \in 1..Len(s) /\ s[1 + (x - s[1][2])] = <<s[1][1], x>>
    BY <1>1, <1>2, <1>4, <1>5, <2>1, NextByte
  <2>3. 1 + (x - 2) = x - 1
    OBVIOUS
  <2> QED BY <2>1, <2>2, <2>3
<1>6. \A i \in 1..K : s[i] = <<g + 1, i + 1>>
  <2> TAKE i \in 1..K
  <2>1. i + 1 \in Nat /\ 2 <= i + 1 /\ i + 1 <= K + 1 /\ (i + 1) - 1 = i
    BY Bounds
  <2> QED BY <1>5, <2>1
<1>7. K \in 1..Len(s) /\ s[K] = <<g + 1, K + 1>>
  <2>1. K + 1 \in Nat /\ 2 <= K + 1 /\ K + 1 <= K + 1 /\ (K + 1) - 1 = K
    BY Bounds
  <2> QED BY <1>5, <2>1
<1>8. K <= n
  <2> SUFFICES ASSUME n < K PROVE FALSE
    BY <1>1, Bounds
  <2>1. n \in 1..K /\ n \in 1..n
    BY <1>1, <1>4, Bounds
  <2>2. s[n] = <<g + 1, n + 1>> /\ s[n] = buf[n]
    BY <1>1, <1>6, <2>1
  <2>3. s[n][2] = n + 1 /\ s[n][2] = K + 1
    <3>1. s[n][2] = n + 1
      BY <2>2
    <3> QED BY <1>3, <2>2, <3>1
  <2> QED BY <1>1, <2>3, Bounds
<1>9. DataBytes = K
  BY <1>1, <1>3, <1>8, Bounds DEF DataBytes, Least, n
<1> QED BY <1>2, <1>3, <1>6, <1>7, <1>9 DEF s, g

(* The first read finds both bytes of the length, and some data after them. *)
LEMMA WholeLength ==
  ASSUME TypeInv, LengthInv, WholeInv, cut = "none", pc = "idle", buf # <<>>
  PROVE  /\ Len(buf) >= 3 /\ Stream # <<>>
         /\ Stream[1] = <<Len(got) + 1, 0>> /\ Stream[2] = <<Len(got) + 1, 1>>
         /\ Stream[3] = <<Len(got) + 1, 2>>
<1> DEFINE s == Stream
           g == Len(got)
           n == Len(buf)
<1>1. /\ s \in Seq(Bytes) /\ buf \in Seq(Bytes) /\ n \in Nat /\ Len(s) \in Nat /\ n <= Len(s)
      /\ \A i \in 1..n : s[i] = buf[i]
  BY StreamType, StreamFacts DEF TypeInv
<1>2. Complete(s)
  BY DEF TypeInv, LengthInv
<1>3. buf # <<>> /\ buf[n][2] = K + 1 /\ (s # <<>> => s[1] = <<g + 1, 0>>)
  BY DEF WholeInv
<1> HIDE DEF s, g, n
<1>4. n # 0 /\ 1 \in 1..Len(s) /\ n \in 1..n /\ s # <<>>
  <2>1. n # 0
    BY <1>1, <1>3, EmptySeq DEF n
  <2>2. 1 \in 1..Len(s) /\ n \in 1..n /\ Len(s) # 0
    BY <1>1, <2>1
  <2> QED BY <2>1, <2>2, EmptySeq
<1>5. ASSUME NEW x \in Nat, x <= K + 1
      PROVE  x + 1 \in 1..Len(s) /\ s[x + 1] = <<g + 1, x>>
  <2>1. s[1][2] = 0 /\ s[1][1] = g + 1
    BY <1>3, <1>4
  <2>2. 1 + (x - s[1][2]) \in 1..Len(s) /\ s[1 + (x - s[1][2])] = <<s[1][1], x>>
    BY <1>1, <1>2, <1>4, <1>5, <2>1, NextByte
  <2>3. 1 + (x - 0) = x + 1
    OBVIOUS
  <2> QED BY <2>1, <2>2, <2>3
<1>6. s[1] = <<g + 1, 0>> /\ s[2] = <<g + 1, 1>> /\ s[3] = <<g + 1, 2>>
  <2>1. 0 \in Nat /\ 1 \in Nat /\ 2 \in Nat /\ 0 <= K + 1 /\ 1 <= K + 1 /\ 2 <= K + 1
    BY Bounds
  <2>2. 0 + 1 = 1 /\ 1 + 1 = 2 /\ 2 + 1 = 3
    OBVIOUS
  <2> QED BY <1>5, <2>1, <2>2
<1>7. s[n][2] = K + 1
  BY <1>1, <1>3, <1>4
<1>8. n # 1 /\ n # 2
  <2>1. s[1][2] = 0 /\ s[2][2] = 1
    BY <1>6
  <2> QED BY <1>7, <2>1, Bounds
<1>9. n >= 3
  BY <1>1, <1>4, <1>8
<1> QED BY <1>4, <1>6, <1>9 DEF s, g, n

LEMMA WholeStep ==
  ASSUME IInv, [Next]_vars
  PROVE  WholeInv'
<1> DEFINE s == Stream
           t == Stream'
           g == Len(got)
<1>0. /\ TypeInv /\ OrderInv /\ LengthInv /\ WholeInv /\ s \in Seq(Bytes) /\ sent \in Nat /\ g \in Nat
      /\ got \in Seq(Seq(Bytes))
  BY StreamType, LenProperties DEF IInv, TypeInv
<1>a. cut' = cut
  BY DEF Next, Write, Arrive, PeerCloses, Read, ReadNothing, ReadLength, LoseLength, ReadData,
         Terminating, vars
<1> SUFFICES ASSUME cut = "none"
             PROVE  Whole(t, buf', sent', Len(got'), pc', len')
  BY <1>a DEF WholeInv, Whole
<1>b. Whole(s, buf, sent, g, pc, len) /\ ~torn /\ Complete(s)
  BY <1>0, WholeIs DEF TypeInv, LengthInv
<1>c. Len(s) \in Nat /\ (s # <<>> <=> Len(s) # 0)
  BY <1>0, LenProperties, EmptySeq
<1> HIDE DEF s, t, g
<1>1. ASSUME Write PROVE Whole(t, buf', sent', Len(got'), pc', len')
  <2>1. /\ t \in Seq(Bytes) /\ Extended(s, t, sent + 1, K + 2)
        /\ sent + 1 \in Nat /\ sent + 1 >= 1
    <3>1. PICK n \in 1..(K + 2) : Extended(s, t, sent + 1, n) /\ (n < K + 2 => cut = "writes")
      BY <1>0, <1>1, WriteStream DEF s, t
    <3>2. n = K + 2
      BY <3>1, Bounds
    <3> QED BY <1>0, <1>1, <3>1, <3>2, WriteStream DEF t
  <2>2. sent' = sent + 1 /\ got' = got /\ pc' = pc /\ len' = len /\ buf' = buf
    BY <1>1 DEF Write
  <2>3. \A i \in DOMAIN s : s[i][1] < sent + 1
    <3>1. \A i \in DOMAIN s : s[i] \in Bytes
      BY <1>0, LenProperties, ElementOfSeq
    <3>2. \A i \in DOMAIN s : s[i][1] \in Nat
      BY <3>1, ByteFacts
    <3> QED BY <1>0, <3>2 DEF OrderInv, Ordered, s
  <2>4. s # <<>> => s[Len(s)] = <<(sent + 1) - 1, K + 1>>
    <3>1. (sent + 1) - 1 = sent
      BY <1>0
    <3> QED BY <1>b, <3>1 DEF Whole
  <2>5. Consecutive(t) /\ t[Len(t)] = <<sent + 1, K + 1>>
    <3>1. Consecutive(s)
      BY <1>b DEF Whole
    <3>2. s \in Seq(Bytes)
      BY <1>0
    <3> DEFINE m == sent + 1
    <3>3. m \in Nat /\ m >= 1 /\ Extended(s, t, m, K + 2) /\ (\A i \in DOMAIN s : s[i][1] < m)
      BY <2>1, <2>3
    <3>4. s # <<>> => s[Len(s)] = <<m - 1, K + 1>>
      BY <2>4
    <3> HIDE DEF m
    <3>5. Consecutive(t) /\ t[Len(t)] = <<m, K + 1>>
      BY <2>1, <3>1, <3>2, <3>3, <3>4, ExtendedFacts
    <3> QED BY <3>5 DEF m
  <2>6. Len(t) = Len(s) + (K + 2) /\ \A i \in 1..Len(s) : t[i] = s[i]
    BY <2>1 DEF Extended
  <2>7. t # <<>>
    <3>1. Len(t) # 0
      BY <1>c, <2>6, Bounds
    <3> QED BY <3>1, EmptySeq
  <2>8. s # <<>> => t[1] = s[1]
    <3>1. s # <<>> => 1 \in 1..Len(s)
      BY <1>c
    <3> QED BY <2>6, <3>1
  <2>9. s = <<>> => t[1] = <<g + 1, 0>>
    <3> SUFFICES ASSUME s = <<>> PROVE t[1] = <<g + 1, 0>>
      OBVIOUS
    <3>1. Len(s) = 0 /\ sent = g
      BY <1>b, <1>c DEF Whole
    <3>2. 1 \in 1..(K + 2) /\ 0 + 1 = 1 /\ 1 - 1 = 0
      BY Bounds
    <3>3. t[Len(s) + 1] = <<sent + 1, 1 - 1>>
      BY <2>1, <3>2 DEF Extended
    <3> QED BY <3>1, <3>2, <3>3
  <2>10. buf # <<>> => s # <<>>
    <3>1. buf \in Seq(Bytes) /\ wire \in Seq(Bytes)
      BY <1>0 DEF TypeInv
    <3>2. Len(buf) <= Len(s) /\ Len(buf) \in Nat
      BY <1>c, <3>1, StreamFacts DEF s
    <3>3. buf # <<>> => Len(buf) # 0
      BY <3>1, EmptySeq
    <3> QED BY <1>c, <3>2, <3>3
  <2>11. pc = "idle" => t[1] = <<g + 1, 0>>
    BY <1>b, <2>8, <2>9 DEF Whole
  <2>12. pc = "data" => len = K /\ buf # <<>> /\ t[1] = <<g + 1, 2>>
    BY <1>b, <2>8, <2>10 DEF Whole
  <2>13. Len(got') = g
    BY <2>2 DEF g
  <2>14. (buf # <<>> => buf[Len(buf)][2] = K + 1) /\ pc # "failed"
    BY <1>b DEF Whole
  <2> QED BY <2>2, <2>5, <2>7, <2>11, <2>12, <2>13, <2>14 DEF Whole
<1>2. ASSUME Arrive PROVE Whole(t, buf', sent', Len(got'), pc', len')
  <2>1. t = s /\ buf' # <<>> /\ buf'[Len(buf')][2] = K + 1
    BY <1>0, <1>2, ArriveStream DEF s, t
  <2>2. sent' = sent /\ Len(got') = g /\ pc' = pc /\ len' = len
    BY <1>2 DEF Arrive, g
  <2> QED BY <1>b, <2>1, <2>2 DEF Whole
<1>3. ASSUME PeerCloses \/ ReadNothing \/ UNCHANGED vars
      PROVE  Whole(t, buf', sent', Len(got'), pc', len')
  <2>1. t = s
    BY <1>0, <1>3, SameStream DEF s, t
  <2>2. sent' = sent /\ Len(got') = g /\ pc' = pc /\ len' = len /\ buf' = buf
    BY <1>3 DEF PeerCloses, ReadNothing, vars, g
  <2> QED BY <1>b, <2>1, <2>2
<1>4. ASSUME LoseLength PROVE FALSE
  BY <1>b, <1>4 DEF Whole, LoseLength
<1>5. ASSUME ReadLength PROVE Whole(t, buf', sent', Len(got'), pc', len')
  <2>1. /\ Len(buf) >= 3 /\ Len(buf) \in Nat /\ s # <<>>
        /\ s[1] = <<g + 1, 0>> /\ s[2] = <<g + 1, 1>> /\ s[3] = <<g + 1, 2>>
    BY <1>0, <1>5, WholeLength, LenProperties DEF ReadLength, s, g, TypeInv
  <2>2. /\ LengthBytes = 2 /\ t \in Seq(Bytes) /\ Dropped(s, t, 2)
        /\ Len(buf') = Len(buf) - 2 /\ buf' \in Seq(Bytes)
        /\ buf' # <<>> => buf'[Len(buf')] = buf[Len(buf)]
        /\ len' = Length(SubSeq(buf, 1, 2))
    <3>1. LengthBytes = 2
      BY <1>0, <1>5, <2>1, ReadLengthStream
    <3> QED BY <1>0, <1>5, <3>1, ReadLengthStream DEF s, t
  <2>3. sent' = sent /\ Len(got') = g /\ pc' = "data"
    BY <1>5 DEF ReadLength, g
  <2>4. buf' # <<>>
    <3>1. Len(buf') # 0
      BY <2>1, <2>2
    <3> QED BY <3>1, EmptySeq
  <2>5. buf'[Len(buf')][2] = K + 1
    <3>1. buf # <<>>
      BY <1>5 DEF ReadLength
    <3> QED BY <1>b, <2>2, <2>4, <3>1 DEF Whole
  <2>6. Consecutive(s)
    BY <1>b DEF Whole
  <2>7. Consecutive(t) /\ (Len(t) > 0 => t[Len(t)] = s[Len(s)])
    BY <1>0, <2>2, <2>6, DroppedFacts
  <2>8. Len(t) = Len(s) - 2 /\ Len(s) >= 3 /\ \A i \in 1..Len(t) : t[i] = s[2 + i]
    <3>1. Len(buf) <= Len(s)
      BY <1>0, <1>c, StreamFacts DEF s, TypeInv
    <3> QED BY <1>c, <2>1, <2>2, <3>1 DEF Dropped
  <2>9. Len(t) > 0 /\ t # <<>> /\ t[1] = s[3]
    <3>1. Len(t) > 0 /\ 1 \in 1..Len(t) /\ 2 + 1 = 3 /\ Len(t) # 0
      BY <1>c, <2>8
    <3> QED BY <2>8, <3>1, EmptySeq
  <2>10. t[Len(t)] = <<sent, K + 1>>
    BY <1>b, <2>1, <2>7, <2>9 DEF Whole
  <2>11. len' = K
    <3> DEFINE u == SubSeq(buf, 1, 2)
    <3>1. buf \in Seq(Bytes) /\ 2 \in 0..Len(buf) /\ wire \in Seq(Bytes)
      BY <1>0, <2>1 DEF TypeInv
    <3>2. Len(u) = 2 /\ \A i \in 1..2 : u[i] = buf[i]
      BY <3>1, Cut
    <3>3. \A i \in 1..Len(buf) : s[i] = buf[i]
      BY <3>1, StreamFacts DEF s
    <3> HIDE DEF u
    <3>4. 1 \in 1..2 /\ 2 \in 1..2 /\ 1 \in 1..Len(buf) /\ 2 \in 1..Len(buf)
      BY <2>1
    <3>5. u[1] = <<g + 1, 0>> /\ u[2] = <<g + 1, 1>>
      BY <2>1, <3>2, <3>3, <3>4
    <3>6. u[1][2] = 0 /\ u[2][2] = 1
      BY <3>5
    <3>7. Value(u[1]) = 0 /\ Value(u[2]) = K
      BY <3>6 DEF Value
    <3>8. Length(u) = K
      BY <3>2, <3>7, Bounds DEF Length
    <3> QED BY <2>2, <3>8 DEF u
  <2> QED BY <2>1, <2>3, <2>4, <2>5, <2>7, <2>9, <2>10, <2>11 DEF Whole
<1>6. ASSUME ReadData PROVE Whole(t, buf', sent', Len(got'), pc', len')
  <2>0. pc = "data"
    BY <1>6 DEF ReadData
  <2>1. /\ len = K /\ DataBytes = K /\ K \in 1..Len(s)
        /\ s[K] = <<g + 1, K + 1>>
    BY <1>0, <2>0, WholeData DEF s, g
  <2>2. /\ t \in Seq(Bytes) /\ Dropped(s, t, K)
        /\ buf' # <<>> => buf'[Len(buf')] = buf[Len(buf)]
        /\ Len(buf') = Len(buf) - K /\ Len(buf) \in Nat /\ buf \in Seq(Bytes)
        /\ SubSeq(buf, 1, K) \in Seq(Bytes)
    BY <1>0, <1>6, <2>1, ReadDataStream, LenProperties DEF s, t, TypeInv
  <2>3. got' = Append(got, SubSeq(buf, 1, K)) /\ pc' = "idle" /\ sent' = sent /\ len' = len
    BY <1>6, <2>1 DEF ReadData, DataBytes
  <2>4. Len(got') = g + 1
    <3>1. ASSUME NEW d \in Seq(Bytes) PROVE Len(Append(got, d)) = Len(got) + 1
      BY <1>0, AppendProperties
    <3> QED BY <2>2, <2>3, <3>1 DEF g
  <2>5. buf' # <<>> => buf'[Len(buf')][2] = K + 1
    BY <1>b, <2>0, <2>2 DEF Whole
  <2>6. Consecutive(s)
    BY <1>b DEF Whole
  <2>7. Consecutive(t) /\ (Len(t) > 0 => t[Len(t)] = s[Len(s)])
    BY <1>0, <2>2, <2>6, DroppedFacts
  <2>8. Len(t) = Len(s) - K /\ \A i \in 1..Len(t) : t[i] = s[K + i]
    BY <2>2 DEF Dropped
  <2>9. s # <<>>
    BY <1>c, <2>1, Bounds
  <2>10. s[Len(s)] = <<sent, K + 1>>
    BY <1>b, <2>9 DEF Whole
  <2>11. CASE t = <<>>
    <3>1. Len(s) = K
      <4>1. Len(t) = 0
        BY <2>11, EmptySeq
      <4> QED BY <1>c, <2>8, <4>1, Bounds
    <3>2. sent = g + 1
      BY <2>1, <2>10, <3>1
    <3> QED BY <2>3, <2>4, <2>5, <2>7, <2>11, <3>2 DEF Whole
  <2>12. CASE t # <<>>
    <3>1. Len(t) \in Nat /\ Len(t) # 0
      BY <2>2, <2>12, LenProperties, EmptySeq
    <3>2. 1 \in 1..Len(t) /\ K \in DOMAIN s /\ K + 1 \in DOMAIN s /\ Len(t) > 0
      <4>1. DOMAIN s = 1..Len(s)
        BY <1>0, LenProperties
      <4> QED BY <1>c, <2>1, <2>8, <3>1, <4>1, Bounds
    <3>3. s[K][2] = K + 1 /\ s[K][1] = g + 1
      BY <2>1
    <3>4. s[K + 1] = <<s[K][1] + 1, 0>>
      BY <2>6, <3>2, <3>3 DEF Consecutive
    <3>5. t[1] = <<(g + 1) + 1, 0>>
      BY <2>8, <3>2, <3>3, <3>4
    <3>6. t[Len(t)] = <<sent, K + 1>>
      BY <2>7, <2>10, <3>2
    <3> QED BY <2>3, <2>4, <2>5, <2>7, <2>12, <3>5, <3>6 DEF Whole
  <2> QED BY <2>11, <2>12
<1> QED BY <1>1, <1>2, <1>3, <1>4, <1>5, <1>6 DEF Next, Read, Terminating

--------------------------------------------------------------------------------
(* THEOREMS                                                                *)

(* In every behaviour the bytes stay in order, a length that is read is    *)
(* known as long as no write was torn, and the reader of an uncut stream is*)
(* at the beginning of a message or of its data (read_msg, write_msg).     *)
THEOREM Inductive == Spec => []IInv
<1>1. IInv /\ [Next]_vars => IInv'
  <2> SUFFICES ASSUME IInv, [Next]_vars PROVE IInv'
    OBVIOUS
  <2>1. TypeInv /\ OrderInv /\ LengthInv
    BY DEF IInv
  <2>2. TypeInv' /\ OrderInv' /\ LengthInv' /\ WholeInv'
    BY <2>1, TypeStep, OrderStep, LengthStep, WholeStep
  <2> QED BY <2>2 DEF IInv
<1> QED BY <1>1, InitIInv, PTL DEF Spec

(* A stream that is not cut never makes read_msg fail with BadMsg.         *)
THEOREM BadMsgMeansCutHolds == Spec => []BadMsgMeansCut
<1>1. IInv => BadMsgMeansCut
  BY DEF IInv, WholeInv, BadMsgMeansCut
<1> QED BY <1>1, Inductive, PTL

(* Bytes that begin as message m's data, and all of them, are message m.   *)
LEMMA DataIs ==
  ASSUME NEW m \in Nat, m >= 1, NEW d \in Seq(Bytes), Len(d) = K,
         \A i \in 1..K : d[i] = <<m, i + 1>>
  PROVE  d = Data(m)
<1> DEFINE e == Data(m)
<1>1. e \in Seq(Bytes) /\ Len(e) = K /\ \A i \in 1..K : e[i] = <<m, i + 1>>
  BY FrameFacts
<1> HIDE DEF e
<1>2. Len(d) = Len(e) /\ \A i \in 1..Len(d) : d[i] = e[i]
  BY <1>1
<1>3. e \in Seq(Bytes)
  BY <1>1
<1>4. d = e
  BY <1>2, <1>3, SeqEqual
<1> QED BY <1>4 DEF e

(* Less has arrived unread than any length that is read at the wrong place *)
(* announces.                                                              *)
BacklogSmall == Len(buf) < 256 * Least(K, Character)

(* 31 messages are always few enough.                                      *)
LEMMA MessagesThatFit == TypeInv /\ Len(buf) <= 31 * (K + 2) => BacklogSmall
<1> SUFFICES ASSUME TypeInv, Len(buf) <= 31 * (K + 2) PROVE BacklogSmall
  OBVIOUS
<1>1. Len(buf) \in Nat
  BY LenProperties DEF TypeInv
<1>2. K \in Nat /\ 1 <= K /\ K <= 255
  BY FramingAssumption DEF FramingAssumption
<1> DEFINE n == Len(buf)
<1>3. n \in Nat /\ n <= 31 * (K + 2)
  BY <1>1
<1> HIDE DEF n
<1>4. CASE K < 32
  <2>1. n < 256 * K
    BY <1>2, <1>3
  <2> QED BY <1>4, <2>1 DEF BacklogSmall, Least, Character, n
<1>5. CASE ~(K < 32)
  <2>1. n < 256 * 32
    BY <1>2, <1>3
  <2> QED BY <1>5, <2>1 DEF BacklogSmall, Least, Character, n
<1> QED BY <1>4, <1>5

LEMMA NoForgeryStep ==
  ASSUME IInv, BacklogSmall, NoForgery, [Next]_vars
  PROVE  NoForgery'
<1>1. TypeInv /\ OrderInv /\ LengthInv /\ sent \in Nat /\ got \in Seq(Seq(Bytes))
  BY DEF IInv, TypeInv
<1> SUFFICES ASSUME ~torn', NEW i \in DOMAIN got' PROVE \E m \in 1..sent' : got'[i] = Data(m)
  BY DEF NoForgery, IsMessage
<1>2. ~torn /\ sent' \in Nat /\ sent <= sent'
  <2>1. CASE Write
    <3>1. PICK n \in 1..(K + 2) : torn' = (torn \/ n < K + 2)
      BY <1>1, <2>1, WriteStream
    <3>2. ~torn
      BY <3>1, Zenon
    <3>3. sent' = sent + 1
      BY <2>1 DEF Write
    <3> QED BY <1>1, <3>2, <3>3
  <2>2. CASE ~Write
    <3>1. torn' = torn /\ sent' = sent
      BY <2>2 DEF Next, Arrive, PeerCloses, Read, ReadNothing, ReadLength, LoseLength, ReadData,
                  Terminating, vars
    <3> QED BY <1>1, <3>1
  <2> QED BY <2>1, <2>2
<1>3. ASSUME i \in DOMAIN got, got'[i] = got[i] PROVE \E m \in 1..sent' : got'[i] = Data(m)
  <2>1. PICK m \in 1..sent : got[i] = Data(m)
    BY <1>2, <1>3 DEF NoForgery, IsMessage
  <2>2. m \in 1..sent'
    BY <1>1, <1>2
  <2> QED BY <1>3, <2>1, <2>2
<1>4. CASE got' = got
  BY <1>3, <1>4
<1>5. CASE got' # got
  <2> DEFINE k == DataBytes
             d == SubSeq(buf, 1, k)
             s == Stream
  <2>1. ReadData
    BY <1>5 DEF Next, Write, Arrive, PeerCloses, Read, ReadNothing, ReadLength, LoseLength,
                Terminating, vars
  <2>2. /\ k = len /\ got' = Append(got, d) /\ pc = "data" /\ (buf # <<>> \/ eof) /\ sent' = sent
    BY <1>5, <2>1 DEF ReadData, DataBytes
  <2>3. /\ k \in 0..Len(buf) /\ d \in Seq(Bytes) /\ Len(d) = k
        /\ \A j \in 1..k : d[j] = s[j]
    BY <1>1, <2>1, ReadDataStream
  <2>4. /\ s \in Seq(Bytes) /\ Len(s) \in Nat /\ Len(buf) \in Nat /\ Len(buf) <= Len(s)
        /\ buf \in Seq(Bytes) /\ (eof => s = buf)
    <3>1. /\ buf \in Seq(Bytes) /\ wire \in Seq(Bytes) /\ (eof => wire = <<>>)
      BY <1>1 DEF TypeInv
    <3>2. eof => Stream = buf
      BY <3>1, ConcatEmptySeq DEF Stream
    <3> QED BY <1>1, <3>1, <3>2, StreamType, StreamFacts
  <2>5. /\ Complete(s)
        /\ \/ len = K /\ s # <<>> /\ s[1][2] = 2
           \/ len = 0 /\ s # <<>>
           \/ len >= 256 * Least(K, Character)
    BY <1>1, <1>2, <2>2 DEF LengthInv
  <2> HIDE DEF k, d, s
  <2>6. len = K /\ s # <<>> /\ s[1][2] = 2
    <3>1. ~(len >= 256 * Least(K, Character))
      <4> DEFINE c == Least(K, Character)
      <4>1. c \in Nat /\ Len(buf) < 256 * c /\ len <= Len(buf) /\ len \in Nat
        BY <2>2, <2>3, <2>4, Bounds DEF BacklogSmall, Least, Character
      <4> HIDE DEF c
      <4>2. ~(len >= 256 * c)
        BY <2>4, <4>1
      <4> QED BY <4>2 DEF c
    <3>2. ASSUME len = 0, s # <<>> PROVE FALSE
      <4>1. Len(buf) # 0
        <5>1. buf # <<>>
          BY <2>2, <2>4, <3>2
        <5> QED BY <2>4, <5>1, EmptySeq
      <4>2. k # 0
        BY <2>4, <3>2, <4>1 DEF k, DataBytes, Least
      <4> QED BY <2>2, <3>2, <4>2
    <3> QED BY <2>5, <3>1, <3>2
  <2>7. 1 \in 1..Len(s)
    <3>1. Len(s) # 0
      BY <2>4, <2>6, EmptySeq
    <3> QED BY <2>4, <3>1
  <2> DEFINE m == s[1][1]
  <2>8. m \in Nat /\ m >= 1 /\ m <= sent
    <3>1. s[1] \in Bytes /\ 1 \in DOMAIN s
      BY <2>4, <2>7, LenProperties, ElementOfSeq
    <3>2. s[1][1] <= sent
      BY <1>1, <3>1 DEF OrderInv, Ordered, s
    <3> QED BY <3>1, <3>2, ByteFacts
  <2>9. ASSUME NEW j \in 1..K PROVE d[j] = <<m, j + 1>>
    <3>1. j + 1 \in Nat /\ s[1][2] <= j + 1 /\ j + 1 <= K + 1 /\ 1 + ((j + 1) - 2) = j
      BY <2>6, Bounds
    <3>2. s[1 + ((j + 1) - s[1][2])] = <<s[1][1], j + 1>>
      BY <2>4, <2>5, <2>7, <3>1, NextByte
    <3>3. s[j] = <<m, j + 1>>
      BY <2>6, <3>1, <3>2
    <3> QED BY <2>2, <2>3, <2>6, <3>3
  <2>10. d = Data(m)
    <3>1. Len(d) = K /\ d \in Seq(Bytes)
      BY <2>2, <2>3, <2>6
    <3> HIDE DEF m
    <3> QED BY <2>8, <2>9, <3>1, DataIs
  <2>11. (i \in DOMAIN got /\ got'[i] = got[i]) \/ got'[i] = d
    <3>1. ASSUME NEW e \in Seq(Bytes)
          PROVE  /\ DOMAIN Append(got, e) = 1..(Len(got) + 1) /\ Len(got) \in Nat
                 /\ DOMAIN got = 1..Len(got)
                 /\ \A j \in 1..Len(got) : Append(got, e)[j] = got[j]
                 /\ Append(got, e)[Len(got) + 1] = e
      BY <1>1, AppendProperties, LenProperties
    <3> DEFINE n == Len(got)
    <3>2. /\ DOMAIN got' = 1..(n + 1) /\ n \in Nat /\ DOMAIN got = 1..n
          /\ \A j \in 1..n : got'[j] = got[j]
          /\ got'[n + 1] = d
      BY <2>2, <2>3, <3>1
    <3> HIDE DEF n
    <3> QED BY <3>2
  <2>12. m \in 1..sent'
    BY <1>1, <2>2, <2>8
  <2> QED BY <1>3, <2>10, <2>11, <2>12
<1> QED BY <1>4, <1>5

(* As long as fewer bytes wait to be read than a misread length announces, *)
(* read_msg returns nothing that was not written as one message, unless a  *)
(* write was cut short.                                                    *)
THEOREM NoForgeryHolds == Spec /\ []BacklogSmall => []NoForgery
<1>1. Init => NoForgery
  BY DEF Init, NoForgery
<1>2. IInv /\ BacklogSmall /\ NoForgery /\ [Next]_vars => NoForgery'
  BY NoForgeryStep
<1> QED BY <1>1, <1>2, Inductive, PTL DEF Spec

--------------------------------------------------------------------------------
(* IMPLEMENTATION OF CHANNEL                                               *)

(* What Received is, when n messages were sent and g was received.         *)
Written(d, n) == \E m \in 1..n : d = Data(m)
Numbers(g, n) == [i \in DOMAIN g |-> IF Written(g[i], n) THEN g[i][1][1] ELSE 0]

LEMMA ReceivedIs == Received = Numbers(got, sent) /\ Received' = Numbers(got', sent')
  BY DEF Received, IsMessage, Numbers, Written

(* A message has at least one byte of data, which tells its number.        *)
LEMMA FirstByte ==
  ASSUME NEW m \in Nat, m >= 1, NEW d, d = Data(m)
  PROVE  1 \in DOMAIN d /\ K \in DOMAIN d /\ d[1][1] = m /\ d[K] = <<m, K + 1>>
<1>1. 1 \in 1..K /\ K \in 1..K
  BY Bounds
<1>2. DOMAIN Data(m) = 1..K /\ Data(m)[1] = <<m, 1 + 1>> /\ Data(m)[K] = <<m, K + 1>>
  BY <1>1, FrameFacts
<1> QED BY <1>1, <1>2

(* Nothing that was received becomes a message by one that is sent later.  *)
LEMMA NumbersStay ==
  ASSUME OrderInv, sent \in Nat
  PROVE  Numbers(got, sent + 1) = Numbers(got, sent)
<1>1. ASSUME NEW i \in DOMAIN got PROVE Written(got[i], sent + 1) <=> Written(got[i], sent)
  <2>1. ASSUME NEW m \in 1..(sent + 1), got[i] = Data(m) PROVE m \in 1..sent
    <3>1. 1 \in DOMAIN got[i] /\ got[i][1][1] = m
      BY <2>1, FirstByte
    <3>2. m <= sent
      BY <3>1 DEF OrderInv, Ordered
    <3> QED BY <3>2
  <2>2. \A m \in 1..sent : m \in 1..(sent + 1)
    OBVIOUS
  <2> QED BY <2>1, <2>2 DEF Written
<1> QED BY <1>1 DEF Numbers

(* Every step of the stream is one of the channel, or none.                *)
LEMMA ChannelStep ==
  ASSUME IInv, [Next]_vars
  PROVE  [Ch!Send \/ Ch!Receive \/ Ch!Garble]_(Ch!vars)
<1> DEFINE r == Numbers(got, sent)
           reliable == cut = "none"
<1>0. TypeInv /\ OrderInv /\ WholeInv /\ LengthInv /\ sent \in Nat /\ got \in Seq(Seq(Bytes))
  BY DEF IInv, TypeInv
<1>1. cut' = cut
  BY DEF Next, Write, Arrive, PeerCloses, Read, ReadNothing, ReadLength, LoseLength, ReadData,
         Terminating, vars
<1>2. CASE Write
  <2>1. sent' = sent + 1 /\ got' = got
    BY <1>2 DEF Write
  <2>2. Received' = Received
    BY <1>0, <2>1, NumbersStay, ReceivedIs
  <2> QED BY <1>1, <2>1, <2>2 DEF Ch!Send
<1>3. CASE got' = got /\ sent' = sent
  <2>1. Received' = Received
    BY <1>3, ReceivedIs
  <2> QED BY <1>1, <1>3, <2>1 DEF Ch!vars
<1>4. CASE ~Write /\ ~(got' = got /\ sent' = sent)
  <2> DEFINE d == SubSeq(buf, 1, DataBytes)
  <2>1. ReadData
    BY <1>4 DEF Next, Arrive, PeerCloses, Read, ReadNothing, ReadLength, LoseLength,
                Terminating, vars
  <2>2. got' = Append(got, d) /\ sent' = sent /\ pc = "data"
    BY <1>4, <2>1 DEF ReadData, DataBytes
  <2>3. /\ Len(d) = DataBytes /\ d \in Seq(Bytes) /\ DataBytes \in 0..Len(buf)
        /\ \A i \in 1..DataBytes : d[i] = Stream[i]
    BY <1>0, <2>1, ReadDataStream
  <2>4. OrderInv'
    BY <1>0, OrderStep
  <2> HIDE DEF d
  <2> DEFINE n == Len(got)
  <2>5. /\ n \in Nat /\ DOMAIN got = 1..n /\ DOMAIN got' = 1..(n + 1)
        /\ \A i \in 1..n : got'[i] = got[i]
        /\ got'[n + 1] = d /\ Append(got, d) \in Seq(Seq(Bytes))
    <3>1. ASSUME NEW e \in Seq(Bytes)
          PROVE  /\ DOMAIN Append(got, e) = 1..(Len(got) + 1) /\ Len(got) \in Nat
                 /\ DOMAIN got = 1..Len(got)
                 /\ \A j \in 1..Len(got) : Append(got, e)[j] = got[j]
                 /\ Append(got, e)[Len(got) + 1] = e
                 /\ Append(got, e) \in Seq(Seq(Bytes))
      BY <1>0, AppendProperties, LenProperties
    <3> QED BY <2>2, <2>3, <3>1
  <2> HIDE DEF n
  <2> DEFINE v == IF Written(d, sent) THEN d[1][1] ELSE 0
  <2>6. Received \in Seq(Nat) /\ Len(Received) = n /\ DOMAIN Received = 1..n
    <3>1. \A i \in 1..n : Written(got[i], sent) => got[i][1][1] \in Nat
      <4> SUFFICES ASSUME NEW i \in 1..n, NEW m \in 1..sent, got[i] = Data(m)
                   PROVE  got[i][1][1] \in Nat
        BY DEF Written
      <4> QED BY <1>0, FirstByte
    <3>2. r \in [1..n -> Nat]
      BY <2>5, <3>1 DEF Numbers
    <3>3. Received = r
      BY ReceivedIs
    <3>4. ASSUME NEW f \in [1..n -> Nat]
          PROVE  f \in Seq(Nat) /\ Len(f) = n /\ DOMAIN f = 1..n
      BY <2>5, LenProperties, SeqDef
    <3> HIDE DEF r
    <3> QED BY <3>2, <3>3, <3>4
  <2>7. Received' = Append(Received, v)
    <3>1. Received' = Numbers(got', sent)
      BY <2>2, ReceivedIs
    <3>2. /\ DOMAIN Numbers(got', sent) = 1..(n + 1)
          /\ \A i \in 1..n : Numbers(got', sent)[i] = r[i]
          /\ Numbers(got', sent)[n + 1] = v
      <4> DEFINE e == got'
      <4>1. /\ DOMAIN e = 1..(n + 1) /\ e[n + 1] = d /\ n \in Nat
            /\ \A i \in 1..n : e[i] = got[i] /\ i \in DOMAIN got
        BY <2>5
      <4> HIDE DEF e
      <4>2. DOMAIN Numbers(e, sent) = 1..(n + 1)
        BY <4>1 DEF Numbers
      <4>3. \A i \in 1..(n + 1) :
              Numbers(e, sent)[i] = IF Written(e[i], sent) THEN e[i][1][1] ELSE 0
        BY <4>1 DEF Numbers
      <4>4. \A i \in 1..n : r[i] = IF Written(got[i], sent) THEN got[i][1][1] ELSE 0
        BY <4>1 DEF Numbers
      <4>5. ASSUME NEW i \in 1..n PROVE Numbers(e, sent)[i] = r[i]
        <5>1. i \in 1..(n + 1)
          BY <4>1
        <5> QED BY <4>1, <4>3, <4>4, <5>1
      <4>6. Numbers(e, sent)[n + 1] = v
        <5>1. n + 1 \in 1..(n + 1)
          BY <4>1
        <5> QED BY <4>1, <4>3, <5>1
      <4> QED BY <4>2, <4>5, <4>6 DEF e
    <3>3. v \in Nat
      <4>1. ASSUME Written(d, sent) PROVE d[1][1] \in Nat
        <5>1. PICK m \in 1..sent : d = Data(m)
          BY <4>1 DEF Written
        <5> QED BY <1>0, <5>1, FirstByte
      <4> QED BY <4>1
    <3>4. Received = r
      BY ReceivedIs
    <3> DEFINE x == Numbers(got', sent)
               y == Append(Received, v)
    <3>5. x \in [1..(n + 1) -> Nat]
      <4>1. \A i \in 1..n : Received[i] \in Nat
        BY <2>6, ElementOfSeq
      <4>2. \A i \in 1..(n + 1) : x[i] \in Nat
        <5> TAKE i \in 1..(n + 1)
        <5>1. i \in 1..n \/ i = n + 1
          BY <2>5
        <5> QED BY <3>2, <3>3, <3>4, <4>1, <5>1
      <4>3. x = [i \in 1..(n + 1) |-> x[i]]
        BY <2>5 DEF Numbers
      <4> HIDE DEF x
      <4> QED BY <4>2, <4>3
    <3>6. /\ y \in Seq(Nat) /\ Len(y) = n + 1
          /\ \A i \in 1..n : y[i] = Received[i]
          /\ y[n + 1] = v
      <4> HIDE DEF v
      <4>1. /\ y \in Seq(Nat) /\ Len(y) = Len(Received) + 1
            /\ \A i \in 1..Len(Received) : y[i] = Received[i]
            /\ y[Len(Received) + 1] = v
        <5>1. Received \in Seq(Nat)
          BY <2>6
        <5> HIDE DEF Received
        <5> QED BY <3>3, <5>1, AppendProperties
      <4> QED BY <2>6, <4>1
    <3> HIDE DEF x, y, v, r
    <3>7. x \in Seq(Nat) /\ Len(x) = n + 1
      <4>1. n + 1 \in Nat
        BY <2>5
      <4>2. ASSUME NEW k \in Nat, NEW f \in [1..k -> Nat]
            PROVE  f \in Seq(Nat) /\ Len(f) = k
        BY LenProperties, SeqDef
      <4> QED BY <3>5, <4>1, <4>2
    <3>8. \A i \in 1..(n + 1) : x[i] = y[i]
      <4> TAKE i \in 1..(n + 1)
      <4>1. i \in 1..n \/ i = n + 1
        BY <2>5
      <4> QED BY <3>2, <3>4, <3>6, <4>1 DEF x
    <3>9. x = y
      BY <3>6, <3>7, <3>8, SeqEqual
    <3> QED BY <3>1, <3>9 DEF x, y
  <2>8. CASE Written(d, sent)
    <3>1. PICK m \in 1..sent : d = Data(m)
      BY <2>8 DEF Written
    <3>2. v = m /\ 1 \in DOMAIN d /\ m \in Nat /\ m >= 1
      BY <1>0, <2>8, <3>1, FirstByte
    <3>3. \A i \in DOMAIN Received : Received[i] < m
      <4> SUFFICES ASSUME NEW i \in 1..n PROVE Received[i] < m
        BY <2>6
      <4>1. CASE Written(got[i], sent)
        <5>1. PICK l \in 1..sent : got[i] = Data(l)
          BY <4>1 DEF Written
        <5>2. K \in DOMAIN got[i] /\ got[i][K] = <<l, K + 1>> /\ got[i][1][1] = l /\ l \in Nat
          BY <1>0, <5>1, FirstByte
        <5>3. d[1] = <<m, 2>>
          <6>1. 1 \in 1..K /\ 1 + 1 = 2
            BY Bounds
          <6> QED BY <3>1, <3>2, <6>1, FrameFacts
        <5>4. Precedes(got[i][K], d[1])
          <6>1. i \in DOMAIN got' /\ n + 1 \in DOMAIN got' /\ i < n + 1
            BY <2>5
          <6>2. \A a, b \in DOMAIN got' : a < b =>
                  \A p \in DOMAIN got'[a] : \A q \in DOMAIN got'[b] : Precedes(got'[a][p], got'[b][q])
            BY <2>4 DEF OrderInv, Ordered, Precedes
          <6> QED BY <2>5, <3>2, <5>2, <6>1, <6>2
        <5>5. l < m
          BY <5>2, <5>3, <5>4, Bounds DEF Precedes
        <5>6. Received[i] = l
          BY <2>5, <4>1, <5>2, ReceivedIs DEF Numbers
        <5> QED BY <5>5, <5>6
      <4>2. CASE ~Written(got[i], sent)
        <5>1. Received[i] = 0
          BY <2>5, <4>2, ReceivedIs DEF Numbers
        <5> QED BY <3>2, <5>1
      <4> QED BY <4>1, <4>2
    <3>4. cut = "none" => m = Len(Received) + 1
      <4> SUFFICES ASSUME cut = "none" PROVE m = n + 1
        BY <2>6
      <4>1. DataBytes = K /\ \A i \in 1..K : Stream[i] = <<Len(got) + 1, i + 1>>
        BY <1>0, <2>2, WholeData
      <4>2. 1 \in 1..K
        BY Bounds
      <4>3. d[1] = <<n + 1, 1 + 1>>
        BY <2>3, <4>1, <4>2 DEF n
      <4>4. d[1][1] = m
        BY <3>1, <3>2, FirstByte
      <4> QED BY <4>3, <4>4
    <3> QED BY <1>1, <2>2, <2>7, <3>2, <3>3, <3>4 DEF Ch!Receive
  <2>9. CASE ~Written(d, sent)
    <3>1. v = 0
      BY <2>9
    <3>2. cut # "none"
      <4> SUFFICES ASSUME cut = "none" PROVE FALSE
        OBVIOUS
      <4> DEFINE m == Len(got) + 1
      <4>1. DataBytes = K /\ (\A i \in 1..K : Stream[i] = <<m, i + 1>>) /\ K \in 1..Len(Stream)
        BY <1>0, <2>2, WholeData
      <4>2. m \in Nat /\ m >= 1
        BY <2>5 DEF n
      <4> HIDE DEF m
      <4>3. Len(d) = K /\ \A i \in 1..K : d[i] = <<m, i + 1>>
        BY <2>3, <4>1
      <4>4. d = Data(m)
        BY <2>3, <4>2, <4>3, DataIs
      <4>5. m <= sent
        <5>1. Stream \in Seq(Bytes)
          BY <1>0, StreamType
        <5>2. K \in DOMAIN Stream
          BY <4>1, <5>1, LenProperties
        <5>3. Stream[K] = <<m, K + 1>>
          BY <4>1, Bounds
        <5>4. Stream[K][1] <= sent
          BY <1>0, <5>2 DEF OrderInv, Ordered
        <5> QED BY <5>3, <5>4
      <4>6. m \in 1..sent
        BY <1>0, <4>2, <4>5
      <4> QED BY <2>9, <4>4, <4>6 DEF Written
    <3> QED BY <1>1, <2>2, <2>7, <3>1, <3>2 DEF Ch!Garble
  <2> QED BY <2>8, <2>9
<1> QED BY <1>2, <1>3, <1>4

(* However the stream is cut, read_msg returns messages in the order in    *)
(* which they were written and none twice; uncut, all of them and nothing  *)
(* else: a connection is the reliable channel that Russula is written over.*)
THEOREM ImplementsChannelHolds == Spec => ImplementsChannel
<1>1. Init => Ch!Init
  <2> SUFFICES ASSUME Init PROVE Ch!Init
    OBVIOUS
  <2>1. got = <<>> /\ sent = 0
    BY DEF Init
  <2>2. Received = <<>>
    BY <2>1 DEF Received
  <2> QED BY <2>1, <2>2 DEF Ch!Init
<1>2. IInv /\ [Next]_vars => [Ch!Send \/ Ch!Receive \/ Ch!Garble]_(Ch!vars)
  BY ChannelStep
<1> QED BY <1>1, <1>2, Inductive, PTL DEF Spec, ImplementsChannel, Ch!Spec
================================================================================
