--------------------------- MODULE SstpRecvProofs ---------------------------
(***************************************************************************)
(* Proofs about the receive side of SstpRecv: the types and the records of *)
(* the stream, that sstp_stream_recv_sstp hands on whole packets in order, *)
(* and that an answer waiting in OpenSSL does not make a live session look *)
(* silent.                                                                 *)
(***************************************************************************)
EXTENDS SstpRecv, SequenceTheorems, TLAPS

-----------------------------------------------------------------------------
(* The inductive invariant.                                                *)

\* The bytes of packets up to number m.
Bytes(m) == {b \in [packet : 0 .. m, at : Nat, of : Lens \cup {EchoLen}] :
               b.at \in 1 .. b.of}

\* The records follow one another in the stream.
Records ==
    /\ \A i \in 1 .. Len(net) : rec < net[i]
    /\ \A i, j \in 1 .. Len(net) : i < j => net[i] < net[j]
    /\ (IF net = << >> THEN rec ELSE net[Len(net)]) + unsent = Len(stream)

\* The types; a packet in the buffer still lacks bytes; and an event waits for
\* the rest of it only if OpenSSL has nothing left.
RecvInv ==
    /\ stream \in Seq(Bytes(made)) /\ buf \in Seq(Bytes(made))
    /\ net \in Seq(Nat) /\ rec \in Nat /\ unsent \in Nat /\ Records
    /\ made \in 0 .. MaxPackets /\ asked \in 0 .. MaxAsked
    /\ length \in [{3, 4} -> 0 .. Base - 1]
    /\ armed \in BOOLEAN /\ reading \in BOOLEAN /\ ~(armed /\ reading)
    /\ echo \in 0 .. EchoLimit + 1 /\ over \in {"no", "silent", "failed"}
    /\ got \in 0 .. made /\ first \in BOOLEAN /\ late \in BOOLEAN
    /\ cut \in BOOLEAN /\ split \in 0 .. 3 /\ lost \in BOOLEAN
    /\ buf # << >> => Len(buf) < sstp_pkt_len(length)
    /\ armed /\ buf # << >> => rec = 0

-----------------------------------------------------------------------------
(* The length of a packet in its two bytes.                                *)

\* Division with remainder.
LEMMA Division ==
    ASSUME NEW b \in Nat, b > 0, NEW n \in Nat
    PROVE  n = b * (n \div b) + (n % b)
BY Z3

\* The bytes of a length, and the length they give.
LEMMA LengthBytes ==
    ASSUME NEW n \in Lens \cup {EchoLen}
    PROVE  /\ n \in Nat /\ n >= 4
           /\ n \div Base \in 0 .. Base - 1 /\ n % Base \in 0 .. Base - 1
           /\ (n \div Base) * Base + (n % Base) = n
<1>1. n \in 4 .. Base * Base - 1 /\ Base \in Nat /\ Base > 0
  BY RecvAssumption
<1>2. n \in Nat /\ n >= 4 /\ n < Base * Base
  BY <1>1
<1> DEFINE q == n \div Base
           r == n % Base
<1>3. q \in Nat /\ r \in 0 .. Base - 1
  BY <1>1, <1>2
<1>4. n = Base * q + r
  BY <1>1, <1>2, Division
<1> HIDE DEF q, r
<1>5. q <= Base - 1
  <2> SUFFICES ASSUME q >= Base PROVE FALSE
    BY <1>1, <1>3
  <2>1. q - Base \in Nat
    BY <1>1, <1>3
  <2>2. PICK k \in Nat : q = Base + k
    BY <1>1, <1>3, <2>1
  <2>3. Base * q = Base * Base + Base * k
    BY ONLY <1>1, <2>2, k \in Nat
  <2>4. Base * k \in Nat /\ Base * Base \in Nat
    BY ONLY <1>1, k \in Nat
  <2> QED  BY ONLY <1>2, <1>3, <1>4, <2>3, <2>4, <1>1
<1>6. q * Base + r = n
  BY <1>1, <1>3, <1>4
<1>7. q \in 0 .. Base - 1
  BY <1>1, <1>3, <1>5
<1>8. /\ q \in 0 .. Base - 1 /\ r \in 0 .. Base - 1 /\ q * Base + r = n
      /\ n \in Nat /\ n >= 4
  BY <1>2, <1>3, <1>6, <1>7
<1> QED  BY ONLY <1>8 DEF q, r

\* What the code takes for a length byte is a byte.
LEMMA LengthByteType ==
    ASSUME NEW m, NEW b \in Bytes(m)
    PROVE  LengthByte(b) \in 0 .. Base - 1
<1>1. b.of \in Lens \cup {EchoLen}
  BY DEF Bytes
<1>2. b.of \div Base \in 0 .. Base - 1 /\ b.of % Base \in 0 .. Base - 1
  BY <1>1, LengthBytes
<1>3. 0 \in 0 .. Base - 1
  BY RecvAssumption
<1> QED  BY <1>2, <1>3 DEF LengthByte

\* The length bytes after a read are bytes.
LEMMA LengthAfterType ==
    ASSUME NEW m, NEW s \in Seq(Bytes(m)), NEW old \in [{3, 4} -> 0 .. Base - 1],
           NEW off \in Nat
    PROVE  LengthAfter(old, off, s) \in [{3, 4} -> 0 .. Base - 1]
<1>1. \A i \in DOMAIN s : s[i] \in Bytes(m)
  BY LenProperties, ElementOfSeq
<1>2. \A i \in {3, 4} :
        (IF i - off \in DOMAIN s THEN LengthByte(s[i - off]) ELSE old[i]) \in 0 .. Base - 1
  BY <1>1, LengthByteType
<1> QED  BY <1>2 DEF LengthAfter

\* A length is a number.
LEMMA PktLenType ==
    ASSUME NEW l \in [{3, 4} -> 0 .. Base - 1]
    PROVE  sstp_pkt_len(l) \in Nat
<1>1. l[3] \in Nat /\ l[4] \in Nat /\ Base \in Nat
  BY RecvAssumption
<1>2. l[3] * Base \in Nat
  BY <1>1
<1> QED  BY <1>1, <1>2 DEF sstp_pkt_len

-----------------------------------------------------------------------------
(* The bytes of the stream.                                                *)

\* A packet's bytes.
LEMMA PacketBytes ==
    ASSUME NEW p \in Nat, NEW n \in Lens \cup {EchoLen}, NEW m \in Nat, p <= m
    PROVE  /\ Packet(p, n) \in Seq(Bytes(m)) /\ Len(Packet(p, n)) = n
           /\ n \in Nat /\ n >= 4
           /\ \A i \in 1 .. n : Packet(p, n)[i] = [packet |-> p, at |-> i, of |-> n]
<1>1. n \in Nat /\ n >= 4
  BY LengthBytes
<1>2. \A i \in 1 .. n : [packet |-> p, at |-> i, of |-> n] \in Bytes(m)
  BY <1>1 DEF Bytes
<1>3. Packet(p, n) \in [1 .. n -> Bytes(m)]
  BY <1>2 DEF Packet
<1>4. Packet(p, n) \in Seq(Bytes(m)) /\ Len(Packet(p, n)) = n
  BY <1>1, <1>3, SeqDef, LenProperties
<1> QED  BY <1>1, <1>4 DEF Packet

\* Bytes of packets up to m are bytes of packets up to a larger number.
LEMMA BytesGrow ==
    ASSUME NEW m \in Nat, NEW k \in Nat, m <= k, NEW s \in Seq(Bytes(m))
    PROVE  s \in Seq(Bytes(k))
<1>1. Bytes(m) \subseteq Bytes(k)
  BY DEF Bytes
<1> QED  BY <1>1, SeqMonotonic

\* The first n elements of a sequence and the others.
LEMMA Split ==
    ASSUME NEW S, NEW s \in Seq(S), NEW n \in 0 .. Len(s)
    PROVE  LET a == SubSeq(s, 1, n)
               c == SubSeq(s, n + 1, Len(s))
           IN  /\ a \in Seq(S) /\ c \in Seq(S)
               /\ Len(a) = n /\ Len(c) = Len(s) - n
               /\ \A i \in 1 .. n : a[i] = s[i]
               /\ \A i \in 1 .. Len(s) - n : c[i] = s[n + i]
               /\ a \o c = s
<1>1. Len(s) \in Nat /\ \A i \in 1 .. Len(s) : s[i] \in S
  BY LenProperties, ElementOfSeq
<1>2. (\A i \in 1 .. n : s[i] \in S) /\ (\A i \in n + 1 .. Len(s) : s[i] \in S)
  BY <1>1
<1>3. /\ SubSeq(s, 1, n) \in Seq(S)
      /\ Len(SubSeq(s, 1, n)) = IF 1 <= n THEN n - 1 + 1 ELSE 0
      /\ \A i \in 1 .. n - 1 + 1 : SubSeq(s, 1, n)[i] = s[1 + i - 1]
  BY <1>1, <1>2, SubSeqProperties
<1>4. /\ SubSeq(s, n + 1, Len(s)) \in Seq(S)
      /\ Len(SubSeq(s, n + 1, Len(s))) = IF n + 1 <= Len(s) THEN Len(s) - (n + 1) + 1 ELSE 0
      /\ \A i \in 1 .. Len(s) - (n + 1) + 1 : SubSeq(s, n + 1, Len(s))[i] = s[(n + 1) + i - 1]
  BY <1>1, <1>2, SubSeqProperties
<1>5. SubSeq(s, 1, n) \o SubSeq(s, n + 1, Len(s)) = s
  <2>1. 1 \in 1 .. Len(s) + 1 /\ n \in 1 - 1 .. Len(s) /\ Len(s) \in n .. Len(s)
    BY <1>1
  <2>2. SubSeq(s, 1, n) \o SubSeq(s, n + 1, Len(s)) = SubSeq(s, 1, Len(s))
    BY <2>1, ConcatAdjacentSubSeq
  <2> QED  BY <2>2, SubSeqFull
<1>6. Len(SubSeq(s, 1, n)) = n /\ Len(SubSeq(s, n + 1, Len(s))) = Len(s) - n
  BY <1>1, <1>3, <1>4
<1>7. \A i \in 1 .. n : SubSeq(s, 1, n)[i] = s[i]
  <2>1. \A i \in 1 .. n : i \in 1 .. n - 1 + 1 /\ 1 + i - 1 = i
    BY <1>1
  <2> QED  BY <1>3, <2>1
<1>8. \A i \in 1 .. Len(s) - n : SubSeq(s, n + 1, Len(s))[i] = s[n + i]
  <2>1. \A i \in 1 .. Len(s) - n :
          i \in 1 .. Len(s) - (n + 1) + 1 /\ (n + 1) + i - 1 = n + i
    BY <1>1
  <2> QED  BY <1>4, <2>1
<1> QED  BY <1>3, <1>4, <1>5, <1>6, <1>7, <1>8

-----------------------------------------------------------------------------
(* One turn of the read loop.                                              *)

\* The record it reads from, how much, and what the buffer then holds.
TurnSize == IF rec > 0 THEN rec ELSE Head(net)
TurnTake == IF Want < TurnSize THEN Want ELSE TurnSize
Taken == SubSeq(stream, 1, TurnTake)
Later == IF rec > 0 THEN net ELSE Tail(net)
TurnBuf == buf \o Taken
TurnLength == LengthAfter(length, Len(buf), Taken)

\* The loop always has room for a byte, and a byte to take.
LEMMA TurnFacts ==
    ASSUME RecvInv, rec > 0 \/ net # << >>
    PROVE  /\ TurnSize \in 1 .. Len(stream) - unsent /\ Len(stream) \in Nat
           /\ TurnTake \in 1 .. TurnSize /\ TurnTake <= Want
           /\ TurnTake \in 0 .. Len(stream)
           /\ Want \in Nat \ {0} /\ Len(buf) \in Nat
<1>1. /\ Len(stream) \in Nat /\ Len(buf) \in Nat /\ Len(net) \in Nat
      /\ net \in Seq(Nat) /\ rec \in Nat /\ unsent \in Nat
  BY LenProperties DEF RecvInv
<1>2. TurnSize \in 1 .. Len(stream) - unsent
  <2>1. CASE net = << >>
    <3>1. rec + unsent = Len(stream)
      BY <2>1 DEF RecvInv, Records
    <3> QED  BY <1>1, <2>1, <3>1 DEF TurnSize
  <2>2. CASE net # << >>
    <3>1. /\ Len(net) \in Nat \ {0} /\ \A i \in 1 .. Len(net) : net[i] \in Nat
          /\ Head(net) = net[1]
      BY <1>1, <2>2, EmptySeq, ElementOfSeq
    <3>2. /\ net[Len(net)] + unsent = Len(stream)
          /\ \A i \in 1 .. Len(net) : rec < net[i]
          /\ \A i, j \in 1 .. Len(net) : i < j => net[i] < net[j]
      BY <2>2 DEF RecvInv, Records
    <3>3. 1 \in 1 .. Len(net) /\ Len(net) \in 1 .. Len(net)
      BY <3>1
    <3>4. net[1] <= net[Len(net)] /\ rec < net[1] /\ net[1] \in Nat /\ net[Len(net)] \in Nat
      <4>1. CASE Len(net) = 1
        BY <3>1, <3>2, <3>3, <4>1
      <4>2. CASE 1 < Len(net)
        BY <3>1, <3>2, <3>3, <4>2
      <4>3. Len(net) = 1 \/ 1 < Len(net)
        BY ONLY <3>1
      <4> QED  BY <4>1, <4>2, <4>3
    <3>5. TurnSize = rec \/ TurnSize = net[1]
      BY <3>1 DEF TurnSize
    <3>6. TurnSize > 0
      BY <1>1, <3>1, <3>4 DEF TurnSize
    <3> QED  BY <1>1, <3>2, <3>4, <3>5, <3>6
  <2> QED  BY <2>1, <2>2
<1>3. Want \in Nat \ {0}
  <2>1. sstp_pkt_len(length) \in Nat
    BY PktLenType DEF RecvInv
  <2>2. CASE Len(buf) >= HeaderLen
    <3>1. buf # << >>
      BY <2>2 DEF HeaderLen
    <3>2. Len(buf) < sstp_pkt_len(length)
      BY <3>1 DEF RecvInv
    <3> QED  BY <1>1, <2>1, <2>2, <3>2 DEF Want
  <2>3. CASE ~(Len(buf) >= HeaderLen)
    <3>1. Want = 4 - Len(buf) /\ Len(buf) < 4 /\ Len(buf) \in Nat
      BY <1>1, <2>3 DEF Want, HeaderLen
    <3>2. \A k \in Nat : k < 4 => 4 - k \in Nat \ {0}
      OBVIOUS
    <3> QED  BY ONLY <3>1, <3>2
  <2> QED  BY <2>2, <2>3
<1>4. TurnTake \in 1 .. TurnSize /\ TurnTake <= Want
  BY <1>1, <1>2, <1>3 DEF TurnTake
<1> QED  BY <1>1, <1>2, <1>3, <1>4

\* What a turn does, in those terms.
LEMMA TurnStep ==
    ASSUME ReadTurn
    PROVE  /\ rec > 0 \/ net # << >>
           /\ reading /\ over = "no" /\ ~lost
           /\ rec' = TurnSize - TurnTake
           /\ net' = [i \in DOMAIN Later |-> Later[i] - TurnTake]
           /\ stream' = SubSeq(stream, TurnTake + 1, Len(stream))
           /\ length' = TurnLength
           /\ \/ /\ Len(TurnBuf) < sstp_pkt_len(TurnLength)
                 /\ buf' = TurnBuf
                 /\ UNCHANGED <<echo, reading, armed, first, lost, got>>
              \/ /\ ~(Len(TurnBuf) < sstp_pkt_len(TurnLength))
                 /\ Handle(TurnBuf)
           /\ split' = IF Len(TurnBuf) < HeaderLen THEN Len(TurnBuf)
                       ELSE IF buf = << >> \/ (buf' = << >> /\ ~lost') THEN 0
                       ELSE split
           /\ UNCHANGED <<unsent, made, asked, over, late, cut>>
BY DEF ReadTurn, Live, TurnSize, TurnTake, Taken, Later, TurnBuf, TurnLength

\* The bytes of a turn.
LEMMA TurnBytes ==
    ASSUME RecvInv, ReadTurn
    PROVE  /\ Taken \in Seq(Bytes(made)) /\ Len(Taken) = TurnTake
           /\ \A i \in 1 .. TurnTake : Taken[i] = stream[i]
           /\ stream' \in Seq(Bytes(made)) /\ Len(stream') = Len(stream) - TurnTake
           /\ \A i \in 1 .. Len(stream) - TurnTake : stream'[i] = stream[TurnTake + i]
           /\ Taken \o stream' = stream
           /\ TurnBuf \in Seq(Bytes(made)) /\ Len(TurnBuf) = Len(buf) + TurnTake
           /\ TurnLength \in [{3, 4} -> 0 .. Base - 1]
           /\ Len(buf) \in Nat /\ Len(stream) \in Nat /\ TurnTake \in Nat \ {0}
           /\ TurnTake <= Len(stream)
<1>1. rec > 0 \/ net # << >>
  BY TurnStep
<1>2. /\ TurnTake \in 0 .. Len(stream) /\ Len(buf) \in Nat /\ Len(stream) \in Nat
      /\ TurnTake \in Nat \ {0} /\ TurnTake <= Len(stream)
  BY <1>1, TurnFacts
<1>3. /\ stream \in Seq(Bytes(made)) /\ buf \in Seq(Bytes(made))
      /\ length \in [{3, 4} -> 0 .. Base - 1]
  BY DEF RecvInv
<1>4. stream' = SubSeq(stream, TurnTake + 1, Len(stream))
  BY TurnStep
<1>5. /\ Taken \in Seq(Bytes(made)) /\ Len(Taken) = TurnTake
      /\ \A i \in 1 .. TurnTake : Taken[i] = stream[i]
      /\ stream' \in Seq(Bytes(made)) /\ Len(stream') = Len(stream) - TurnTake
      /\ \A i \in 1 .. Len(stream) - TurnTake : stream'[i] = stream[TurnTake + i]
      /\ Taken \o stream' = stream
  BY <1>2, <1>3, <1>4, Split DEF Taken
<1>6. TurnBuf \in Seq(Bytes(made)) /\ Len(TurnBuf) = Len(buf) + TurnTake
  BY <1>3, <1>5, ConcatProperties DEF TurnBuf
<1>7. TurnLength \in [{3, 4} -> 0 .. Base - 1]
  BY <1>2, <1>3, <1>5, LengthAfterType DEF TurnLength
<1> QED  BY <1>2, <1>5, <1>6, <1>7

\* A turn keeps the records in line with the stream.
LEMMA TurnRecords ==
    ASSUME RecvInv, ReadTurn
    PROVE  net' \in Seq(Nat) /\ rec' \in Nat /\ Records'
<1>1. /\ rec > 0 \/ net # << >>
      /\ unsent' = unsent
      /\ rec' = TurnSize - TurnTake
      /\ net' = [i \in DOMAIN Later |-> Later[i] - TurnTake]
  BY TurnStep
<1>2. /\ TurnSize \in 1 .. Len(stream) - unsent /\ Len(stream) \in Nat
      /\ TurnTake \in 1 .. TurnSize
  BY <1>1, TurnFacts
<1>3. Len(stream') = Len(stream) - TurnTake
  BY TurnBytes
<1>4. /\ net \in Seq(Nat) /\ Len(net) \in Nat /\ rec \in Nat /\ unsent \in Nat
      /\ \A i \in 1 .. Len(net) : net[i] \in Nat
      /\ \A i \in 1 .. Len(net) : rec < net[i]
      /\ \A i, j \in 1 .. Len(net) : i < j => net[i] < net[j]
      /\ (IF net = << >> THEN rec ELSE net[Len(net)]) + unsent = Len(stream)
  BY LenProperties, ElementOfSeq DEF RecvInv, Records
\* the records after the one at hand
<1>5. /\ Later \in Seq(Nat) /\ Len(Later) \in Nat
      /\ \A i \in 1 .. Len(Later) : Later[i] \in Nat /\ TurnSize < Later[i]
      /\ \A i, j \in 1 .. Len(Later) : i < j => Later[i] < Later[j]
      /\ (IF Later = << >> THEN TurnSize ELSE Later[Len(Later)]) + unsent = Len(stream)
  <2>1. CASE rec > 0
    BY <1>4, <2>1 DEF Later, TurnSize
  <2>2. CASE ~(rec > 0)
    <3>1. net # << >> /\ Later = Tail(net) /\ TurnSize = Head(net)
      BY <1>1, <2>2 DEF Later, TurnSize
    <3>2. /\ Len(net) \in Nat \ {0} /\ Tail(net) \in Seq(Nat)
          /\ Len(Tail(net)) = Len(net) - 1 /\ Head(net) = net[1]
          /\ \A i \in 1 .. Len(Tail(net)) : Tail(net)[i] = net[i + 1]
      BY <1>4, <3>1, HeadTailProperties, EmptySeq
    <3>3. /\ 1 \in 1 .. Len(net)
          /\ \A i \in 1 .. Len(net) - 1 : i + 1 \in 1 .. Len(net) /\ 1 < i + 1
      BY <3>2
    <3>4. \A i \in 1 .. Len(Later) : Later[i] \in Nat /\ TurnSize < Later[i]
      BY <1>4, <3>1, <3>2, <3>3
    <3>5. ASSUME NEW i \in 1 .. Len(Later), NEW j \in 1 .. Len(Later), i < j
          PROVE  Later[i] < Later[j]
      <4>1. /\ i + 1 \in 1 .. Len(net) /\ j + 1 \in 1 .. Len(net) /\ i + 1 < j + 1
            /\ Later[i] = net[i + 1] /\ Later[j] = net[j + 1]
        BY <3>1, <3>2, <3>3, <3>5
      <4> QED  BY <1>4, <4>1
    <3>6. (IF Later = << >> THEN TurnSize ELSE Later[Len(Later)]) + unsent = Len(stream)
      <4>1. net[Len(net)] + unsent = Len(stream)
        BY <1>4, <3>1
      <4>2. CASE Later = << >>
        <5>1. Len(Later) = 0 /\ Len(Later) = Len(net) - 1 /\ Len(net) \in Nat
          BY ONLY <3>1, <3>2, <4>2, EmptySeq
        <5>2. Len(net) = 1
          BY ONLY <5>1
        <5> QED  BY <3>1, <3>2, <4>1, <4>2, <5>2
      <4>3. CASE Later # << >>
        <5>1. Len(Later) \in 1 .. Len(Later) /\ Len(Later) + 1 = Len(net)
          BY <3>1, <3>2, <4>3, EmptySeq
        <5>2. Later[Len(Later)] = net[Len(net)]
          BY <3>1, <3>2, <5>1
        <5> QED  BY <4>1, <4>3, <5>2
      <4> QED  BY <4>2, <4>3
    <3>7. Later \in Seq(Nat) /\ Len(Later) \in Nat
      BY <3>1, <3>2
    <3> QED  BY <3>4, <3>5, <3>6, <3>7
  <2> QED  BY <2>1, <2>2
<1>6. DOMAIN Later = 1 .. Len(Later)
  BY <1>5, LenProperties
<1>7. /\ net' \in [1 .. Len(Later) -> Nat] /\ Len(Later) \in Nat
      /\ \A i \in 1 .. Len(Later) : net'[i] = Later[i] - TurnTake
  <2>1. \A i \in 1 .. Len(Later) : Later[i] - TurnTake \in Nat
    BY <1>2, <1>5
  <2> QED  BY <1>1, <1>5, <1>6, <2>1
<1>8. net' \in Seq(Nat) /\ Len(net') = Len(Later)
  BY <1>7, SeqDef, LenProperties
<1>9. rec' \in Nat
  BY <1>1, <1>2
<1>10. \A i \in 1 .. Len(net') : rec' < net'[i]
  BY <1>1, <1>2, <1>5, <1>7, <1>8
<1>11. \A i, j \in 1 .. Len(net') : i < j => net'[i] < net'[j]
  <2> SUFFICES ASSUME NEW i \in 1 .. Len(Later), NEW j \in 1 .. Len(Later), i < j
               PROVE  net'[i] < net'[j]
    BY <1>8
  <2>1. /\ Later[i] < Later[j] /\ Later[i] \in Nat /\ Later[j] \in Nat
        /\ net'[i] = Later[i] - TurnTake /\ net'[j] = Later[j] - TurnTake
    BY <1>5, <1>7
  <2> QED  BY ONLY <2>1, <1>2
<1>12. (IF net' = << >> THEN rec' ELSE net'[Len(net')]) + unsent' = Len(stream')
  <2>1. net' = << >> <=> Later = << >>
    BY <1>5, <1>8, EmptySeq
  <2>2. CASE Later = << >>
    <3>1. TurnSize + unsent = Len(stream)
      BY <1>5, <2>2
    <3>2. rec' + unsent' = Len(stream')
      BY ONLY <1>1, <1>2, <1>3, <1>4, <3>1
    <3> QED  BY <2>1, <2>2, <3>2
  <2>3. CASE Later # << >>
    <3>1. Later[Len(Later)] + unsent = Len(stream) /\ Len(Later) \in 1 .. Len(Later)
      BY <1>5, <2>3, EmptySeq
    <3>2. net'[Len(net')] = Later[Len(Later)] - TurnTake /\ Later[Len(Later)] \in Nat
      BY <1>5, <1>7, <1>8, <3>1
    <3>3. unsent' = unsent
      BY TurnStep
    <3>4. net'[Len(net')] + unsent' = Len(stream')
      BY ONLY <1>2, <1>3, <1>4, <3>1, <3>2, <3>3
    <3> QED  BY <2>1, <2>3, <3>4
  <2> QED  BY <2>2, <2>3
<1> QED  BY <1>8, <1>9, <1>10, <1>11, <1>12 DEF Records

\* One turn.
LEMMA TurnInv ==
    ASSUME RecvInv, ReadTurn
    PROVE  RecvInv'
<1>1. /\ reading /\ ~armed /\ made' = made /\ asked' = asked /\ unsent' = unsent
      /\ over' = over /\ late' = late /\ cut' = cut /\ length' = TurnLength
  BY TurnStep DEF RecvInv
<1>2. /\ stream' \in Seq(Bytes(made)) /\ TurnBuf \in Seq(Bytes(made))
      /\ Len(TurnBuf) = Len(buf) + TurnTake /\ TurnLength \in [{3, 4} -> 0 .. Base - 1]
      /\ Len(buf) \in Nat /\ TurnTake \in Nat \ {0}
  BY TurnBytes
<1>3. net' \in Seq(Nat) /\ rec' \in Nat /\ Records'
  BY TurnRecords
<1>4. /\ echo \in 0 .. EchoLimit + 1 /\ got \in 0 .. made /\ made \in 0 .. MaxPackets
      /\ first \in BOOLEAN /\ split \in 0 .. 3 /\ lost \in BOOLEAN
      /\ asked \in 0 .. MaxAsked /\ unsent \in Nat /\ over \in {"no", "silent", "failed"}
      /\ late \in BOOLEAN /\ cut \in BOOLEAN
  BY DEF RecvInv
<1>5. /\ buf' \in Seq(Bytes(made)) /\ armed' \in BOOLEAN /\ reading' \in BOOLEAN
      /\ ~(armed' /\ reading') /\ echo' \in 0 .. EchoLimit + 1
      /\ got' \in 0 .. made /\ first' \in BOOLEAN /\ lost' \in BOOLEAN
      /\ buf' # << >> => Len(buf') < sstp_pkt_len(TurnLength) /\ ~armed'
  <2>1. CASE /\ Len(TurnBuf) < sstp_pkt_len(TurnLength) /\ buf' = TurnBuf
             /\ UNCHANGED <<echo, reading, armed, first, lost, got>>
    <3>1. /\ echo' = echo /\ reading' = TRUE /\ armed' = FALSE /\ got' = got
          /\ first' = first /\ lost' = lost
      BY <1>1, <2>1
    <3>2. echo' \in 0 .. EchoLimit + 1 /\ got' \in 0 .. made
      BY <1>4, <3>1
    <3>3. /\ first' \in BOOLEAN /\ lost' \in BOOLEAN /\ buf' \in Seq(Bytes(made))
          /\ Len(buf') < sstp_pkt_len(TurnLength)
      BY <1>2, <1>4, <2>1, <3>1, Zenon
    <3> QED  BY <3>1, <3>2, <3>3, Zenon
  <2>2. CASE Handle(TurnBuf)
    <3>1. buf' = << >> /\ reading' = FALSE /\ armed' = TRUE
      BY <2>2 DEF Handle, Rearmed
    <3>2. echo' \in {0, echo} /\ first' \in BOOLEAN /\ lost' \in BOOLEAN
      BY <2>2, <1>4 DEF Handle, EchoAfter
    <3>3. got' = got \/ (got' = got + 1 /\ TurnBuf[1].packet = got + 1)
      BY <2>2 DEF Handle
    <3>4. TurnBuf[1].packet \in 0 .. made
      <4>1. 1 \in 1 .. Len(TurnBuf)
        BY ONLY <1>2
      <4>2. TurnBuf[1] \in Bytes(made)
        BY ONLY <4>1, <1>2, ElementOfSeq
      <4> QED  BY <4>2 DEF Bytes
    <3>5. got' \in 0 .. made
      BY ONLY <1>4, <3>3, <3>4, RecvAssumption
    <3>6. echo' \in 0 .. EchoLimit + 1
      BY <1>4, <3>2, RecvAssumption
    <3>7. buf' \in Seq(Bytes(made))
      BY <3>1
    <3> QED  BY <3>1, <3>2, <3>5, <3>6, <3>7
  <2> QED  BY <2>1, <2>2, TurnStep
<1>6. split' \in 0 .. 3
  <2>1. \/ split' = Len(TurnBuf) /\ Len(TurnBuf) < HeaderLen
        \/ split' = 0
        \/ split' = split
    BY TurnStep
  <2>2. Len(TurnBuf) \in Nat
    BY <1>2
  <2> QED  BY <1>4, <2>1, <2>2 DEF HeaderLen
<1>7. buf' # << >> => Len(buf') < sstp_pkt_len(length')
  BY <1>1, <1>5
<1>8. armed' /\ buf' # << >> => rec' = 0
  BY <1>5
<1>9. /\ stream' \in Seq(Bytes(made')) /\ buf' \in Seq(Bytes(made'))
      /\ made' \in 0 .. MaxPackets /\ asked' \in 0 .. MaxAsked /\ got' \in 0 .. made'
      /\ unsent' \in Nat /\ length' \in [{3, 4} -> 0 .. Base - 1]
      /\ over' \in {"no", "silent", "failed"} /\ late' \in BOOLEAN /\ cut' \in BOOLEAN
  BY <1>1, <1>2, <1>4, <1>5
<1> QED  BY <1>3, <1>5, <1>6, <1>7, <1>8, <1>9 DEF RecvInv, sstp_pkt_len

\* A packet behind the stream.
LEMMA SendInv ==
    ASSUME RecvInv, NEW n \in Lens \cup {EchoLen}, NEW p \in 0 .. made',
           made' \in 0 .. MaxPackets, made <= made', asked' \in 0 .. MaxAsked,
           stream' = stream \o Packet(p, n), unsent' = unsent + n,
           UNCHANGED <<net, clientVars, armed, reading, over, obsVars>>
    PROVE  RecvInv'
<1>1. made \in Nat /\ made' \in Nat /\ p \in Nat /\ p <= made' /\ got \in 0 .. made
  BY RecvAssumption DEF RecvInv
<1>2. stream \in Seq(Bytes(made')) /\ buf \in Seq(Bytes(made'))
  BY <1>1, BytesGrow DEF RecvInv
<1>3. Packet(p, n) \in Seq(Bytes(made')) /\ Len(Packet(p, n)) = n /\ n \in Nat
  BY <1>1, PacketBytes
<1>4. stream' \in Seq(Bytes(made')) /\ Len(stream') = Len(stream) + n
  BY <1>2, <1>3, ConcatProperties
<1>5. /\ net' = net /\ rec' = rec /\ buf' = buf /\ length' = length /\ armed' = armed
      /\ echo' = echo /\ reading' = reading /\ over' = over /\ got' = got
      /\ first' = first /\ late' = late /\ cut' = cut /\ split' = split /\ lost' = lost
  BY DEF clientVars, obsVars
<1>6. Records'
  <2>1. /\ (IF net = << >> THEN rec ELSE net[Len(net)]) + unsent = Len(stream)
        /\ \A i \in 1 .. Len(net) : rec < net[i]
        /\ \A i, j \in 1 .. Len(net) : i < j => net[i] < net[j]
    BY DEF RecvInv, Records
  <2>2. (IF net = << >> THEN rec ELSE net[Len(net)]) \in Nat /\ unsent \in Nat
    <3>1. net # << >> => Len(net) \in 1 .. Len(net)
      BY EmptySeq, LenProperties DEF RecvInv
    <3> QED  BY <3>1, ElementOfSeq DEF RecvInv
  <2>3. Len(stream) \in Nat
    BY LenProperties DEF RecvInv
  <2>4. (IF net = << >> THEN rec ELSE net[Len(net)]) + unsent' = Len(stream')
    <3> DEFINE e == IF net = << >> THEN rec ELSE net[Len(net)]
    <3>1. e + unsent = Len(stream) /\ e \in Nat
      BY <2>1, <2>2
    <3> HIDE DEF e
    <3>2. e + unsent' = Len(stream')
      BY ONLY <3>1, <2>2, <2>3, <1>3, <1>4, unsent' = unsent + n
    <3> QED  BY <3>2 DEF e
  <2> QED  BY <2>1, <2>4, <1>5 DEF Records
<1>7. got' \in 0 .. made' /\ unsent' \in Nat
  BY <1>1, <1>3, <1>5 DEF RecvInv
<1> QED  BY <1>2, <1>4, <1>5, <1>6, <1>7 DEF RecvInv, sstp_pkt_len

\* A record behind the others.
LEMMA WriteInv ==
    ASSUME RecvInv, NEW n \in 1 .. unsent, ServerWrites(n)
    PROVE  RecvInv'
<1> DEFINE e == IF net = << >> THEN rec ELSE net[Len(net)]
           k == Len(stream) - unsent + n
<1>1. /\ net' = Append(net, k) /\ unsent' = unsent - n
      /\ UNCHANGED <<stream, made, asked, clientVars, armed, reading, over, obsVars>>
  BY DEF ServerWrites
<1>2. /\ net \in Seq(Nat) /\ Len(net) \in Nat /\ \A i \in 1 .. Len(net) : net[i] \in Nat
      /\ rec \in Nat /\ unsent \in Nat /\ Len(stream) \in Nat
  BY LenProperties, ElementOfSeq DEF RecvInv
<1>3. /\ e + unsent = Len(stream)
      /\ \A i \in 1 .. Len(net) : rec < net[i]
      /\ \A i, j \in 1 .. Len(net) : i < j => net[i] < net[j]
  BY DEF RecvInv, Records
<1>4. e \in Nat /\ rec <= e /\ \A i \in 1 .. Len(net) : net[i] <= e
  <2>1. CASE net = << >>
    BY <1>2, <2>1
  <2>2. CASE net # << >>
    <3>1. Len(net) \in 1 .. Len(net) /\ e = net[Len(net)]
      BY <1>2, <2>2, EmptySeq
    <3>2. e \in Nat /\ rec <= e
      BY <1>2, <1>3, <3>1
    <3>3. ASSUME NEW i \in 1 .. Len(net) PROVE net[i] <= e
      <4>1. i = Len(net) \/ i < Len(net)
        BY ONLY i \in 1 .. Len(net), <1>2
      <4>2. i < Len(net) => net[i] < net[Len(net)]
        BY <1>3, <3>1
      <4> QED  BY <1>2, <3>1, <4>1, <4>2
    <3> QED  BY <3>2, <3>3
  <2> QED  BY <2>1, <2>2
<1> HIDE DEF e
<1>5. k = e + n /\ k \in Nat /\ e < k
  <2>1. /\ e \in Nat /\ e + unsent = Len(stream) /\ unsent \in Nat
        /\ Len(stream) \in Nat /\ n \in 1 .. unsent
    BY ONLY <1>2, <1>3, <1>4, n \in 1 .. unsent
  <2> QED  BY ONLY <2>1 DEF k
<1> HIDE DEF k
<1>6. /\ net' \in Seq(Nat) /\ Len(net') = Len(net) + 1 /\ net' # << >>
      /\ \A i \in 1 .. Len(net) : net'[i] = net[i]
      /\ net'[Len(net) + 1] = k
  BY <1>1, <1>2, <1>5, AppendProperties
<1>7. rec' = rec /\ stream' = stream
  BY <1>1 DEF clientVars
<1>8. \A i \in 1 .. Len(net') : i \in 1 .. Len(net) \/ i = Len(net) + 1
  BY <1>2, <1>6
<1>9. \A i \in 1 .. Len(net') : rec' < net'[i]
  <2>1. rec < k
    BY <1>2, <1>4, <1>5
  <2> QED  BY <1>3, <1>6, <1>7, <1>8, <2>1
<1>10. \A i, j \in 1 .. Len(net') : i < j => net'[i] < net'[j]
  <2> SUFFICES ASSUME NEW i \in 1 .. Len(net'), NEW j \in 1 .. Len(net'), i < j
               PROVE  net'[i] < net'[j]
    OBVIOUS
  <2>1. i \in 1 .. Len(net)
    BY ONLY i \in 1 .. Len(net'), j \in 1 .. Len(net'), i < j, <1>6, <1>2
  <2>2. CASE j \in 1 .. Len(net)
    BY <1>3, <1>6, <2>1, <2>2
  <2>3. CASE j = Len(net) + 1
    <3>1. net[i] < k
      BY <1>2, <1>4, <1>5, <2>1
    <3> QED  BY <1>6, <2>1, <2>3, <3>1
  <2> QED  BY <1>8, <2>2, <2>3
<1>11. net'[Len(net')] + unsent' = Len(stream') /\ unsent' \in Nat
  BY <1>1, <1>2, <1>3, <1>4, <1>5, <1>6, <1>7
<1>12. Records'
  BY <1>6, <1>9, <1>10, <1>11 DEF Records
<1> QED  BY <1>1, <1>6, <1>11, <1>12 DEF RecvInv, clientVars, obsVars, sstp_pkt_len

\* The timeout.
LEMMA TimeoutInv ==
    ASSUME RecvInv, Timeout
    PROVE  RecvInv'
<1>1. /\ late' \in BOOLEAN
      /\ UNCHANGED <<stream, unsent, made, net, rec, length, reading, got, first, split, lost>>
  BY DEF Timeout
<1>2. Records'
  BY <1>1 DEF RecvInv, Records
<1>3. CASE /\ over' = "silent" /\ armed' = FALSE /\ UNCHANGED <<echo, asked, buf, cut>>
  BY <1>1, <1>2, <1>3 DEF RecvInv, sstp_pkt_len
<1>4. CASE /\ ~Silent /\ asked < MaxAsked /\ sstp_state_echo_request
           /\ buf' = << >> /\ cut' = (cut \/ buf # << >>) /\ UNCHANGED <<over, armed>>
  <2>1. echo' \in 0 .. EchoLimit + 1
    BY <1>4, RecvAssumption DEF RecvInv, Silent, sstp_state_echo_request
  <2>2. asked' \in 0 .. MaxAsked
    BY <1>4, RecvAssumption DEF RecvInv, sstp_state_echo_request
  <2>3. buf' \in Seq(Bytes(made')) /\ cut' \in BOOLEAN
    BY <1>4
  <2> QED  BY <1>1, <1>2, <1>4, <2>1, <2>2, <2>3 DEF RecvInv, sstp_pkt_len
<1> QED  BY <1>3, <1>4 DEF Timeout

\* Every step keeps the invariant.
LEMMA RecvInvStep ==
    ASSUME RecvInv, [Next]_vars
    PROVE  RecvInv'
<1>1. CASE UNCHANGED vars
  BY <1>1 DEF RecvInv, Records, vars, serverVars, clientVars, obsVars, sstp_pkt_len
<1>2. ASSUME NEW n \in Lens, ServerSends(n) PROVE RecvInv'
  <2>1. /\ made' = made + 1 /\ made < MaxPackets /\ stream' = stream \o Packet(made + 1, n)
        /\ unsent' = unsent + n /\ asked' = asked
        /\ UNCHANGED <<net, clientVars, armed, reading, over, obsVars>>
    BY <1>2 DEF ServerSends
  <2>2. /\ made + 1 \in 0 .. made' /\ made' \in 0 .. MaxPackets /\ made <= made'
        /\ asked' \in 0 .. MaxAsked
    BY <2>1, RecvAssumption DEF RecvInv
  <2> QED  BY <2>1, <2>2, SendInv
<1>3. ASSUME ServerAnswers PROVE RecvInv'
  <2>1. /\ made' = made /\ asked > 0 /\ asked' = asked - 1 /\ unsent' = unsent + EchoLen
        /\ stream' = stream \o Packet(EchoReply, EchoLen)
        /\ UNCHANGED <<net, clientVars, armed, reading, over, obsVars>>
    BY <1>3 DEF ServerAnswers
  <2>2. /\ EchoReply \in 0 .. made' /\ made' \in 0 .. MaxPackets /\ made <= made'
        /\ asked' \in 0 .. MaxAsked
    BY <2>1, RecvAssumption DEF RecvInv, EchoReply
  <2> QED  BY <2>1, <2>2, SendInv
<1>4. ASSUME NEW n \in 1 .. unsent, ServerWrites(n) PROVE RecvInv'
  BY <1>4, WriteInv
<1>5. ASSUME Readable PROVE RecvInv'
  BY <1>5 DEF Readable, RecvInv, Records, serverVars, clientVars, obsVars, sstp_pkt_len
<1>6. ASSUME ReadTurn PROVE RecvInv'
  BY <1>6, TurnInv
<1>7. ASSUME ReadBlocks PROVE RecvInv'
  BY <1>7 DEF ReadBlocks, RecvInv, Records, serverVars, clientVars, obsVars, sstp_pkt_len
<1>8. ASSUME ReadFails PROVE RecvInv'
  BY <1>8 DEF ReadFails, RecvInv, Records, serverVars, clientVars, obsVars, sstp_pkt_len
<1>9. ASSUME Timeout PROVE RecvInv'
  BY <1>9, TimeoutInv
<1> QED  BY <1>1, <1>2, <1>3, <1>4, <1>5, <1>6, <1>7, <1>8, <1>9
         DEF Next, Server, Writes, Client

\* The start.
LEMMA RecvInvInit ==
    ASSUME Init
    PROVE  RecvInv
<1>1. length \in [{3, 4} -> 0 .. Base - 1]
  BY RecvAssumption DEF Init
<1>2. Records
  BY DEF Init, Records
<1>3. /\ stream \in Seq(Bytes(made)) /\ buf \in Seq(Bytes(made)) /\ net \in Seq(Nat)
  BY DEF Init
<1>4. /\ made \in 0 .. MaxPackets /\ asked \in 0 .. MaxAsked /\ echo \in 0 .. EchoLimit + 1
      /\ got \in 0 .. made /\ split \in 0 .. 3 /\ rec \in Nat /\ unsent \in Nat
  BY RecvAssumption DEF Init
<1> QED  BY <1>1, <1>2, <1>3, <1>4 DEF Init, RecvInv

\* The invariant gives the types.
LEMMA RecvInvType ==
    ASSUME RecvInv
    PROVE  TypeOK
<1>1. DOMAIN stream = 1 .. Len(stream) /\ DOMAIN net = 1 .. Len(net)
  BY LenProperties DEF RecvInv
<1>2. ASSUME NEW i \in DOMAIN stream
      PROVE  /\ stream[i].packet \in 0 .. MaxPackets
             /\ stream[i].of \in Lens \cup {EchoLen}
             /\ stream[i].at \in 1 .. stream[i].of
  <2>1. stream[i] \in Bytes(made)
    BY <1>1, ElementOfSeq DEF RecvInv
  <2>2. made \in 0 .. MaxPackets
    BY DEF RecvInv
  <2> QED  BY <2>1, <2>2, RecvAssumption DEF Bytes
<1>3. /\ \A i \in DOMAIN net : net[i] > rec
      /\ \A i, j \in DOMAIN net : i < j => net[i] < net[j]
      /\ (IF net = << >> THEN rec ELSE net[Len(net)]) + unsent = Len(stream)
  <2>1. \A i \in DOMAIN net : net[i] \in Nat
    BY <1>1, ElementOfSeq DEF RecvInv
  <2> QED  BY <1>1, <2>1 DEF RecvInv, Records
<1> QED  BY <1>2, <1>3 DEF RecvInv, TypeOK

\* The records of the stream stay in line with its bytes, the buffer of
\* sstp_stream_recv_sstp stays within a packet and every variable keeps its
\* type, for every size of packet, record and byte.
THEOREM TypeCorrect == Spec => []TypeOK
<1>1. Init => RecvInv
  BY RecvInvInit
<1>2. RecvInv /\ [Next]_vars => RecvInv'
  BY RecvInvStep
<1>3. RecvInv => TypeOK
  BY RecvInvType
<1> QED  BY <1>1, <1>2, <1>3, PTL DEF Spec

-----------------------------------------------------------------------------
(* The packets of the stream.                                              *)

\* Every byte stands in its whole packet.
Blocks(t) ==
    \A i \in 1 .. Len(t) : \A a \in 1 .. t[i].of :
        /\ i - t[i].at + a \in 1 .. Len(t)
        /\ t[i - t[i].at + a] = [packet |-> t[i].packet, at |-> a, of |-> t[i].of]

\* Byte i comes before byte j in the server's packets.
Before(b, c) == b.packet < c.packet \/ (b.packet = c.packet /\ b.at < c.at)

\* The packets are Echo-Replies and, in order, the ones after number g up to
\* number m.
Numbered(t, g, m) ==
    /\ \A i \in 1 .. Len(t) : t[i].packet = EchoReply \/ t[i].packet \in g + 1 .. m
    /\ \A i, j \in 1 .. Len(t) :
          i < j /\ t[i].packet # EchoReply /\ t[j].packet # EchoReply => Before(t[i], t[j])
    /\ \A p \in g + 1 .. m : \E i \in 1 .. Len(t) : t[i].packet = p

\* A byte of a stream.
LEMMA ByteOf ==
    ASSUME NEW m \in Nat, NEW t \in Seq(Bytes(m)), NEW i \in 1 .. Len(t)
    PROVE  /\ t[i].packet \in 0 .. m /\ t[i].packet \in Nat
           /\ t[i].of \in Nat /\ t[i].of >= 4 /\ t[i].of \in Lens \cup {EchoLen}
           /\ t[i].at \in 1 .. t[i].of /\ t[i].at \in Nat
<1>1. t[i] \in Bytes(m)
  BY ElementOfSeq
<1>2. /\ t[i].packet \in 0 .. m /\ t[i].of \in Lens \cup {EchoLen}
      /\ t[i].at \in 1 .. t[i].of /\ t[i].at \in Nat
  BY <1>1 DEF Bytes
<1>3. t[i].of \in Nat /\ t[i].of >= 4
  BY <1>2, LengthBytes
<1> QED  BY <1>2, <1>3

\* A stream begins with a whole packet.
LEMMA HeadBlock ==
    ASSUME NEW m \in Nat, NEW t \in Seq(Bytes(m)), Blocks(t), t # << >>
    PROVE  /\ 1 \in 1 .. Len(t) /\ t[1].of \in 4 .. Len(t)
           /\ \A a \in 1 .. t[1].of :
                 t[a] = [packet |-> t[1].packet, at |-> a, of |-> t[1].of]
<1>1. 1 \in 1 .. Len(t) /\ Len(t) \in Nat
  BY EmptySeq, LenProperties
<1>2. t[1].of \in Nat /\ t[1].of >= 4 /\ t[1].at \in 1 .. t[1].of
  BY <1>1, ByteOf
<1>3. \A a \in 1 .. t[1].of :
        /\ 1 - t[1].at + a \in 1 .. Len(t)
        /\ t[1 - t[1].at + a] = [packet |-> t[1].packet, at |-> a, of |-> t[1].of]
  BY <1>1 DEF Blocks
<1>4. t[1].at = 1
  <2>1. 1 \in 1 .. t[1].of
    BY ONLY <1>2
  <2>2. 1 - t[1].at + 1 \in 1 .. Len(t)
    BY <1>3, <2>1
  <2> QED  BY ONLY <1>1, <1>2, <2>2
<1>5. \A a \in 1 .. t[1].of : 1 - t[1].at + a = a
  BY ONLY <1>2, <1>4
<1>6. \A a \in 1 .. t[1].of :
        a \in 1 .. Len(t) /\ t[a] = [packet |-> t[1].packet, at |-> a, of |-> t[1].of]
  BY <1>3, <1>5
<1>7. t[1].of \in 1 .. t[1].of
  BY ONLY <1>2
<1>8. t[1].of \in 4 .. Len(t)
  <2>1. t[1].of \in 1 .. Len(t)
    BY <1>6, <1>7
  <2> QED  BY ONLY <1>1, <1>2, <2>1
<1> QED  BY <1>1, <1>6, <1>8

\* v is s followed by u.
Joined(s, u, v) ==
    /\ Len(v) = Len(s) + Len(u) /\ Len(s) \in Nat /\ Len(u) \in Nat
    /\ \A i \in 1 .. Len(s) : i \in 1 .. Len(v) /\ v[i] = s[i]
    /\ \A i \in 1 .. Len(u) : Len(s) + i \in 1 .. Len(v) /\ v[Len(s) + i] = u[i]
    /\ \A i \in 1 .. Len(v) :
          i \in 1 .. Len(s) \/ \E k \in 1 .. Len(u) : i = Len(s) + k

\* The elements of a concatenation.
LEMMA Join ==
    ASSUME NEW S, NEW s \in Seq(S), NEW u \in Seq(S)
    PROVE  s \o u \in Seq(S) /\ Joined(s, u, s \o u)
<1>1. Len(s) \in Nat /\ Len(u) \in Nat
  BY LenProperties
<1>2. /\ s \o u \in Seq(S) /\ Len(s \o u) = Len(s) + Len(u)
      /\ \A i \in 1 .. Len(s) + Len(u) :
            (s \o u)[i] = IF i <= Len(s) THEN s[i] ELSE u[i - Len(s)]
  BY ConcatProperties
<1>3. \A i \in 1 .. Len(s) : i \in 1 .. Len(s) + Len(u) /\ i <= Len(s)
  BY ONLY <1>1
<1>4. \A i \in 1 .. Len(u) : /\ Len(s) + i \in 1 .. Len(s) + Len(u)
                             /\ ~(Len(s) + i <= Len(s)) /\ Len(s) + i - Len(s) = i
  BY ONLY <1>1
<1>5. ASSUME NEW i \in 1 .. Len(s) + Len(u)
      PROVE  i \in 1 .. Len(s) \/ \E k \in 1 .. Len(u) : i = Len(s) + k
  <2>1. CASE i <= Len(s)
    BY ONLY <1>1, <2>1, i \in 1 .. Len(s) + Len(u)
  <2>2. CASE ~(i <= Len(s))
    <3>1. i - Len(s) \in 1 .. Len(u) /\ i = Len(s) + (i - Len(s))
      BY ONLY <1>1, <2>2, i \in 1 .. Len(s) + Len(u)
    <3> QED  BY <3>1
  <2> QED  BY <2>1, <2>2
<1>6. \A i \in 1 .. Len(s) : (s \o u)[i] = s[i]
  BY <1>2, <1>3
<1>7. \A i \in 1 .. Len(u) : (s \o u)[Len(s) + i] = u[i]
  BY <1>2, <1>4
<1> QED  BY <1>1, <1>2, <1>3, <1>4, <1>5, <1>6, <1>7 DEF Joined

\* Another packet keeps the packets whole.
LEMMA BlocksSend ==
    ASSUME NEW m \in Nat, NEW t \in Seq(Bytes(m)), Blocks(t),
           NEW p \in 0 .. m, NEW n \in Lens \cup {EchoLen}
    PROVE  Blocks(t \o Packet(p, n))
<1> DEFINE u == Packet(p, n)
<1>1. /\ u \in Seq(Bytes(m)) /\ Len(u) = n /\ n \in Nat /\ n >= 4
      /\ \A i \in 1 .. n : u[i] = [packet |-> p, at |-> i, of |-> n]
  BY PacketBytes
<1> HIDE DEF u
<1> DEFINE v == t \o u
<1>J. Joined(t, u, v)
  BY <1>1, Join
<1> HIDE DEF v
<1>2. /\ Len(v) = Len(t) + n /\ Len(t) \in Nat
      /\ \A i \in 1 .. Len(t) : i \in 1 .. Len(v) /\ v[i] = t[i]
      /\ \A i \in 1 .. n : Len(t) + i \in 1 .. Len(v) /\ v[Len(t) + i] = u[i]
      /\ \A i \in 1 .. Len(v) : i \in 1 .. Len(t) \/ \E k \in 1 .. n : i = Len(t) + k
  BY <1>1, <1>J DEF Joined
<1> SUFFICES ASSUME NEW i \in 1 .. Len(v), NEW a \in 1 .. v[i].of
             PROVE  /\ i - v[i].at + a \in 1 .. Len(v)
                    /\ v[i - v[i].at + a] = [packet |-> v[i].packet, at |-> a, of |-> v[i].of]
  BY DEF Blocks, u, v
<1>3. CASE i \in 1 .. Len(t)
  <2>1. v[i] = t[i] /\ a \in 1 .. t[i].of
    BY <1>2, <1>3
  <2>2. /\ i - t[i].at + a \in 1 .. Len(t)
        /\ t[i - t[i].at + a] = [packet |-> t[i].packet, at |-> a, of |-> t[i].of]
    BY <1>3, <2>1 DEF Blocks
  <2> QED  BY <1>2, <2>1, <2>2
<1>4. CASE \E k \in 1 .. n : i = Len(t) + k
  <2>1. PICK k \in 1 .. n : i = Len(t) + k
    BY <1>4
  <2>2. v[i] = [packet |-> p, at |-> k, of |-> n]
    BY <1>1, <1>2, <2>1
  <2>3. v[i].packet = p /\ v[i].at = k /\ v[i].of = n /\ a \in 1 .. n
    BY <2>2
  <2>4. i - k + a = Len(t) + a
    BY ONLY <1>1, <1>2, <2>1, <2>3
  <2>5. Len(t) + a \in 1 .. Len(v) /\ v[Len(t) + a] = [packet |-> p, at |-> a, of |-> n]
    BY <1>1, <1>2, <2>3
  <2> QED  BY <2>3, <2>4, <2>5
<1> QED  BY <1>2, <1>3, <1>4

\* Another packet keeps the numbers in order.
LEMMA NumberedSend ==
    ASSUME NEW m \in Nat, NEW k \in Nat, NEW t \in Seq(Bytes(m)), NEW g \in 0 .. m,
           Numbered(t, g, m), NEW p \in Nat, NEW n \in Lens \cup {EchoLen},
           (p = EchoReply /\ k = m) \/ (p = m + 1 /\ k = m + 1)
    PROVE  Numbered(t \o Packet(p, n), g, k)
<1> DEFINE u == Packet(p, n)
<1>0. m <= k /\ p <= k /\ g \in Nat
  BY DEF EchoReply
<1>1. /\ u \in Seq(Bytes(k)) /\ Len(u) = n /\ n \in Nat /\ n >= 4
      /\ \A i \in 1 .. n : u[i] = [packet |-> p, at |-> i, of |-> n]
  BY <1>0, PacketBytes
<1> HIDE DEF u
<1> DEFINE v == t \o u
<1>J. Joined(t, u, v)
  BY <1>0, <1>1, Join, BytesGrow
<1> HIDE DEF v
<1>2. /\ Len(v) = Len(t) + n /\ Len(t) \in Nat
      /\ \A i \in 1 .. Len(t) : i \in 1 .. Len(v) /\ v[i] = t[i]
      /\ \A i \in 1 .. n : Len(t) + i \in 1 .. Len(v) /\ v[Len(t) + i] = u[i]
      /\ \A i \in 1 .. Len(v) : i \in 1 .. Len(t) \/ \E x \in 1 .. n : i = Len(t) + x
  BY <1>1, <1>J DEF Joined
<1>3. ASSUME NEW i \in 1 .. n PROVE v[Len(t) + i].packet = p /\ v[Len(t) + i].at = i
  <2>1. v[Len(t) + i] = u[i]
    BY ONLY <1>2, i \in 1 .. n
  <2>2. u[i] = [packet |-> p, at |-> i, of |-> n]
    BY ONLY <1>1, i \in 1 .. n
  <2>3. v[Len(t) + i] = [packet |-> p, at |-> i, of |-> n]
    BY ONLY <2>1, <2>2
  <2> QED  BY ONLY <2>3
<1>4. /\ \A i \in 1 .. Len(t) : t[i].packet = EchoReply \/ t[i].packet \in g + 1 .. m
      /\ \A i, j \in 1 .. Len(t) :
           i < j /\ t[i].packet # EchoReply /\ t[j].packet # EchoReply => Before(t[i], t[j])
      /\ \A q \in g + 1 .. m : \E i \in 1 .. Len(t) : t[i].packet = q
  BY DEF Numbered
<1>5. ASSUME NEW i \in 1 .. Len(v)
      PROVE  v[i].packet = EchoReply \/ v[i].packet \in g + 1 .. k
  <2>1. CASE i \in 1 .. Len(t)
    <3>1. v[i].packet = EchoReply \/ v[i].packet \in g + 1 .. m
      BY <1>2, <1>4, <2>1
    <3>2. \A q \in g + 1 .. m : q \in g + 1 .. k
      BY ONLY <1>0, g \in Nat, m \in Nat, k \in Nat
    <3> QED  BY <3>1, <3>2
  <2>2. CASE \E x \in 1 .. n : i = Len(t) + x
    <3>1. v[i].packet = p
      BY <1>3, <2>2
    <3>2. p = EchoReply \/ p \in g + 1 .. k
      OBVIOUS
    <3> QED  BY <3>1, <3>2
  <2> QED  BY <1>2, <2>1, <2>2
<1>6. ASSUME NEW i \in 1 .. Len(v), NEW j \in 1 .. Len(v), i < j,
             v[i].packet # EchoReply, v[j].packet # EchoReply
      PROVE  Before(v[i], v[j])
  <2>1. CASE j \in 1 .. Len(t)
    <3>1. i \in 1 .. Len(t)
      BY ONLY <1>2, <2>1, <1>6, i \in 1 .. Len(v)
    <3> QED  BY <1>2, <1>4, <1>6, <2>1, <3>1
  <2>2. CASE \E x \in 1 .. n : j = Len(t) + x
    <3>1. PICK x \in 1 .. n : j = Len(t) + x
      BY <2>2
    <3>2. v[j].packet = p /\ v[j].at = x /\ p = m + 1
      BY <1>3, <1>6, <3>1
    <3>3. CASE i \in 1 .. Len(t)
      <4>1. v[i].packet \in g + 1 .. m
        BY <1>2, <1>4, <1>6, <3>3
      <4>2. v[i].packet < p
        BY ONLY <4>1, <3>2, m \in Nat, g \in Nat, <1>0
      <4> QED  BY <3>2, <4>2 DEF Before
    <3>4. CASE \E y \in 1 .. n : i = Len(t) + y
      <4>1. PICK y \in 1 .. n : i = Len(t) + y
        BY <3>4
      <4>2. v[i].packet = p /\ v[i].at = y
        BY <1>3, <4>1
      <4>3. y < x
        BY ONLY <1>1, <1>2, <1>6, <3>1, <4>1
      <4> QED  BY <3>2, <4>2, <4>3 DEF Before
    <3> QED  BY <1>2, <3>3, <3>4
  <2> QED  BY <1>2, <2>1, <2>2
<1>7. ASSUME NEW q \in g + 1 .. k PROVE \E i \in 1 .. Len(v) : v[i].packet = q
  <2>1. CASE q \in g + 1 .. m
    BY <1>2, <1>4, <2>1
  <2>2. CASE ~(q \in g + 1 .. m)
    <3>1. p = q
      BY ONLY <1>0, <2>2, q \in g + 1 .. k, m \in Nat, k \in Nat,
              (p = EchoReply /\ k = m) \/ (p = m + 1 /\ k = m + 1)
    <3>2. 1 \in 1 .. n
      BY ONLY <1>1
    <3>3. Len(t) + 1 \in 1 .. Len(v) /\ v[Len(t) + 1].packet = q
      BY <1>2, <1>3, <3>1, <3>2
    <3> QED  BY <3>3
  <2> QED  BY <2>1, <2>2
<1>8. Numbered(v, g, k)
  BY <1>5, <1>6, <1>7 DEF Numbered
<1> QED  BY <1>8 DEF v, u

\* The first packet is an Echo-Reply or the next one.
LEMMA HeadNumber ==
    ASSUME NEW m \in Nat, NEW t \in Seq(Bytes(m)), NEW g \in 0 .. m, Blocks(t),
           Numbered(t, g, m), t # << >>
    PROVE  t[1].packet \in {EchoReply, g + 1}
<1>1. 1 \in 1 .. Len(t) /\ Len(t) \in Nat /\ g \in Nat
  BY EmptySeq, LenProperties
<1> SUFFICES ASSUME t[1].packet # EchoReply PROVE t[1].packet = g + 1
  OBVIOUS
<1>2. t[1].packet \in g + 1 .. m
  BY <1>1 DEF Numbered
<1>3. g + 1 \in g + 1 .. m
  BY ONLY <1>1, <1>2, m \in Nat
<1>4. PICK i \in 1 .. Len(t) : t[i].packet = g + 1
  BY <1>3 DEF Numbered
<1>5. CASE i = 1
  BY <1>4, <1>5
<1>6. CASE i # 1
  <2>1. 1 < i
    BY ONLY <1>1, <1>6, i \in 1 .. Len(t)
  <2>2. t[i].packet # EchoReply
    BY <1>1, <1>4 DEF EchoReply
  <2>3. Before(t[1], t[i])
    BY <1>1, <2>1, <2>2 DEF Numbered
  <2>4. t[1].packet <= g + 1
    BY <1>1, <1>2, <1>4, <2>3 DEF Before
  <2> QED  BY ONLY <1>1, <1>2, <2>4, m \in Nat
<1> QED  BY <1>5, <1>6

\* A stream and the rest of it after its first packet.
Dropped(t, u) ==
    LET n == t[1].of
    IN  /\ Len(t) = n + Len(u) /\ Len(u) \in Nat
        /\ \A i \in 1 .. Len(u) : n + i \in 1 .. Len(t) /\ u[i] = t[n + i]

\* No packet reaches back into the first one.
LEMMA BehindHead ==
    ASSUME NEW m \in Nat, NEW t \in Seq(Bytes(m)), Blocks(t), t # << >>,
           NEW u \in Seq(Bytes(m)), Dropped(t, u),
           NEW i \in 1 .. Len(u), NEW a \in 1 .. u[i].of
    PROVE  /\ i - u[i].at + a \in 1 .. Len(u)
           /\ u[i - u[i].at + a] = [packet |-> u[i].packet, at |-> a, of |-> u[i].of]
<1> DEFINE n == t[1].of
           x == u[i].at
<1>1. /\ Len(t) = n + Len(u) /\ Len(u) \in Nat /\ n + i \in 1 .. Len(t) /\ u[i] = t[n + i]
      /\ \A k \in 1 .. Len(u) : u[k] = t[n + k]
  BY DEF Dropped
<1>2. /\ n \in 4 .. Len(t) /\ Len(t) \in Nat
      /\ \A k \in 1 .. n : t[k] = [packet |-> t[1].packet, at |-> k, of |-> n]
  BY HeadBlock, LenProperties
<1>3. /\ x \in 1 .. u[i].of /\ u[i].of \in Nat
  BY ByteOf
<1>4. /\ (n + i) - x + a \in 1 .. Len(t)
      /\ t[(n + i) - x + a] = [packet |-> u[i].packet, at |-> a, of |-> u[i].of]
  BY <1>1 DEF Blocks
<1> HIDE DEF n, x
<1>5. i - x + a >= 1
  <2> SUFFICES ASSUME ~(i - x + a >= 1) PROVE FALSE
    OBVIOUS
  <2> DEFINE k == (n + i) - x + a
  <2>0. /\ n \in Nat /\ x \in Nat /\ i \in Nat /\ a \in Nat /\ i >= 1
        /\ Len(t) \in Nat /\ k \in 1 .. Len(t) /\ k \in Int
    <3>1. n \in Nat /\ Len(t) \in Nat
      BY ONLY <1>2
    <3>2. x \in Nat /\ a \in Nat
      BY ONLY <1>3, a \in 1 .. u[i].of
    <3>3. i \in Nat /\ i >= 1
      BY ONLY <1>1, i \in 1 .. Len(u)
    <3>4. k \in 1 .. Len(t)
      BY ONLY <1>4
    <3> QED  BY ONLY <3>1, <3>2, <3>3, <3>4
  <2>1. k \in 1 .. n
    BY ONLY <2>0, ~(i - x + a >= 1)
  <2>2. t[k] = [packet |-> t[1].packet, at |-> k, of |-> n]
    BY <1>2, <2>1
  <2>3. t[k] = [packet |-> u[i].packet, at |-> a, of |-> u[i].of]
    BY <1>4
  <2> HIDE DEF k
  <2>4. k = a /\ n = u[i].of
    <3>1. t[k].at = k /\ t[k].of = n
      BY <2>2
    <3>2. t[k].at = a /\ t[k].of = u[i].of
      BY <2>3
    <3> QED  BY <3>1, <3>2
  <2>5. x <= n
    BY <1>3, <2>4
  <2>6. (n + i) - x + a = a
    BY <2>4 DEF k
  <2> QED  BY ONLY <2>0, <2>5, <2>6
<1>6. i - x + a \in 1 .. Len(u) /\ (n + i) - x + a = n + (i - x + a)
  <2>1. /\ n \in Nat /\ Len(t) \in Nat /\ Len(u) \in Nat /\ Len(t) = n + Len(u)
        /\ (n + i) - x + a \in 1 .. Len(t)
    BY <1>1, <1>2, <1>4
  <2>2. x \in Nat /\ i \in Nat /\ a \in Nat
    BY <1>3
  <2> QED  BY ONLY <2>1, <2>2, <1>5
<1>7. u[i - x + a] = t[n + (i - x + a)]
  BY <1>1, <1>6
<1>8. u[i - x + a] = [packet |-> u[i].packet, at |-> a, of |-> u[i].of]
  BY <1>4, <1>6, <1>7
<1> QED  BY <1>6, <1>8 DEF x

\* What is behind the first packet is again a stream of whole packets.
LEMMA BlocksDrop ==
    ASSUME NEW m \in Nat, NEW t \in Seq(Bytes(m)), Blocks(t), t # << >>,
           NEW u \in Seq(Bytes(m)), Dropped(t, u)
    PROVE  Blocks(u)
BY BehindHead DEF Blocks

\* ... numbered on from the first packet.
LEMMA NumberedDrop ==
    ASSUME NEW m \in Nat, NEW t \in Seq(Bytes(m)), Blocks(t), t # << >>,
           NEW u \in Seq(Bytes(m)), Dropped(t, u), NEW g \in 0 .. m, Numbered(t, g, m)
    PROVE  Numbered(u, IF t[1].packet = g + 1 THEN g + 1 ELSE g, m)
<1> DEFINE n == t[1].of
           h == IF t[1].packet = g + 1 THEN g + 1 ELSE g
<1>1. /\ Len(t) = n + Len(u) /\ Len(u) \in Nat
      /\ \A k \in 1 .. Len(u) : n + k \in 1 .. Len(t) /\ u[k] = t[n + k]
  BY DEF Dropped
<1>2. /\ n \in 4 .. Len(t) /\ Len(t) \in Nat /\ 1 \in 1 .. Len(t)
      /\ \A k \in 1 .. n : t[k] = [packet |-> t[1].packet, at |-> k, of |-> n]
  BY HeadBlock, LenProperties
<1>3. /\ \A i \in 1 .. Len(t) : t[i].packet = EchoReply \/ t[i].packet \in g + 1 .. m
      /\ \A i, j \in 1 .. Len(t) :
           i < j /\ t[i].packet # EchoReply /\ t[j].packet # EchoReply => Before(t[i], t[j])
      /\ \A q \in g + 1 .. m : \E i \in 1 .. Len(t) : t[i].packet = q
  BY DEF Numbered
<1>4. g \in Nat /\ g + 1 # EchoReply
  BY DEF EchoReply
<1>5. t[1].packet \in {EchoReply, g + 1}
  BY HeadNumber
<1> HIDE DEF n
\* the next number is in the first packet only
<1>6. ASSUME t[1].packet = g + 1, NEW i \in 1 .. Len(u) PROVE u[i].packet # g + 1
  <2> SUFFICES ASSUME u[i].packet = g + 1 PROVE FALSE
    OBVIOUS
  <2>1. u[i].of \in Nat /\ u[i].of >= 4 /\ u[i].at \in 1 .. u[i].of
    BY ByteOf
  <2>2. 1 \in 1 .. u[i].of
    BY ONLY <2>1
  <2> DEFINE j == i - u[i].at + 1
  <2>3. /\ j \in 1 .. Len(u)
        /\ u[j] = [packet |-> u[i].packet, at |-> 1, of |-> u[i].of]
    BY <2>2, BehindHead
  <2> HIDE DEF j
  <2>4. n + j \in 1 .. Len(t) /\ t[n + j].packet = g + 1 /\ t[n + j].at = 1
    BY <1>1, <2>3
  <2>5. 1 < n + j
    BY ONLY <1>1, <1>2, <2>3
  <2>6. Before(t[1], t[n + j])
    BY <1>2, <1>3, <1>4, <1>6, <2>4, <2>5
  <2>7. 1 \in 1 .. n
    BY ONLY <1>2
  <2>8. t[1].at = 1
    <3>1. t[1] = [packet |-> t[1].packet, at |-> 1, of |-> n]
      BY <1>2, <2>7
    <3> QED  BY <3>1
  <2> QED  BY <1>4, <1>6, <2>4, <2>6, <2>8 DEF Before
<1>7. ASSUME NEW i \in 1 .. Len(u)
      PROVE  u[i].packet = EchoReply \/ u[i].packet \in h + 1 .. m
  <2>1. u[i].packet = EchoReply \/ u[i].packet \in g + 1 .. m
    BY <1>1, <1>3
  <2>2. CASE t[1].packet = g + 1
    <3>1. u[i].packet # g + 1 /\ h = g + 1
      BY <1>6, <2>2
    <3>2. \A q \in g + 1 .. m : q # g + 1 => q \in (g + 1) + 1 .. m
      BY ONLY <1>4, m \in Nat
    <3> QED  BY <2>1, <3>1, <3>2
  <2>3. CASE t[1].packet # g + 1
    BY <2>1, <2>3
  <2> QED  BY <2>2, <2>3
<1>8. ASSUME NEW i \in 1 .. Len(u), NEW j \in 1 .. Len(u), i < j,
             u[i].packet # EchoReply, u[j].packet # EchoReply
      PROVE  Before(u[i], u[j])
  <2>1. n + i \in 1 .. Len(t) /\ n + j \in 1 .. Len(t) /\ u[i] = t[n + i] /\ u[j] = t[n + j]
    BY <1>1
  <2>2. n + i < n + j
    BY ONLY <1>1, <1>2, <1>8, i \in 1 .. Len(u), j \in 1 .. Len(u)
  <2> QED  BY <1>3, <1>8, <2>1, <2>2
<1>9. ASSUME NEW q \in h + 1 .. m PROVE \E i \in 1 .. Len(u) : u[i].packet = q
  <2>1. q \in g + 1 .. m /\ (t[1].packet = g + 1 => q # g + 1) /\ q # EchoReply
    BY <1>4 DEF EchoReply
  <2>2. PICK k \in 1 .. Len(t) : t[k].packet = q
    BY <1>3, <2>1
  <2>3. ~(k \in 1 .. n)
    <3> SUFFICES ASSUME k \in 1 .. n PROVE FALSE
      OBVIOUS
    <3>1. t[k] = [packet |-> t[1].packet, at |-> k, of |-> n]
      BY ONLY <1>2, k \in 1 .. n
    <3>2. t[k].packet = t[1].packet
      BY ONLY <3>1
    <3> QED  BY <1>5, <2>1, <2>2, <3>2
  <2>4. k - n \in 1 .. Len(u) /\ n + (k - n) = k
    BY ONLY <1>1, <1>2, <2>3, k \in 1 .. Len(t)
  <2>5. u[k - n].packet = q
    BY <1>1, <2>2, <2>4
  <2> QED  BY <2>4, <2>5
<1>10. Numbered(u, h, m)
  BY <1>7, <1>8, <1>9 DEF Numbered
<1> QED  BY <1>10

-----------------------------------------------------------------------------
(* What the read loop hands on.                                            *)

\* What is in the buffer and what will come.
Rest == buf \o stream

\* The length bytes that were read are in place; and as long as neither is,
\* the length of the packet before stands there.
HeadInv ==
    /\ \A i \in {3, 4} : i <= Len(buf) => length[i] = LengthByte(buf[i])
    /\ Len(buf) <= 2 /\ ~first => sstp_pkt_len(length) >= HeaderLen

\* Until something is lost, the buffer and the stream are whole packets in
\* order.
FrameInv == ~cut /\ ~lost =>
    Blocks(Rest) /\ Numbered(Rest, got, made) /\ HeadInv

\* The length that the third and the fourth byte of a packet give.
LEMMA PktLenOf ==
    ASSUME NEW q, NEW w \in Lens \cup {EchoLen}, NEW l,
           l[3] = LengthByte([packet |-> q, at |-> 3, of |-> w]),
           l[4] = LengthByte([packet |-> q, at |-> 4, of |-> w])
    PROVE  sstp_pkt_len(l) = w
<1>1. l[3] = w \div Base /\ l[4] = w % Base
  BY DEF LengthByte
<1>2. (w \div Base) * Base + (w % Base) = w
  BY LengthBytes
<1> QED  BY <1>1, <1>2 DEF sstp_pkt_len

\* What the buffer and the length hold after a turn.
LEMMA TurnHead ==
    ASSUME RecvInv, FrameInv, ReadTurn, ~cut, NEW q, NEW w,
           q = Rest[1].packet, w = Rest[1].of
    PROVE  /\ Rest \in Seq(Bytes(made)) /\ Rest # << >> /\ Rest = TurnBuf \o stream'
           /\ Blocks(Rest) /\ Numbered(Rest, got, made) /\ HeadInv
           /\ w \in Nat /\ w >= 4 /\ q \in {EchoReply, got + 1}
           /\ Len(TurnBuf) \in 1 .. w /\ Len(buf) \in Nat /\ Len(buf) < Len(TurnBuf)
           /\ \A i \in 1 .. Len(TurnBuf) : TurnBuf[i] = [packet |-> q, at |-> i, of |-> w]
           /\ \A i \in {3, 4} : i <= Len(TurnBuf) => TurnLength[i] = LengthByte(TurnBuf[i])
           /\ \A i \in {3, 4} : ~(i <= Len(TurnBuf)) => TurnLength[i] = length[i]
           /\ Len(TurnBuf) >= 4 => sstp_pkt_len(TurnLength) = w
<1>1. /\ stream \in Seq(Bytes(made)) /\ buf \in Seq(Bytes(made)) /\ made \in Nat
      /\ got \in 0 .. made
  BY RecvAssumption DEF RecvInv
<1>2. Blocks(Rest) /\ Numbered(Rest, got, made) /\ HeadInv
  BY TurnStep DEF FrameInv
<1>3. /\ Taken \in Seq(Bytes(made)) /\ Len(Taken) = TurnTake
      /\ stream' \in Seq(Bytes(made)) /\ Taken \o stream' = stream
      /\ Len(TurnBuf) = Len(buf) + TurnTake /\ TurnBuf \in Seq(Bytes(made))
      /\ Len(buf) \in Nat /\ TurnTake \in Nat \ {0}
  BY TurnBytes
<1>4. Rest = TurnBuf \o stream'
  <2>1. (buf \o Taken) \o stream' = buf \o (Taken \o stream')
    <3>1. buf \in Seq(Bytes(made)) /\ Taken \in Seq(Bytes(made)) /\ stream' \in Seq(Bytes(made))
      BY ONLY <1>1, <1>3, Zenon
    <3> QED  BY ONLY <3>1
  <2> QED  BY ONLY <1>3, <2>1, Zenon DEF Rest, TurnBuf
<1>5. Rest \in Seq(Bytes(made)) /\ Joined(TurnBuf, stream', Rest)
  BY <1>3, <1>4, Join
<1>6. Joined(buf, stream, Rest)
  BY <1>1, Join DEF Rest
<1>7. Joined(buf, Taken, TurnBuf)
  BY <1>1, <1>3, Join DEF TurnBuf
<1>8. Rest # << >>
  BY <1>3, <1>5, EmptySeq DEF Joined
<1>9. /\ w \in 4 .. Len(Rest) /\ Len(Rest) \in Nat
      /\ \A a \in 1 .. w : Rest[a] = [packet |-> q, at |-> a, of |-> w]
  BY <1>1, <1>2, <1>5, <1>8, HeadBlock, LenProperties
<1>10. w \in Nat /\ w >= 4 /\ w \in Lens \cup {EchoLen}
  <2>1. 1 \in 1 .. Len(Rest)
    BY ONLY <1>9
  <2> QED  BY <1>1, <1>5, <2>1, ByteOf
<1>11. q \in {EchoReply, got + 1}
  BY <1>1, <1>2, <1>5, <1>8, HeadNumber
\* the length in the buffer
<1>12. Len(buf) >= 4 => sstp_pkt_len(length) = w
  <2> SUFFICES ASSUME Len(buf) >= 4 PROVE sstp_pkt_len(length) = w
    OBVIOUS
  <2>1. /\ 3 \in 1 .. Len(buf) /\ 4 \in 1 .. Len(buf) /\ 3 \in 1 .. w /\ 4 \in 1 .. w
        /\ 3 <= Len(buf) /\ 4 <= Len(buf)
    BY ONLY <1>3, <1>10, Len(buf) >= 4
  <2>2. /\ buf[3] = [packet |-> q, at |-> 3, of |-> w]
        /\ buf[4] = [packet |-> q, at |-> 4, of |-> w]
    BY <1>6, <1>9, <2>1 DEF Joined
  <2>3. length[3] = LengthByte(buf[3]) /\ length[4] = LengthByte(buf[4])
    BY <1>2, <2>1 DEF HeadInv
  <2> QED  BY <1>10, <2>2, <2>3, PktLenOf
<1>13. Len(TurnBuf) \in 1 .. w
  <2>1. TurnTake <= Want
    BY TurnStep, TurnFacts
  <2>2. CASE Len(buf) >= 4
    <3>1. Want = w - Len(buf)
      BY <1>12, <2>2 DEF Want, HeaderLen
    <3> QED  BY ONLY <1>3, <1>10, <2>1, <3>1
  <2>3. CASE ~(Len(buf) >= 4)
    <3>1. Want = 4 - Len(buf)
      BY <2>3 DEF Want, HeaderLen
    <3> QED  BY ONLY <1>3, <1>10, <2>1, <3>1
  <2> QED  BY <2>2, <2>3
<1>14. ASSUME NEW i \in 1 .. Len(TurnBuf)
       PROVE  TurnBuf[i] = [packet |-> q, at |-> i, of |-> w]
  <2>1. i \in 1 .. w
    BY ONLY <1>10, <1>13, i \in 1 .. Len(TurnBuf)
  <2>2. Rest[i] = TurnBuf[i]
    BY <1>5 DEF Joined
  <2> QED  BY <1>9, <2>1, <2>2
<1>15. DOMAIN Taken = 1 .. Len(Taken)
  BY <1>3, LenProperties
<1>16. ASSUME NEW i \in {3, 4}
       PROVE  TurnLength[i] = IF i - Len(buf) \in 1 .. Len(Taken)
                                THEN LengthByte(Taken[i - Len(buf)]) ELSE length[i]
  BY <1>15 DEF TurnLength, LengthAfter
<1>17. ASSUME NEW i \in {3, 4}, i <= Len(TurnBuf)
       PROVE  TurnLength[i] = LengthByte(TurnBuf[i])
  <2>1. CASE i <= Len(buf)
    <3>1. i \in 1 .. Len(buf) /\ ~(i - Len(buf) \in 1 .. Len(Taken))
      BY ONLY <1>3, <2>1, i \in {3, 4}
    <3>2. TurnLength[i] = length[i] /\ length[i] = LengthByte(buf[i])
      BY <1>2, <1>16, <2>1, <3>1 DEF HeadInv
    <3>3. TurnBuf[i] = buf[i]
      BY <1>7, <3>1 DEF Joined
    <3> QED  BY <3>2, <3>3
  <2>2. CASE ~(i <= Len(buf))
    <3>1. i - Len(buf) \in 1 .. Len(Taken) /\ Len(buf) + (i - Len(buf)) = i
      BY ONLY <1>3, <1>17, <2>2, i \in {3, 4}
    <3>2. TurnLength[i] = LengthByte(Taken[i - Len(buf)])
      BY <1>16, <3>1
    <3>3. TurnBuf[i] = Taken[i - Len(buf)]
      BY <1>7, <3>1 DEF Joined
    <3> QED  BY <3>2, <3>3
  <2> QED  BY <2>1, <2>2
<1>18. ASSUME NEW i \in {3, 4}, ~(i <= Len(TurnBuf))
       PROVE  TurnLength[i] = length[i]
  <2>1. ~(i - Len(buf) \in 1 .. Len(Taken))
    BY ONLY <1>3, <1>18, i \in {3, 4}
  <2> QED  BY <1>16, <2>1
<1>19. Len(TurnBuf) >= 4 => sstp_pkt_len(TurnLength) = w
  <2> SUFFICES ASSUME Len(TurnBuf) >= 4 PROVE sstp_pkt_len(TurnLength) = w
    OBVIOUS
  <2>1. /\ 3 \in 1 .. Len(TurnBuf) /\ 4 \in 1 .. Len(TurnBuf)
        /\ 3 <= Len(TurnBuf) /\ 4 <= Len(TurnBuf)
    BY ONLY <1>3, Len(TurnBuf) >= 4
  <2>2. /\ TurnBuf[3] = [packet |-> q, at |-> 3, of |-> w]
        /\ TurnBuf[4] = [packet |-> q, at |-> 4, of |-> w]
    BY <1>14, <2>1
  <2>3. /\ TurnLength[3] = LengthByte(TurnBuf[3])
        /\ TurnLength[4] = LengthByte(TurnBuf[4])
    BY <1>17, <2>1
  <2> QED  BY <1>10, <2>2, <2>3, PktLenOf
<1>20. Len(buf) < Len(TurnBuf)
  BY ONLY <1>3
<1> QED  BY <1>2, <1>3, <1>4, <1>5, <1>8, <1>10, <1>11, <1>13, <1>14, <1>17, <1>18, <1>19, <1>20

\* A turn that gets only a part of a packet.
LEMMA FramePart ==
    ASSUME RecvInv, FrameInv, ReadTurn, ~cut, buf' = TurnBuf,
           UNCHANGED <<first, got, made>>
    PROVE  Blocks(Rest') /\ Numbered(Rest', got', made') /\ HeadInv'
<1>0. Rest[1].packet = Rest[1].packet /\ Rest[1].of = Rest[1].of
  OBVIOUS
<1>1. /\ Rest = TurnBuf \o stream' /\ Blocks(Rest) /\ Numbered(Rest, got, made) /\ HeadInv
      /\ Len(buf) \in Nat /\ Len(buf) < Len(TurnBuf) /\ Len(TurnBuf) \in Nat
      /\ \A i \in {3, 4} : i <= Len(TurnBuf) => TurnLength[i] = LengthByte(TurnBuf[i])
      /\ \A i \in {3, 4} : ~(i <= Len(TurnBuf)) => TurnLength[i] = length[i]
  BY <1>0, TurnHead
<1>2. Rest' = Rest
  BY <1>1 DEF Rest
<1>3. length' = TurnLength
  BY TurnStep
<1>4. \A i \in {3, 4} : i <= Len(buf') => length'[i] = LengthByte(buf'[i])
  BY <1>1, <1>3
<1>5. Len(buf') <= 2 /\ ~first' => sstp_pkt_len(length') >= HeaderLen
  <2> SUFFICES ASSUME Len(TurnBuf) <= 2, ~first PROVE sstp_pkt_len(TurnLength) >= HeaderLen
    BY <1>3
  <2>1. Len(buf) <= 2 /\ ~(3 <= Len(TurnBuf)) /\ ~(4 <= Len(TurnBuf))
    BY ONLY <1>1, Len(TurnBuf) <= 2
  <2>2. sstp_pkt_len(length) >= HeaderLen
    BY <1>1, <2>1 DEF HeadInv
  <2>3. TurnLength[3] = length[3] /\ TurnLength[4] = length[4]
    BY <1>1, <2>1
  <2> QED  BY <2>2, <2>3 DEF sstp_pkt_len
<1>6. HeadInv'
  BY <1>4, <1>5 DEF HeadInv
<1> QED  BY <1>1, <1>2, <1>6

\* A turn that completes a packet.
LEMMA FrameWhole ==
    ASSUME RecvInv, FrameInv, ReadTurn, ~cut, buf' = << >>, Whole(TurnBuf), made' = made,
           got' = IF TurnBuf[1].packet = got + 1 THEN got + 1 ELSE got
    PROVE  Blocks(Rest') /\ Numbered(Rest', got', made') /\ HeadInv'
<1> DEFINE q == Rest[1].packet
           w == Rest[1].of
<1>1. /\ Rest \in Seq(Bytes(made)) /\ Rest # << >> /\ Rest = TurnBuf \o stream'
      /\ Blocks(Rest) /\ Numbered(Rest, got, made)
      /\ w \in Nat /\ w >= 4 /\ Len(TurnBuf) \in 1 .. w
      /\ \A i \in 1 .. Len(TurnBuf) : TurnBuf[i] = [packet |-> q, at |-> i, of |-> w]
      /\ Len(TurnBuf) >= 4 => sstp_pkt_len(TurnLength) = w
  BY TurnHead
<1> HIDE DEF q, w
<1>2. TurnBuf[1].packet = q /\ TurnBuf[1].of = w
  <2>1. 1 \in 1 .. Len(TurnBuf)
    BY ONLY <1>1
  <2>2. TurnBuf[1] = [packet |-> q, at |-> 1, of |-> w]
    BY <1>1, <2>1
  <2> QED  BY ONLY <2>2
<1>3. made \in Nat /\ got \in 0 .. made /\ stream' \in Seq(Bytes(made)) /\ TurnBuf \in Seq(Bytes(made))
  BY TurnBytes, RecvAssumption DEF RecvInv
<1>4. Len(TurnBuf) = w
  <2>1. TurnBuf = Packet(q, w)
    BY <1>2 DEF Whole
  <2>2. DOMAIN TurnBuf = 1 .. w
    BY <2>1 DEF Packet
  <2>3. DOMAIN TurnBuf = 1 .. Len(TurnBuf) /\ Len(TurnBuf) \in Nat
    BY <1>3, LenProperties
  <2>4. w \in 1 .. w
    BY ONLY <1>1
  <2>5. w \in 1 .. Len(TurnBuf)
    BY <2>2, <2>3, <2>4
  <2> QED  BY ONLY <1>1, <2>3, <2>5
<1>5. Joined(TurnBuf, stream', Rest)
  BY <1>1, <1>3, Join
<1>6. Dropped(Rest, stream')
  BY <1>4, <1>5 DEF Joined, Dropped, w
<1>7. Rest' = stream'
  <2>1. << >> \o stream' = stream'
    BY <1>3
  <2> QED  BY <2>1 DEF Rest
<1>8. Blocks(stream')
  BY <1>1, <1>3, <1>6, BlocksDrop
<1>9. Numbered(stream', IF Rest[1].packet = got + 1 THEN got + 1 ELSE got, made)
  BY <1>1, <1>3, <1>6, NumberedDrop
<1>10. got' = IF Rest[1].packet = got + 1 THEN got + 1 ELSE got
  BY <1>2 DEF q
<1>11. HeadInv'
  <2>1. length' = TurnLength /\ sstp_pkt_len(TurnLength) >= HeaderLen
    <3>1. sstp_pkt_len(TurnLength) = w
      BY <1>1, <1>4
    <3> QED  BY <1>1, <3>1, TurnStep DEF HeaderLen
  <2>2. Len(buf') = 0
    BY EmptySeq
  <2> QED  BY <2>1, <2>2 DEF HeadInv
<1> QED  BY <1>7, <1>8, <1>9, <1>10, <1>11

\* One turn of the loop.
LEMMA FrameTurn ==
    ASSUME RecvInv, FrameInv, ReadTurn
    PROVE  FrameInv'
<1> SUFFICES ASSUME ~cut', ~lost'
             PROVE  Blocks(Rest') /\ Numbered(Rest', got', made') /\ HeadInv'
  BY DEF FrameInv
<1>1. ~cut /\ made' = made
  BY TurnStep
<1>2. CASE buf' = TurnBuf /\ UNCHANGED <<echo, reading, armed, first, lost, got>>
  BY <1>1, <1>2, FramePart
<1>3. CASE Handle(TurnBuf)
  <2>1. /\ buf' = << >> /\ Whole(TurnBuf)
        /\ got' = IF TurnBuf[1].packet = got + 1 THEN got + 1 ELSE got
    BY <1>3 DEF Handle
  <2> QED  BY <1>1, <2>1, FrameWhole
<1> QED  BY <1>2, <1>3, TurnStep

\* A packet of the server.
LEMMA FrameSend ==
    ASSUME RecvInv, FrameInv, NEW n \in Lens \cup {EchoLen}, NEW p \in Nat,
           (p = EchoReply /\ made' = made) \/ (p = made + 1 /\ made' = made + 1),
           made' \in 0 .. MaxPackets, stream' = stream \o Packet(p, n),
           UNCHANGED <<clientVars, obsVars>>
    PROVE  FrameInv'
<1>1. /\ buf' = buf /\ length' = length /\ first' = first /\ got' = got
      /\ cut' = cut /\ lost' = lost
  BY DEF clientVars, obsVars
<1> SUFFICES ASSUME ~cut, ~lost
             PROVE  Blocks(Rest') /\ Numbered(Rest', got, made') /\ HeadInv'
  BY <1>1 DEF FrameInv
<1>2. Blocks(Rest) /\ Numbered(Rest, got, made) /\ HeadInv
  BY DEF FrameInv
<1>3. /\ made \in Nat /\ made' \in Nat /\ made <= made' /\ p \in 0 .. made' /\ p <= made'
      /\ got \in 0 .. made
  BY RecvAssumption DEF RecvInv, EchoReply
<1>4. stream \in Seq(Bytes(made)) /\ buf \in Seq(Bytes(made))
  BY DEF RecvInv
<1>5. Rest \in Seq(Bytes(made))
  BY <1>4, Join DEF Rest
<1>6. /\ Rest \in Seq(Bytes(made')) /\ stream \in Seq(Bytes(made'))
      /\ buf \in Seq(Bytes(made'))
  BY <1>3, <1>4, <1>5, BytesGrow
<1>7. Packet(p, n) \in Seq(Bytes(made'))
  BY <1>3, PacketBytes
<1>8. Rest' = Rest \o Packet(p, n)
  <2> DEFINE u == Packet(p, n)
  <2>1. buf \in Seq(Bytes(made')) /\ stream \in Seq(Bytes(made')) /\ u \in Seq(Bytes(made'))
    BY <1>6, <1>7
  <2> HIDE DEF u
  <2>2. (buf \o stream) \o u = buf \o (stream \o u)
    BY ONLY <2>1
  <2> QED  BY <1>1, <2>2 DEF Rest, u
<1>9. Blocks(Rest \o Packet(p, n))
  BY <1>2, <1>3, <1>6, BlocksSend
<1>10. Numbered(Rest \o Packet(p, n), got, made')
  BY <1>2, <1>3, <1>5, NumberedSend
<1>11. HeadInv'
  BY <1>1, <1>2 DEF HeadInv, sstp_pkt_len
<1> QED  BY <1>8, <1>9, <1>10, <1>11

\* The steps that leave the bytes alone.
LEMMA FrameSame ==
    ASSUME FrameInv, UNCHANGED <<stream, buf, length, first, got, made, lost>>, cut => cut'
    PROVE  FrameInv'
BY DEF FrameInv, Rest, HeadInv, sstp_pkt_len

\* Every step keeps the packets in line.
LEMMA FrameStep ==
    ASSUME RecvInv, FrameInv, [Next]_vars
    PROVE  FrameInv'
<1>1. CASE UNCHANGED vars
  BY <1>1, FrameSame DEF vars, serverVars, clientVars, obsVars
<1>2. ASSUME NEW n \in Lens, ServerSends(n) PROVE FrameInv'
  <2>1. /\ made' = made + 1 /\ made < MaxPackets /\ stream' = stream \o Packet(made + 1, n)
        /\ UNCHANGED <<clientVars, obsVars>>
    BY <1>2 DEF ServerSends
  <2>2. made + 1 \in Nat /\ made' \in 0 .. MaxPackets
    BY <2>1, RecvAssumption DEF RecvInv
  <2> QED  BY <2>1, <2>2, FrameSend
<1>3. ASSUME ServerAnswers PROVE FrameInv'
  <2>1. /\ made' = made /\ stream' = stream \o Packet(EchoReply, EchoLen)
        /\ UNCHANGED <<clientVars, obsVars>>
    BY <1>3 DEF ServerAnswers
  <2>2. EchoReply \in Nat /\ made' \in 0 .. MaxPackets
    BY <2>1 DEF RecvInv, EchoReply
  <2> QED  BY <2>1, <2>2, FrameSend
<1>4. ASSUME NEW n \in 1 .. unsent, ServerWrites(n) PROVE FrameInv'
  BY <1>4, FrameSame DEF ServerWrites, clientVars, obsVars
<1>5. ASSUME Readable PROVE FrameInv'
  BY <1>5, FrameSame DEF Readable, serverVars, clientVars, obsVars
<1>6. ASSUME ReadTurn PROVE FrameInv'
  BY <1>6, FrameTurn
<1>7. ASSUME ReadBlocks PROVE FrameInv'
  BY <1>7, FrameSame DEF ReadBlocks, serverVars, clientVars, obsVars
<1>8. ASSUME ReadFails PROVE FrameInv'
  BY <1>8, FrameSame DEF ReadFails, serverVars, clientVars, obsVars
<1>9. ASSUME Timeout PROVE FrameInv'
  <2>1. UNCHANGED <<stream, made, length, got, first, lost>>
    BY <1>9 DEF Timeout
  <2>2. CASE UNCHANGED <<buf, cut>>
    BY <2>1, <2>2, FrameSame
  <2>3. CASE buf' = << >> /\ cut' = (cut \/ buf # << >>)
    <3>1. CASE cut'
      BY <3>1 DEF FrameInv
    <3>2. CASE ~cut'
      BY <2>1, <2>3, <3>2, FrameSame
    <3> QED  BY <3>1, <3>2
  <2> QED  BY <1>9, <2>2, <2>3 DEF Timeout
<1> QED  BY <1>1, <1>2, <1>3, <1>4, <1>5, <1>6, <1>7, <1>8, <1>9
         DEF Next, Server, Writes, Client

\* The start.
LEMMA FrameInit ==
    ASSUME Init
    PROVE  FrameInv
<1>1. Rest = << >> /\ Len(Rest) = 0 /\ Len(buf) = 0 /\ first /\ got = 0 /\ made = 0
  BY DEF Init, Rest
<1>2. Blocks(Rest)
  BY <1>1 DEF Blocks
<1>3. Numbered(Rest, got, made)
  BY <1>1 DEF Numbered
<1>4. HeadInv
  BY <1>1 DEF HeadInv
<1> QED  BY <1>2, <1>3, <1>4 DEF FrameInv

\* A turn that hands on something else than a packet.
LEMMA FramedTurn ==
    ASSUME RecvInv, FrameInv, ReadTurn, lost', ~cut
    PROVE  split' = 3 \/ (split' > 0 /\ first')
<1> DEFINE q == Rest[1].packet
           w == Rest[1].of
<1>1. /\ HeadInv /\ w \in Nat /\ w >= 4 /\ q \in {EchoReply, got + 1}
      /\ Len(TurnBuf) \in 1 .. w /\ Len(buf) \in Nat /\ Len(buf) < Len(TurnBuf)
      /\ \A i \in 1 .. Len(TurnBuf) : TurnBuf[i] = [packet |-> q, at |-> i, of |-> w]
      /\ \A i \in {3, 4} : ~(i <= Len(TurnBuf)) => TurnLength[i] = length[i]
      /\ Len(TurnBuf) >= 4 => sstp_pkt_len(TurnLength) = w
  BY TurnHead
<1> HIDE DEF q, w
<1>2. /\ ~lost /\ ~(Len(TurnBuf) < sstp_pkt_len(TurnLength)) /\ Handle(TurnBuf)
  BY TurnStep
<1>3. TurnBuf[1].packet = q /\ TurnBuf[1].of = w
  <2>1. 1 \in 1 .. Len(TurnBuf)
    BY ONLY <1>1
  <2>2. TurnBuf[1] = [packet |-> q, at |-> 1, of |-> w]
    BY <1>1, <2>1
  <2> QED  BY ONLY <2>2
<1>4. DOMAIN TurnBuf = 1 .. Len(TurnBuf) /\ TurnBuf \in Seq(Bytes(made))
  BY TurnBytes, LenProperties
<1>5. Len(TurnBuf) = w => Whole(TurnBuf)
  <2> SUFFICES ASSUME Len(TurnBuf) = w PROVE TurnBuf = Packet(q, w)
    BY <1>3 DEF Whole
  <2>1. TurnBuf = [i \in 1 .. w |-> TurnBuf[i]]
    <3>1. TurnBuf = [i \in 1 .. Len(TurnBuf) |-> TurnBuf[i]]
      BY <1>4, SeqDef
    <3> QED  BY <3>1
  <2>2. \A i \in 1 .. w : TurnBuf[i] = [packet |-> q, at |-> i, of |-> w]
    BY <1>1
  <2> QED  BY <2>1, <2>2 DEF Packet
<1>6. Whole(TurnBuf) => Len(TurnBuf) >= 4
  <2> SUFFICES ASSUME Whole(TurnBuf) PROVE Len(TurnBuf) >= 4
    OBVIOUS
  <2>1. TurnBuf = Packet(q, w)
    BY <1>3 DEF Whole
  <2>2. DOMAIN TurnBuf = 1 .. w
    BY <2>1 DEF Packet
  <2>3. 4 \in 1 .. w
    BY ONLY <1>1
  <2>4. 4 \in 1 .. Len(TurnBuf)
    BY <1>4, <2>2, <2>3
  <2> QED  BY ONLY <1>1, <2>4
<1>7. ~(Len(TurnBuf) >= 4)
  <2> SUFFICES ASSUME Len(TurnBuf) >= 4 PROVE FALSE
    OBVIOUS
  <2>1. ~(Len(TurnBuf) < w)
    BY <1>1, <1>2
  <2>2. Len(TurnBuf) = w
    BY ONLY <1>1, <2>1
  <2>3. Whole(TurnBuf) /\ TurnBuf[1].packet \in {EchoReply, got + 1}
    BY <1>1, <1>3, <1>5, <2>2
  <2> QED  BY <1>2, <2>3 DEF Handle
<1>8. split' = Len(TurnBuf)
  <2>1. Len(TurnBuf) < HeaderLen
    BY <1>1, <1>7 DEF HeaderLen
  <2>2. Len(TurnBuf) < HeaderLen => split' = Len(TurnBuf)
    BY TurnStep
  <2> QED  BY <2>1, <2>2
<1>9. CASE Len(TurnBuf) = 3
  BY <1>8, <1>9
<1>10. CASE Len(TurnBuf) # 3
  <2>1. /\ Len(TurnBuf) <= 2 /\ Len(buf) <= 2 /\ ~(3 <= Len(TurnBuf)) /\ ~(4 <= Len(TurnBuf))
        /\ Len(TurnBuf) > 0
    <3>1. Len(TurnBuf) \in Nat /\ Len(TurnBuf) > 0 /\ Len(buf) \in Nat /\ Len(buf) < Len(TurnBuf)
      BY ONLY <1>1
    <3>2. \A j, k \in Nat : k > 0 /\ j < k /\ ~(k >= 4) /\ k # 3
                           => k <= 2 /\ j <= 2 /\ ~(3 <= k) /\ ~(4 <= k)
      OBVIOUS
    <3> QED  BY ONLY <3>1, <3>2, <1>7, <1>10
  <2>2. sstp_pkt_len(TurnLength) = sstp_pkt_len(length)
    BY <1>1, <2>1 DEF sstp_pkt_len
  <2>3. ~(sstp_pkt_len(length) >= HeaderLen)
    <3>1. sstp_pkt_len(length) \in Nat
      BY PktLenType DEF RecvInv
    <3>2. ~(Len(TurnBuf) < sstp_pkt_len(length))
      BY <1>2, <2>2
    <3> QED  BY ONLY <1>1, <2>1, <3>1, <3>2 DEF HeaderLen
  <2>4. first
    BY <1>1, <2>1, <2>3 DEF HeadInv
  <2>5. first'
    BY <1>2, <1>6, <1>7, <2>4 DEF Handle
  <2> QED  BY <1>8, <2>1, <2>5
<1> QED  BY <1>9, <1>10

\* Whatever the records, what sstp_stream_recv_sstp hands on is the next whole
\* packet, unless a timeout dropped the first part of one or a record ended in
\* the header: inside the length, or before it with no earlier length in the
\* buffer.
THEOREM FramingHolds == Spec => []Framed
<1>1. Init => RecvInv /\ FrameInv /\ Framed
  BY RecvInvInit, FrameInit DEF Init, Framed
<1>2. ASSUME RecvInv, FrameInv, Framed, [Next]_vars
      PROVE  RecvInv' /\ FrameInv' /\ Framed'
  <2>1. RecvInv' /\ FrameInv'
    BY <1>2, RecvInvStep, FrameStep
  <2>2. Framed'
    <3>1. CASE UNCHANGED vars
      BY <1>2, <3>1 DEF Framed, vars, obsVars
    <3>2. CASE ReadTurn
      <4>1. cut' = cut
        BY <3>2, TurnStep
      <4> QED  BY <1>2, <3>2, <4>1, FramedTurn DEF Framed
    <3>3. CASE /\ lost' = lost /\ ~lost
      BY <3>3 DEF Framed
    <3>4. \/ UNCHANGED vars \/ ReadTurn
          \/ lost' = lost /\ ~lost
      BY <1>2 DEF Next, Server, Writes, Client, ServerSends, ServerAnswers, ServerWrites,
                  Readable, ReadBlocks, ReadFails, Timeout, Live, obsVars
    <3> QED  BY <3>1, <3>2, <3>3, <3>4
  <2> QED  BY <2>1, <2>2
<1>3. RecvInv /\ FrameInv /\ Framed /\ [Next]_vars => RecvInv' /\ FrameInv' /\ Framed'
  BY <1>2
<1> QED  BY <1>1, <1>3, PTL DEF Spec

-----------------------------------------------------------------------------
(* Answers that wait in OpenSSL.                                           *)

\* The byte that completes an Echo-Reply.
ReplyEnds(b) == b.packet = EchoReply /\ b.at = b.of

\* While the server is in time: no packet is cut, a request is answered by a
\* reply that is still in the stream or will be, and if two count as open, a
\* reply waits in OpenSSL and the other one is behind it.
EchoInv == ~late /\ ~lost =>
    /\ ~cut /\ echo <= 2
    /\ echo >= 1 => asked > 0 \/ \E i \in 1 .. Len(stream) : ReplyEnds(stream[i])
    /\ echo = 2 => /\ \E i \in 1 .. rec : ReplyEnds(stream[i])
                   /\ asked > 0 \/ \E i \in rec + 1 .. Len(stream) : ReplyEnds(stream[i])

\* What is in the buffer is not yet a packet.
LEMMA PartInBuffer ==
    ASSUME RecvInv, FrameInv, ~cut, ~lost, buf # << >>
    PROVE  Len(stream) > 0
<1>1. stream \in Seq(Bytes(made)) /\ buf \in Seq(Bytes(made)) /\ made \in Nat
  BY RecvAssumption DEF RecvInv
<1>2. Rest \in Seq(Bytes(made)) /\ Joined(buf, stream, Rest)
  BY <1>1, Join DEF Rest
<1>3. Blocks(Rest) /\ HeadInv
  BY DEF FrameInv
<1>4. Len(buf) \in Nat \ {0} /\ Len(stream) \in Nat /\ Len(Rest) = Len(buf) + Len(stream)
  BY <1>1, <1>2, EmptySeq, LenProperties DEF Joined
<1>5. Rest # << >>
  BY <1>2, <1>4, EmptySeq
<1> DEFINE q == Rest[1].packet
           w == Rest[1].of
<1>6. /\ w \in 4 .. Len(Rest)
      /\ \A a \in 1 .. w : Rest[a] = [packet |-> q, at |-> a, of |-> w]
  BY <1>1, <1>2, <1>3, <1>5, HeadBlock
<1>7. w \in Lens \cup {EchoLen}
  <2>1. 1 \in 1 .. Len(Rest)
    BY ONLY <1>4
  <2> QED  BY <1>1, <1>2, <2>1, ByteOf
<1> HIDE DEF q, w
<1>8. Len(buf) < w
  <2>1. CASE Len(buf) >= 4
    <3>1. /\ 3 \in 1 .. Len(buf) /\ 4 \in 1 .. Len(buf) /\ 3 \in 1 .. w /\ 4 \in 1 .. w
          /\ 3 <= Len(buf) /\ 4 <= Len(buf)
      BY ONLY <1>4, <1>6, <2>1
    <3>2. /\ buf[3] = [packet |-> q, at |-> 3, of |-> w]
          /\ buf[4] = [packet |-> q, at |-> 4, of |-> w]
      BY <1>2, <1>6, <3>1 DEF Joined
    <3>3. length[3] = LengthByte(buf[3]) /\ length[4] = LengthByte(buf[4])
      BY <1>3, <3>1 DEF HeadInv
    <3>4. sstp_pkt_len(length) = w
      BY <1>7, <3>2, <3>3, PktLenOf
    <3> QED  BY <3>4 DEF RecvInv
  <2>2. CASE ~(Len(buf) >= 4)
    BY ONLY <1>4, <1>6, <2>2
  <2> QED  BY <2>1, <2>2
<1> QED  BY ONLY <1>4, <1>6, <1>8

\* A turn that hands on no Echo-Reply does not take the end of one.
LEMMA NoReplyTaken ==
    ASSUME RecvInv, FrameInv, ReadTurn, ~cut, ~lost',
           ~(Handle(TurnBuf) /\ Whole(TurnBuf) /\ TurnBuf[1].packet = EchoReply),
           NEW i \in 1 .. TurnTake
    PROVE  ~ReplyEnds(stream[i])
<1> DEFINE q == Rest[1].packet
           w == Rest[1].of
           k == Len(buf) + i
<1>1. /\ w \in Nat /\ w >= 4 /\ Len(TurnBuf) \in 1 .. w
      /\ \A j \in 1 .. Len(TurnBuf) : TurnBuf[j] = [packet |-> q, at |-> j, of |-> w]
      /\ Len(TurnBuf) >= 4 => sstp_pkt_len(TurnLength) = w
  BY TurnHead
<1> HIDE DEF q, w
<1>2. /\ Taken \in Seq(Bytes(made)) /\ Len(Taken) = TurnTake /\ Taken[i] = stream[i]
      /\ Len(TurnBuf) = Len(buf) + TurnTake /\ Len(buf) \in Nat /\ TurnTake \in Nat
  BY TurnBytes
<1>3. Joined(buf, Taken, TurnBuf)
  BY <1>2, Join DEF TurnBuf, RecvInv
<1>4. k \in 1 .. Len(TurnBuf) /\ TurnBuf[k] = stream[i]
  BY <1>2, <1>3 DEF Joined
<1>5. stream[i].packet = q /\ stream[i].at = k /\ stream[i].of = w
  <2>1. stream[i] = [packet |-> q, at |-> k, of |-> w]
    BY <1>1, <1>4
  <2> HIDE DEF k
  <2> QED  BY ONLY <2>1
<1>6. CASE Len(TurnBuf) < sstp_pkt_len(TurnLength)
  <2>1. Len(TurnBuf) < w
    <3>1. CASE Len(TurnBuf) >= 4
      BY <1>1, <1>6, <3>1
    <3>2. CASE ~(Len(TurnBuf) >= 4)
      BY ONLY <1>1, <3>2
    <3> QED  BY <3>1, <3>2
  <2>2. k # w
    BY ONLY <1>1, <1>4, <2>1
  <2> QED  BY <1>5, <2>2 DEF ReplyEnds
<1>7. CASE Handle(TurnBuf)
  <2>1. Whole(TurnBuf)
    BY <1>7 DEF Handle
  <2>2. 1 \in 1 .. Len(TurnBuf)
    BY ONLY <1>1
  <2>3. TurnBuf[1] = [packet |-> q, at |-> 1, of |-> w]
    BY <1>1, <2>2
  <2>4. TurnBuf[1].packet = q
    BY ONLY <2>3
  <2> QED  BY <1>5, <1>7, <2>1, <2>4 DEF ReplyEnds
<1> QED  BY <1>6, <1>7, TurnStep

\* The answers stay in the stream, nearer to its start.
LEMMA EchoShift ==
    ASSUME RecvInv, ReadTurn, EchoInv, ~late, ~lost,
           \A i \in 1 .. TurnTake : ~ReplyEnds(stream[i])
    PROVE  /\ echo >= 1 => asked > 0 \/ \E i \in 1 .. Len(stream') : ReplyEnds(stream'[i])
           /\ echo = 2 =>
                /\ \E i \in 1 .. rec' : ReplyEnds(stream'[i])
                /\ asked > 0 \/ \E i \in rec' + 1 .. Len(stream') : ReplyEnds(stream'[i])
<1> DEFINE n == TurnTake
           l == Len(stream)
<1>1. /\ Len(stream') = l - n /\ l \in Nat /\ n \in Nat \ {0} /\ n <= l
      /\ \A i \in 1 .. l - n : stream'[i] = stream[n + i]
  BY TurnBytes
<1>2. rec' = TurnSize - n /\ (rec > 0 => TurnSize = rec) /\ rec \in Nat
  BY TurnStep DEF TurnSize, RecvInv
<1>3. rec > 0 => n <= rec /\ rec <= l
  <2>1. /\ TurnSize \in 1 .. Len(stream) - unsent /\ TurnTake \in 1 .. TurnSize
        /\ unsent \in Nat
    BY TurnStep, TurnFacts DEF RecvInv
  <2> QED  BY ONLY <1>1, <1>2, <2>1
<1> HIDE DEF n, l
<1>4. ASSUME NEW i \in 1 .. l, ReplyEnds(stream[i])
      PROVE  i - n \in 1 .. l - n /\ ReplyEnds(stream'[i - n])
  <2>1. ~(i \in 1 .. n)
    BY <1>4 DEF n
  <2>2. i - n \in 1 .. l - n /\ n + (i - n) = i
    BY ONLY <1>1, <2>1, i \in 1 .. l
  <2>3. stream'[i - n] = stream[i]
    BY <1>1, <2>2
  <2> QED  BY <1>4, <2>2, <2>3
<1>5. ASSUME echo >= 1, ~(asked > 0)
      PROVE  \E i \in 1 .. Len(stream') : ReplyEnds(stream'[i])
  <2>1. PICK i \in 1 .. l : ReplyEnds(stream[i])
    BY <1>5 DEF EchoInv, l
  <2> QED  BY <1>1, <1>4, <2>1
<1>6. ASSUME echo = 2
      PROVE  /\ \E i \in 1 .. rec' : ReplyEnds(stream'[i])
             /\ asked > 0 \/ \E i \in rec' + 1 .. Len(stream') : ReplyEnds(stream'[i])
  <2>1. PICK i \in 1 .. rec : ReplyEnds(stream[i])
    BY <1>6 DEF EchoInv
  <2>2. rec > 0 /\ rec' = rec - n /\ n <= rec /\ rec <= l
    BY <1>2, <1>3, <2>1
  <2>3. i \in 1 .. l
    BY ONLY <1>1, <1>2, <2>2, i \in 1 .. rec
  <2>4. i - n \in 1 .. l - n /\ ReplyEnds(stream'[i - n])
    BY <1>4, <2>1, <2>3
  <2>5. i - n \in 1 .. rec'
    BY ONLY <1>1, <1>2, <2>2, <2>4, i \in 1 .. rec
  <2>6. ASSUME ~(asked > 0)
        PROVE  \E j \in rec' + 1 .. Len(stream') : ReplyEnds(stream'[j])
    <3>1. PICK j \in rec + 1 .. l : ReplyEnds(stream[j])
      BY <1>6, <2>6 DEF EchoInv, l
    <3>2. j \in 1 .. l
      BY ONLY <1>1, <1>2, j \in rec + 1 .. l
    <3>3. ReplyEnds(stream'[j - n])
      BY <1>4, <3>1, <3>2
    <3>4. j - n \in rec' + 1 .. Len(stream')
      BY ONLY <1>1, <1>2, <2>2, j \in rec + 1 .. l
    <3> QED  BY <3>3, <3>4
  <2> QED  BY <2>4, <2>5, <2>6
<1> QED  BY <1>5, <1>6

\* One turn of the loop.
LEMMA EchoTurn ==
    ASSUME RecvInv, FrameInv, EchoInv, ReadTurn
    PROVE  EchoInv'
<1> SUFFICES ASSUME ~late', ~lost' PROVE EchoInv'
  BY DEF EchoInv
<1>1. ~late /\ ~lost /\ cut' = cut /\ asked' = asked
  BY TurnStep
<1>2. ~cut /\ echo <= 2 /\ ~cut' /\ echo \in Nat
  BY <1>1, RecvAssumption DEF EchoInv, RecvInv
<1>3. CASE Handle(TurnBuf) /\ Whole(TurnBuf) /\ TurnBuf[1].packet = EchoReply
  <2>1. echo' = 0
    BY <1>3 DEF Handle, EchoAfter
  <2> QED  BY <1>2, <2>1 DEF EchoInv
<1>4. CASE ~(Handle(TurnBuf) /\ Whole(TurnBuf) /\ TurnBuf[1].packet = EchoReply)
  <2>1. \A i \in 1 .. TurnTake : ~ReplyEnds(stream[i])
    BY <1>2, <1>4, NoReplyTaken
  <2>2. echo' = echo
    <3>1. CASE Handle(TurnBuf)
      BY <1>4, <3>1 DEF Handle, EchoAfter
    <3>2. CASE UNCHANGED <<echo, reading, armed, first, lost, got>>
      BY <3>2
    <3> QED  BY <3>1, <3>2, TurnStep
  <2>3. /\ echo >= 1 => asked > 0 \/ \E i \in 1 .. Len(stream') : ReplyEnds(stream'[i])
        /\ echo = 2 =>
             /\ \E i \in 1 .. rec' : ReplyEnds(stream'[i])
             /\ asked > 0 \/ \E i \in rec' + 1 .. Len(stream') : ReplyEnds(stream'[i])
    BY <1>1, <2>1, EchoShift
  <2> QED  BY <1>1, <1>2, <2>2, <2>3 DEF EchoInv
<1> QED  BY <1>3, <1>4

\* Where the decrypted bytes end.
LEMMA RecInStream ==
    ASSUME RecvInv
    PROVE  /\ rec \in Nat /\ Len(stream) \in Nat /\ rec <= Len(stream)
           /\ net = << >> /\ unsent = 0 => rec = Len(stream)
<1>1. /\ rec \in Nat /\ unsent \in Nat /\ net \in Seq(Nat) /\ Len(stream) \in Nat
      /\ Len(net) \in Nat
  BY LenProperties DEF RecvInv
<1>2. CASE net = << >>
  <2>1. rec + unsent = Len(stream)
    BY <1>2 DEF RecvInv, Records
  <2> QED  BY ONLY <1>1, <2>1
<1>3. CASE net # << >>
  <2>1. Len(net) \in 1 .. Len(net)
    BY <1>1, <1>3, EmptySeq
  <2>2. net[Len(net)] + unsent = Len(stream) /\ rec < net[Len(net)]
    BY <1>3, <2>1 DEF RecvInv, Records
  <2>3. net[Len(net)] \in Nat
    BY <1>1, <2>1, ElementOfSeq
  <2>4. rec <= Len(stream)
    BY ONLY <1>1, <2>2, <2>3
  <2> QED  BY <1>1, <1>3, <2>4
<1> QED  BY <1>2, <1>3

\* A packet of the server.
LEMMA EchoSend ==
    ASSUME RecvInv, EchoInv, NEW n \in Lens \cup {EchoLen}, NEW p \in Nat,
           NEW m \in Nat, made <= m, p <= m, stream' = stream \o Packet(p, n),
           asked' = asked \/ p = EchoReply, UNCHANGED <<clientVars, obsVars>>
    PROVE  EchoInv'
<1>1. rec' = rec /\ echo' = echo /\ late' = late /\ cut' = cut /\ lost' = lost
  BY DEF clientVars, obsVars
<1> DEFINE u == Packet(p, n)
<1>2. /\ u \in Seq(Bytes(m)) /\ Len(u) = n /\ n \in Nat /\ n >= 4
      /\ u[n] = [packet |-> p, at |-> n, of |-> n]
  BY PacketBytes
<1>3. stream \in Seq(Bytes(m)) /\ stream' = stream \o u
  BY BytesGrow, RecvAssumption DEF RecvInv
<1> HIDE DEF u
<1>4. Joined(stream, u, stream')
  BY <1>2, <1>3, Join
<1>5. /\ Len(stream') = Len(stream) + n /\ Len(stream) \in Nat
      /\ \A i \in 1 .. Len(stream) : i \in 1 .. Len(stream') /\ stream'[i] = stream[i]
      /\ Len(stream) + n \in 1 .. Len(stream') /\ stream'[Len(stream) + n] = u[n]
  <2>1. n \in 1 .. Len(u)
    BY ONLY <1>2
  <2> QED  BY <1>2, <1>4, <2>1 DEF Joined
<1>6. rec \in Nat /\ rec <= Len(stream)
  BY RecInStream
<1>7. \A i \in 1 .. rec : i \in 1 .. Len(stream)
  BY ONLY <1>5, <1>6
<1>8. \A i \in rec + 1 .. Len(stream) : i \in 1 .. Len(stream) /\ i \in rec + 1 .. Len(stream')
  BY ONLY <1>2, <1>5, <1>6
<1>9. \/ asked' = asked
      \/ \E i \in rec + 1 .. Len(stream') : i \in 1 .. Len(stream') /\ ReplyEnds(stream'[i])
  <2> SUFFICES ASSUME p = EchoReply
               PROVE  /\ Len(stream) + n \in rec + 1 .. Len(stream')
                      /\ Len(stream) + n \in 1 .. Len(stream')
                      /\ ReplyEnds(stream'[Len(stream) + n])
    OBVIOUS
  <2>1. Len(stream) + n \in rec + 1 .. Len(stream')
    BY ONLY <1>2, <1>5, <1>6
  <2> QED  BY <1>2, <1>5, <2>1 DEF ReplyEnds
<1> SUFFICES ASSUME ~late, ~lost
             PROVE  /\ ~cut /\ echo <= 2
                    /\ echo >= 1 =>
                         asked' > 0 \/ \E i \in 1 .. Len(stream') : ReplyEnds(stream'[i])
                    /\ echo = 2 =>
                         /\ \E i \in 1 .. rec : ReplyEnds(stream'[i])
                         /\ asked' > 0 \/ \E i \in rec + 1 .. Len(stream') : ReplyEnds(stream'[i])
  BY <1>1 DEF EchoInv
<1>10. /\ ~cut /\ echo <= 2
       /\ echo >= 1 => asked > 0 \/ \E i \in 1 .. Len(stream) : ReplyEnds(stream[i])
       /\ echo = 2 => /\ \E i \in 1 .. rec : ReplyEnds(stream[i])
                      /\ asked > 0 \/ \E i \in rec + 1 .. Len(stream) : ReplyEnds(stream[i])
  BY DEF EchoInv
<1>11. echo >= 1 => asked' > 0 \/ \E i \in 1 .. Len(stream') : ReplyEnds(stream'[i])
  BY <1>5, <1>9, <1>10
<1>12. echo = 2 => \E i \in 1 .. rec : ReplyEnds(stream'[i])
  BY <1>5, <1>7, <1>10
<1>13. echo = 2 => asked' > 0 \/ \E i \in rec + 1 .. Len(stream') : ReplyEnds(stream'[i])
  BY <1>5, <1>8, <1>9, <1>10
<1> QED  BY <1>10, <1>11, <1>12, <1>13

\* A timeout while nothing is due.
LEMMA EchoTimeout ==
    ASSUME RecvInv, FrameInv, EchoInv, Timeout, ~late'
    PROVE  EchoInv' /\ over' = over
<1>1. ~late /\ ~AnswerDue /\ armed /\ ~lost /\ UNCHANGED <<stream, rec, lost>>
  BY DEF Timeout, Live
<1>2. ~(asked > 0) /\ ~(unsent > 0) /\ net = << >>
  BY <1>1 DEF AnswerDue
<1>3. asked \in Nat /\ unsent = 0 /\ echo \in Nat
  BY <1>2, RecvAssumption DEF RecvInv
<1>4. rec = Len(stream) /\ Len(stream) \in Nat
  BY <1>2, <1>3, RecInStream
<1>5. /\ ~cut /\ echo <= 2
      /\ echo >= 1 => \E i \in 1 .. rec : ReplyEnds(stream[i])
      /\ echo = 2 => \E i \in rec + 1 .. rec : TRUE
  BY <1>1, <1>2, <1>4 DEF EchoInv
<1>6. echo <= 1
  <2>1. ~ \E i \in rec + 1 .. rec : TRUE
    BY <1>4
  <2>2. echo # 2 /\ echo <= 2
    BY <1>5, <2>1
  <2> QED  BY ONLY <1>3, <2>2
<1>7. ~Silent
  BY <1>3, <1>6, RecvAssumption DEF Silent
<1>8. /\ sstp_state_echo_request /\ cut' = (cut \/ buf # << >>) /\ over' = over
  BY <1>7 DEF Timeout
<1>9. buf = << >>
  <2> SUFFICES ASSUME buf # << >> PROVE FALSE
    OBVIOUS
  <2>1. Len(stream) > 0
    BY <1>1, <1>5, PartInBuffer
  <2>2. rec = 0
    BY <1>1 DEF RecvInv
  <2> QED  BY ONLY <1>4, <2>1, <2>2
<1>10. ~cut'
  BY <1>5, <1>8, <1>9
<1>11. echo' = echo + 1 /\ asked' = asked + 1
  BY <1>8 DEF sstp_state_echo_request
<1>12. echo' <= 2 /\ asked' > 0 /\ (echo' = 2 => echo >= 1)
  BY ONLY <1>3, <1>6, <1>11
<1>13. echo' = 2 => \E i \in 1 .. rec' : ReplyEnds(stream'[i])
  BY <1>1, <1>5, <1>12
<1> QED  BY <1>8, <1>10, <1>12, <1>13 DEF EchoInv

\* Every step keeps the answers in sight.
LEMMA EchoStep ==
    ASSUME RecvInv, FrameInv, EchoInv, NoFalseAbort, [Next]_vars
    PROVE  EchoInv' /\ NoFalseAbort'
<1>1. ASSUME UNCHANGED <<stream, rec, asked, echo, late, cut, lost>>
      PROVE  EchoInv'
  BY <1>1 DEF EchoInv
<1>2. CASE UNCHANGED vars
  BY <1>1, <1>2 DEF vars, serverVars, clientVars, obsVars, NoFalseAbort
<1>3. ASSUME NEW n \in Lens, ServerSends(n) PROVE EchoInv' /\ NoFalseAbort'
  <2>1. /\ stream' = stream \o Packet(made + 1, n) /\ asked' = asked
        /\ UNCHANGED <<clientVars, obsVars, over>>
    BY <1>3 DEF ServerSends
  <2>2. made + 1 \in Nat /\ made <= made + 1 /\ made + 1 <= made + 1
    BY RecvAssumption DEF RecvInv
  <2>3. EchoInv'
    BY <2>1, <2>2, EchoSend
  <2> QED  BY <2>1, <2>3 DEF NoFalseAbort, obsVars
<1>4. ASSUME ServerAnswers PROVE EchoInv' /\ NoFalseAbort'
  <2>1. /\ stream' = stream \o Packet(EchoReply, EchoLen)
        /\ UNCHANGED <<clientVars, obsVars, over>>
    BY <1>4 DEF ServerAnswers
  <2>2. EchoReply \in Nat /\ made \in Nat /\ made <= made /\ EchoReply <= made
    BY RecvAssumption DEF RecvInv, EchoReply
  <2>3. EchoInv'
    BY <2>1, <2>2, EchoSend
  <2> QED  BY <2>1, <2>3 DEF NoFalseAbort, obsVars
<1>5. ASSUME NEW n \in 1 .. unsent, ServerWrites(n) PROVE EchoInv' /\ NoFalseAbort'
  BY <1>1, <1>5 DEF ServerWrites, clientVars, obsVars, NoFalseAbort
<1>6. ASSUME Readable PROVE EchoInv' /\ NoFalseAbort'
  BY <1>1, <1>6 DEF Readable, serverVars, clientVars, obsVars, NoFalseAbort
<1>7. ASSUME ReadTurn PROVE EchoInv' /\ NoFalseAbort'
  <2>1. over' = over /\ late' = late
    BY <1>7, TurnStep
  <2> QED  BY <1>7, <2>1, EchoTurn DEF NoFalseAbort
<1>8. ASSUME ReadBlocks PROVE EchoInv' /\ NoFalseAbort'
  BY <1>1, <1>8 DEF ReadBlocks, serverVars, clientVars, obsVars, NoFalseAbort
<1>9. ASSUME ReadFails PROVE EchoInv' /\ NoFalseAbort'
  <2>1. over' = "failed"
    BY <1>9 DEF ReadFails
  <2>2. EchoInv'
    BY <1>1, <1>9 DEF ReadFails, serverVars, clientVars, obsVars
  <2> QED  BY <2>1, <2>2 DEF NoFalseAbort
<1>10. ASSUME Timeout PROVE EchoInv' /\ NoFalseAbort'
  <2>1. CASE late'
    BY <2>1 DEF EchoInv, NoFalseAbort
  <2>2. CASE ~late'
    <3>1. EchoInv' /\ over' = over
      BY <1>10, <2>2, EchoTimeout
    <3>2. over = "no"
      BY <1>10 DEF Timeout, Live
    <3> QED  BY <3>1, <3>2 DEF NoFalseAbort
  <2> QED  BY <2>1, <2>2
<1> QED  BY <1>2, <1>3, <1>4, <1>5, <1>6, <1>7, <1>8, <1>9, <1>10
         DEF Next, Server, Writes, Client

\* sstp_state_recv gives a session up as silent only if some answer was late:
\* replies that came in time and wait in OpenSSL behind other packets, one per
\* timeout, never add up to the limit, whatever the limit is.
THEOREM NoFalseAborts == Spec => []NoFalseAbort
<1>1. Init => RecvInv /\ FrameInv /\ EchoInv /\ NoFalseAbort
  <2>1. Init => EchoInv /\ NoFalseAbort
    BY DEF Init, EchoInv, NoFalseAbort
  <2> QED  BY <2>1, RecvInvInit, FrameInit
<1>2. RecvInv /\ FrameInv /\ EchoInv /\ NoFalseAbort /\ [Next]_vars
        => RecvInv' /\ FrameInv' /\ EchoInv' /\ NoFalseAbort'
  BY RecvInvStep, FrameStep, EchoStep
<1> QED  BY <1>1, <1>2, PTL DEF Spec

=============================================================================
