---------------------------- MODULE InjectProofs ----------------------------
(***************************************************************************)
(* What the socket pair between write_ip and ios_inject_cb guarantees, for *)
(* every header size, packet limit, socket buffer and number of packets.   *)
(***************************************************************************)
EXTENDS Inject, SequenceTheorems, TLAPS

Bytes == [pkt : Nat, at : Nat]
Offers == Seq(1 .. WriterMax + 1)

\* The packet being written exists and was not refused.
HereInv == writing => This > 0 /\ offered[This] <= WriterMax

\* TypeOK with the types of the bytes themselves.
TypeInv ==
    /\ TypeOK
    /\ pipe \in Seq(Bytes)
    /\ given \in Seq(Seq(Bytes))
    /\ HereInv

-----------------------------------------------------------------------------
(* The shape of a stream s of bytes of packets with the lengths off.       *)

\* Bytes of a packet that come after b.
Rest(b, off) == Hdr + off[b.pkt] - b.at

\* Every byte is one of an accepted packet.
Placed(s, off) ==
    \A i \in DOMAIN s :
        /\ s[i].pkt \in DOMAIN off
        /\ s[i].at \in 1 .. Hdr + off[s[i].pkt]
        /\ off[s[i].pkt] <= WriterMax

\* After a byte come the rest of its packet, then the first byte of another
\* packet, and bytes of later packets only. (Said of any two places, since a
\* statement about neighbours would need an induction over the stream.)
Runs(s, off) ==
    \A i, j \in DOMAIN s : i <= j =>
        /\ j - i <= Rest(s[i], off)
             => s[j].pkt = s[i].pkt /\ s[j].at = s[i].at + (j - i)
        /\ j - i > Rest(s[i], off) => s[i].pkt < s[j].pkt
        /\ j - i = Rest(s[i], off) + 1 => s[j].at = 1

-----------------------------------------------------------------------------
(* The inductive invariant.                                                *)

\* The reader is at the first byte of a packet, or behind the header whose
\* length it decoded.
FrontInv ==
    pipe # << >> =>
        IF reading = "payload"
          THEN pipe[1].at = Hdr + 1 /\ want = offered[pipe[1].pkt]
          ELSE pipe[1].at = 1

\* The writer is at the end of a packet, or behind the header of this one.
BackInv ==
    pipe # << >> =>
        IF writing THEN pipe[Len(pipe)] = Byte(This, Hdr)
                   ELSE Rest(pipe[Len(pipe)], offered) = 0

\* An empty pipe inside a packet: both ends are inside the same one.
EmptyInv ==
    pipe = << >> /\ (writing \/ reading = "payload")
        => writing /\ reading = "payload" /\ want = offered[This]

\* What PPP was given is older than all that is still to come.
OlderInv ==
    \A i \in DOMAIN given :
        /\ given[i] # << >> /\ given[i][1].pkt \in DOMAIN offered
        /\ \A j \in DOMAIN pipe : given[i][1].pkt < pipe[j].pkt
        /\ writing => given[i][1].pkt < This

StreamInv ==
    /\ Placed(pipe, offered)
    /\ Runs(pipe, offered)
    /\ FrontInv
    /\ BackInv
    /\ EmptyInv
    /\ OlderInv

InjectInv == TypeInv /\ InOrderUnlessBroken /\ (~broken => StreamInv)

-----------------------------------------------------------------------------
(* Sequences of bytes.                                                     *)

\* The header of a packet is Hdr bytes, its payload as many as its length.
LEMMA ByteTypes ==
    ASSUME NEW p \in Nat, NEW i \in Nat
    PROVE  Byte(p, i) \in Bytes /\ Byte(p, i).pkt = p /\ Byte(p, i).at = i
  BY DEF Byte, Bytes

\* The bytes of a length header, as a sequence.
LEMMA HeaderSeq ==
    ASSUME NEW p \in Nat
    PROVE  /\ Header(p) \in Seq(Bytes)
           /\ Len(Header(p)) = Hdr
           /\ \A i \in 1 .. Hdr : Header(p)[i] = Byte(p, i)
  <1>1. Hdr \in Nat BY InjectAssumption
  <1>2. \A i \in 1 .. Hdr : Byte(p, i) \in Bytes BY <1>1, ByteTypes
  <1> QED BY <1>1, <1>2 DEF Header

\* The bytes of a packet, as a sequence.
LEMMA PayloadSeq ==
    ASSUME NEW p \in Nat, offered[p] \in Nat
    PROVE  /\ Payload(p) \in Seq(Bytes)
           /\ Len(Payload(p)) = offered[p]
           /\ \A i \in 1 .. offered[p] : Payload(p)[i] = Byte(p, Hdr + i)
  <1>1. Hdr \in Nat BY InjectAssumption
  <1>2. \A i \in 1 .. offered[p] : Byte(p, Hdr + i) \in Bytes BY <1>1, ByteTypes
  <1> DEFINE n == offered[p]
  <1>3. Payload(p) = [i \in 1 .. n |-> Byte(p, Hdr + i)] BY DEF Payload
  <1>4. n \in Nat OBVIOUS
  <1> HIDE DEF n
  <1>5. /\ Payload(p) \in Seq(Bytes) /\ Len(Payload(p)) = n
        /\ \A i \in 1 .. n : Payload(p)[i] = Byte(p, Hdr + i)
    <2>1. \A i \in 1 .. n : Byte(p, Hdr + i) \in Bytes BY <1>2 DEF n
    <2> QED BY <2>1, <1>3, <1>4
  <1> QED BY <1>5 DEF n

\* What a nonblocking write leaves in the pipe: what was there, and as much of
\* the bytes as fits; all of them unless the pipe is broken.
LEMMA WriteEffect ==
    ASSUME NEW bytes \in Seq(Bytes), pipe \in Seq(Bytes), Len(pipe) <= Cap,
           broken \in BOOLEAN, Writes(bytes)
    PROVE  /\ pipe' \in Seq(Bytes)
           /\ Len(pipe') <= Cap
           /\ Len(pipe') = Len(pipe) + Fits(bytes)
           /\ Fits(bytes) \in 0 .. Len(bytes)
           /\ \A i \in 1 .. Len(pipe) : pipe'[i] = pipe[i]
           /\ \A i \in 1 .. Fits(bytes) : pipe'[Len(pipe) + i] = bytes[i]
  <1> DEFINE n == Fits(bytes)
             t == SubSeq(bytes, 1, n)
  <1>1. n \in 0 .. Len(bytes) /\ n <= Cap - Len(pipe)
    BY InjectAssumption DEF Fits
  <1>2. pipe' = pipe \o t BY DEF Writes
  <1> HIDE DEF n
  <1>3. t \in Seq(Bytes) /\ Len(t) = n /\ \A i \in 1 .. n : t[i] = bytes[i]
    BY <1>1
  <1> HIDE DEF t
  <1>4. /\ pipe' \in Seq(Bytes) /\ Len(pipe') = Len(pipe) + n
        /\ \A i \in 1 .. Len(pipe) : pipe'[i] = pipe[i]
        /\ \A i \in 1 .. n : pipe'[Len(pipe) + i] = t[i]
    <2> DEFINE u == pipe \o t
    <2>1. /\ u \in Seq(Bytes) /\ Len(u) = Len(pipe) + Len(t)
          /\ \A i \in 1 .. Len(pipe) + Len(t) :
                u[i] = IF i <= Len(pipe) THEN pipe[i] ELSE t[i - Len(pipe)]
      BY <1>3, ConcatProperties
    <2>2. pipe' = u BY <1>2
    <2> HIDE DEF u
    <2>3. \A i \in 1 .. n : u[Len(pipe) + i] = t[i] BY <1>1, <1>3, <2>1
    <2> QED BY <1>1, <1>3, <2>1, <2>2, <2>3
  <1>5. Len(pipe') <= Cap BY <1>1, <1>4, InjectAssumption
  <1> QED BY <1>1, <1>3, <1>4, <1>5 DEF n

\* Whether a write is complete, and what it does to `broken'.
LEMMA WriteBroken ==
    ASSUME NEW bytes, broken \in BOOLEAN, Writes(bytes)
    PROVE  /\ broken' \in BOOLEAN
           /\ ~broken' => ~broken /\ ~(Fits(bytes) < Len(bytes))
  BY Zenon DEF Writes

\* What a read leaves: the pipe from the byte after the last one read.
LEMMA ReadEffect ==
    ASSUME NEW n \in Nat, pipe \in Seq(Bytes), Reads(n)
    PROVE  /\ pipe' \in Seq(Bytes)
           /\ Avail(n) \in 0 .. n /\ Avail(n) <= Len(pipe)
           /\ Len(pipe') = Len(pipe) - Avail(n)
           /\ \A i \in 1 .. Len(pipe') : pipe'[i] = pipe[i + Avail(n)]
  <1>1. Avail(n) \in 0 .. n /\ Avail(n) <= Len(pipe) BY DEF Avail
  <1>2. pipe' = SubSeq(pipe, Avail(n) + 1, Len(pipe)) BY DEF Reads
  <1>3. /\ pipe' \in Seq(Bytes)
        /\ Len(pipe') = Len(pipe) - Avail(n)
        /\ \A i \in 1 .. Len(pipe') : pipe'[i] = pipe[i + Avail(n)]
    BY <1>1, <1>2
  <1> QED BY <1>1, <1>3

-----------------------------------------------------------------------------
(* The shape of the stream under writes and reads.                         *)

\* Dropping bytes at the front keeps the shape.
LEMMA RunsSuffix ==
    ASSUME NEW s \in Seq(Bytes), NEW t \in Seq(Bytes), NEW off, NEW n \in Nat,
           Len(t) = Len(s) - n, \A i \in 1 .. Len(t) : t[i] = s[i + n],
           Placed(s, off), Runs(s, off)
    PROVE  Placed(t, off) /\ Runs(t, off)
  <1>1. \A i \in DOMAIN t : i + n \in DOMAIN s /\ t[i] = s[i + n] OBVIOUS
  <1>2. Placed(t, off) BY <1>1 DEF Placed
  <1>3. Runs(t, off)
    <2> SUFFICES ASSUME NEW i \in DOMAIN t, NEW j \in DOMAIN t, i <= j
                 PROVE /\ j - i <= Rest(t[i], off)
                          => t[j].pkt = t[i].pkt /\ t[j].at = t[i].at + (j - i)
                       /\ j - i > Rest(t[i], off) => t[i].pkt < t[j].pkt
                       /\ j - i = Rest(t[i], off) + 1 => t[j].at = 1
      BY DEF Runs
    <2> DEFINE k == i + n
               l == j + n
    <2>1. k \in DOMAIN s /\ l \in DOMAIN s /\ k <= l /\ l - k = j - i
      BY <1>1
    <2>2. t[i] = s[k] /\ t[j] = s[l] BY <1>1
    <2> HIDE DEF k, l
    <2>3. /\ l - k <= Rest(s[k], off)
             => s[l].pkt = s[k].pkt /\ s[l].at = s[k].at + (l - k)
          /\ l - k > Rest(s[k], off) => s[k].pkt < s[l].pkt
          /\ l - k = Rest(s[k], off) + 1 => s[l].at = 1
      BY <2>1 DEF Runs
    <2> QED BY <2>1, <2>2, <2>3
  <1> QED BY <1>2, <1>3

\* A length added to the list changes nothing for the bytes already there.
LEMMA OfferKept ==
    ASSUME NEW off \in Offers, NEW len \in 1 .. WriterMax + 1
    PROVE  LET o == Append(off, len) IN
           /\ o \in Offers /\ Len(o) = Len(off) + 1 /\ o[Len(off) + 1] = len
           /\ DOMAIN off = 1 .. Len(off) /\ DOMAIN o = 1 .. Len(off) + 1
           /\ \A p \in DOMAIN off : o[p] = off[p]
  BY DEF Offers

\* ... and the shape of the bytes in the pipe is kept.
LEMMA ShapeKept ==
    ASSUME NEW s \in Seq(Bytes), NEW off \in Offers,
           NEW len \in 1 .. WriterMax + 1, Placed(s, off), Runs(s, off)
    PROVE  Placed(s, Append(off, len)) /\ Runs(s, Append(off, len))
  <1> DEFINE o == Append(off, len)
  <1>1. \A p \in DOMAIN off : p \in DOMAIN o /\ o[p] = off[p]
    BY OfferKept
  <1> HIDE DEF o
  <1>2. \A i \in DOMAIN s : s[i].pkt \in DOMAIN off BY DEF Placed
  <1>3. \A i \in DOMAIN s : o[s[i].pkt] = off[s[i].pkt] BY <1>1, <1>2
  <1>4. Placed(s, o) BY <1>1, <1>3 DEF Placed
  <1>5. Runs(s, o) BY <1>3 DEF Runs, Rest
  <1> QED BY <1>4, <1>5 DEF o

\* t is s and n bytes of packet p, those from place a + 1 on; s ends with place
\* a of p, or with the end of another packet, p being newer than all of s.
Joined(s, t, off, p, a, n) ==
    /\ s \in Seq(Bytes) /\ t \in Seq(Bytes) /\ off \in Offers
    /\ p \in DOMAIN off /\ a \in Nat /\ n \in Nat
    /\ off[p] <= WriterMax /\ a + n <= Hdr + off[p]
    /\ Len(t) = Len(s) + n
    /\ \A i \in 1 .. Len(s) : t[i] = s[i]
    /\ \A i \in 1 .. n : t[Len(s) + i].pkt = p /\ t[Len(s) + i].at = a + i
    /\ s # << >> =>
         \/ a > 0 /\ s[Len(s)].pkt = p /\ s[Len(s)].at = a
         \/ /\ a = 0 /\ Rest(s[Len(s)], off) = 0
            /\ \A i \in DOMAIN s : s[i].pkt < p

\* A list of lengths, place by place.
LEMMA OfferTypes ==
    ASSUME NEW off \in Offers
    PROVE  /\ DOMAIN off = 1 .. Len(off) /\ Len(off) \in Nat
           /\ \A q \in DOMAIN off : /\ off[q] \in 1 .. WriterMax + 1
                                     /\ off[q] \in Nat /\ q \in Nat
  <1> DEFINE S == 1 .. WriterMax + 1
  <1>1. off \in Seq(S) BY DEF Offers
  <1>2. \A x \in S : x \in Nat BY InjectAssumption
  <1> HIDE DEF S
  <1>3. /\ DOMAIN off = 1 .. Len(off) /\ Len(off) \in Nat
        /\ \A q \in DOMAIN off : off[q] \in S
    BY <1>1
  <1>4. \A q \in DOMAIN off : q \in Nat BY <1>3
  <1> QED BY <1>2, <1>3, <1>4 DEF S

\* Bytes joined like this keep the shape of the stream.
LEMMA RunsAppend ==
    ASSUME NEW s, NEW t, NEW off, NEW p, NEW a, NEW n,
           Joined(s, t, off, p, a, n), Placed(s, off), Runs(s, off)
    PROVE  Placed(t, off) /\ Runs(t, off)
  <1> USE DEF Joined
  <1> DEFINE L == Len(s)
  <1>0. Hdr \in Nat /\ L \in Nat /\ p \in Nat /\ off[p] \in Nat
    <2>1. s \in Seq(Bytes) /\ off \in Offers /\ p \in DOMAIN off BY DEF Joined
    <2>2. L \in Nat BY <2>1
    <2> QED BY <2>1, <2>2, OfferTypes, InjectAssumption
  <1>1. DOMAIN s = 1 .. L /\ DOMAIN t = 1 .. L + n BY <1>0
  <1>2. \A i \in DOMAIN s : s[i].pkt \in DOMAIN off /\ s[i].at \in 1 .. Hdr + off[s[i].pkt]
                             /\ off[s[i].pkt] \in Nat /\ s[i].pkt \in Nat
    <2> TAKE i \in DOMAIN s
    <2>1. s[i].pkt \in Nat
      <3>1. s[i] \in Bytes BY <1>1
      <3> QED BY <3>1 DEF Bytes
    <2>2. s[i].pkt \in DOMAIN off /\ s[i].at \in 1 .. Hdr + off[s[i].pkt]
      BY DEF Placed
    <2>3. \A q \in DOMAIN off : off[q] \in Nat
      <3>1. off \in Offers BY DEF Joined
      <3> QED BY <3>1, OfferTypes
    <2> QED BY <2>1, <2>2, <2>3
  <1> HIDE DEF L
  <1>3. \A i \in L + 1 .. L + n : t[i].pkt = p /\ t[i].at = a + (i - L)
    <2> TAKE i \in L + 1 .. L + n
    <2>1. i - L \in 1 .. n /\ L + (i - L) = i BY <1>0
    <2> QED BY <2>1 DEF L
  <1>4. \A i \in 1 .. L : t[i] = s[i] BY DEF L
  <1>5. Placed(t, off)
    <2> SUFFICES ASSUME NEW i \in 1 .. L + n
                 PROVE  /\ t[i].pkt \in DOMAIN off
                        /\ t[i].at \in 1 .. Hdr + off[t[i].pkt]
                        /\ off[t[i].pkt] <= WriterMax
      BY <1>1 DEF Placed
    <2>1. CASE i <= L
      <3>1. i \in DOMAIN s /\ t[i] = s[i] BY <2>1, <1>0, <1>1, <1>4
      <3> QED BY <3>1 DEF Placed
    <2>2. CASE i > L
      <3>0. i \in L + 1 .. L + n BY <2>2, <1>0
      <3>1. t[i].pkt = p /\ t[i].at = a + (i - L) BY <3>0, <1>3
      <3> QED BY <3>1, <2>2, <1>0
    <2> QED BY <2>1, <2>2, <1>0
  <1>6. ASSUME NEW i \in 1 .. L + n, NEW j \in 1 .. L + n, i <= j
        PROVE /\ j - i <= Rest(t[i], off)
                 => t[j].pkt = t[i].pkt /\ t[j].at = t[i].at + (j - i)
              /\ j - i > Rest(t[i], off) => t[i].pkt < t[j].pkt
              /\ j - i = Rest(t[i], off) + 1 => t[j].at = 1
    <2>1. CASE j <= L
      <3>1. i \in DOMAIN s /\ j \in DOMAIN s /\ t[i] = s[i] /\ t[j] = s[j]
        BY <2>1, <1>0, <1>1, <1>4, <1>6
      <3> QED BY <3>1, <1>6 DEF Runs
    <2>2. CASE i > L
      <3>1. /\ t[i].pkt = p /\ t[i].at = a + (i - L)
            /\ t[j].pkt = p /\ t[j].at = a + (j - L)
        <4>1. i \in L + 1 .. L + n /\ j \in L + 1 .. L + n BY <2>2, <1>0, <1>6
        <4> QED BY <4>1, <1>3
      <3>2. j - i <= Rest(t[i], off) BY <3>1, <1>0 DEF Rest
      <3>3. t[j].at = t[i].at + (j - i) BY <3>1, <1>0
      <3>4. Rest(t[i], off) \in Int BY <3>1, <1>0 DEF Rest
      <3> QED BY <3>1, <3>2, <3>3, <3>4
    <2>3. CASE i <= L /\ j > L
      <3>0. i \in DOMAIN s /\ L \in DOMAIN s /\ i <= L /\ t[i] = s[i]
        BY <2>3, <1>0, <1>1, <1>4
      <3>1. t[j].pkt = p /\ t[j].at = a + (j - L) BY <2>3, <1>0, <1>3
      <3>2. /\ L - i <= Rest(s[i], off)
               => s[L].pkt = s[i].pkt /\ s[L].at = s[i].at + (L - i)
            /\ L - i > Rest(s[i], off) => s[i].pkt < s[L].pkt
        BY <3>0 DEF Runs
      <3> DEFINE r == Rest(s[i], off)
                 b == s[i]
                 c == s[L]
                 d == t[j]
      <3>3. /\ b.pkt \in Nat /\ b.at \in Nat /\ off[b.pkt] \in Nat
            /\ c.pkt \in Nat /\ c.at \in Nat /\ off[c.pkt] \in Nat
        <4>1. \A k \in DOMAIN s : s[k].at \in Nat BY <1>0, <1>2
        <4> QED BY <4>1, <3>0, <1>2
      <3>4. r = Hdr + off[b.pkt] - b.at /\ Rest(c, off) = Hdr + off[c.pkt] - c.at
        BY DEF Rest
      <3>5. /\ L - i <= r => c.pkt = b.pkt /\ c.at = b.at + (L - i)
            /\ L - i > r => b.pkt < c.pkt
        BY <3>2
      <3>6. d.pkt = p /\ d.at = a + (j - L) BY <3>1
      <3>7. s # << >> BY <3>0
      <3>8. \/ a > 0 /\ c.pkt = p /\ c.at = a
            \/ a = 0 /\ Rest(c, off) = 0 /\ b.pkt < p
        BY <3>0, <3>7 DEF L
      <3>9. i <= L /\ j > L /\ j <= L + n BY <2>3, <1>0
      <3> HIDE DEF b, c, d, r
      <3>10. c.pkt = b.pkt => off[c.pkt] = off[b.pkt] OBVIOUS
      <3>11. c.pkt = p => off[c.pkt] = off[p] OBVIOUS
      <3>12. /\ j - i <= r => d.pkt = b.pkt /\ d.at = b.at + (j - i)
             /\ j - i > r => b.pkt < d.pkt
             /\ j - i = r + 1 => d.at = 1
        <4>0. /\ a \in Nat /\ n \in Nat /\ i \in Nat /\ j \in Nat
              /\ a + n <= Hdr + off[p]
          BY <1>0
        <4>1. CASE L - i <= r /\ a > 0 /\ c.pkt = p /\ c.at = a
          <5> DEFINE o == off[p]
                     x == b.at
          <5>1. b.pkt = p /\ b.at + (L - i) = a /\ r = Hdr + off[p] - b.at
            BY ONLY <4>1, <1>0, <3>3, <3>4, <3>5, <3>10, <3>11, <4>0
          <5>2. /\ x + (L - i) = a /\ r = Hdr + o - x /\ a + n <= Hdr + o
                /\ o \in Nat /\ x \in Nat
            BY ONLY <5>1, <4>0, <3>3, <1>0
          <5> HIDE DEF o, x
          <5>3. j - i <= r /\ a + (j - L) = x + (j - i) /\ r \in Int
            BY ONLY <5>2, <1>0, <3>9, <4>0
          <5>4. d.pkt = b.pkt /\ d.at = x + (j - i) BY ONLY <5>1, <5>3, <3>6
          <5> QED BY ONLY <5>3, <5>4, <4>0 DEF x
        <4>2. CASE L - i > r /\ a > 0 /\ c.pkt = p /\ c.at = a
          <5>1. b.pkt < p /\ r \in Int BY ONLY <4>2, <1>0, <3>3, <3>4, <3>5
          <5>2. j - i > r + 1 BY ONLY <5>1, <4>2, <1>0, <3>9, <4>0
          <5> QED BY ONLY <5>1, <5>2, <1>0, <3>6, <4>0
        <4>3. CASE L - i <= r /\ a = 0 /\ Rest(c, off) = 0 /\ b.pkt < p
          <5> DEFINE o == off[b.pkt]
                     x == b.at
                     y == c.at
          <5>0. /\ y = x + (L - i) /\ Hdr + o - y = 0 /\ r = Hdr + o - x
                /\ o \in Nat /\ x \in Nat /\ y \in Nat
            BY ONLY <4>3, <3>3, <3>4, <3>5, <3>10
          <5> HIDE DEF o, x, y
          <5>1. L - i = r BY ONLY <5>0, <1>0, <4>0
          <5>2. j - i > r BY ONLY <5>1, <1>0, <3>9, <4>0
          <5> QED BY ONLY <5>1, <5>2, <4>3, <1>0, <3>6, <4>0
        <4>4. CASE L - i > r /\ a = 0 /\ Rest(c, off) = 0 /\ b.pkt < p
          <5>1. r \in Int BY ONLY <1>0, <3>3, <3>4
          <5>2. j - i > r + 1 BY ONLY <5>1, <4>4, <1>0, <3>9, <4>0
          <5> QED BY ONLY <5>1, <5>2, <4>4, <1>0, <3>6, <4>0
        <4>5. r \in Int BY ONLY <1>0, <3>3, <3>4
        <4> QED BY ONLY <4>1, <4>2, <4>3, <4>4, <4>5, <3>8, <1>0, <4>0
      <3> QED BY <3>0, <3>12 DEF b, d, r
    <2> QED BY <2>1, <2>2, <2>3, <1>0
  <1> QED BY <1>1, <1>5, <1>6 DEF Runs

-----------------------------------------------------------------------------
(* Types.                                                                  *)

\* The facts about constants and sequences that every step needs.
LEMMA TypeFacts ==
    ASSUME TypeInv
    PROVE  /\ Hdr \in Nat \ {0} /\ Cap \in Nat /\ MaxPkts \in Nat
           /\ WriterMax \in Nat \ {0} /\ ReaderMax \in Nat
           /\ WriterMax <= ReaderMax
           /\ offered \in Offers /\ DOMAIN offered = 1 .. This /\ This \in Nat
           /\ \A p \in DOMAIN offered : offered[p] \in 1 .. WriterMax + 1
           /\ pipe \in Seq(Bytes) /\ Len(pipe) \in Nat /\ Len(pipe) <= Cap
           /\ DOMAIN pipe = 1 .. Len(pipe)
           /\ broken \in BOOLEAN
  <1>1. /\ offered \in Seq(1 .. WriterMax + 1) /\ pipe \in Seq(Bytes)
        /\ Len(pipe) <= Cap /\ broken \in BOOLEAN
    BY DEF TypeInv, TypeOK
  <1>2. \A p \in DOMAIN offered : offered[p] \in 1 .. WriterMax + 1
    BY <1>1, OfferTypes DEF Offers
  <1>3. /\ DOMAIN offered = 1 .. This /\ This \in Nat
        /\ Len(pipe) \in Nat /\ DOMAIN pipe = 1 .. Len(pipe)
    BY <1>1 DEF This
  <1> QED BY <1>1, <1>2, <1>3, InjectAssumption DEF Offers

\* The first write of write_ip, taken apart: the length is added, and either
\* refused or announced in a header.
LEMMA WriteHeaderCases ==
    ASSUME TypeInv, WriteHeader
    PROVE  \E len \in 1 .. WriterMax + 1 :
             /\ offered' = Append(offered, len)
             /\ ~writing /\ Len(offered) < MaxPkts
             /\ UNCHANGED <<accepted, reading, want, given>>
             /\ \/ len > WriterMax /\ UNCHANGED <<pipe, writing, broken>>
                \/ /\ len <= WriterMax
                   /\ Writes(Header(Len(offered) + 1))
                   /\ writing' = (Fits(Header(Len(offered) + 1)) = Hdr)
  <1>1. PICK len \in 1 .. WriterMax + 1 :
          /\ offered' = Append(offered, len)
          /\ IF len > WriterMax
               THEN UNCHANGED <<pipe, writing, broken>>
               ELSE LET h == [i \in 1 .. Hdr |-> Byte(Len(offered) + 1, i)]
                    IN  Writes(h) /\ writing' = (Fits(h) = Hdr)
    BY DEF WriteHeader
  <1>2. ~writing /\ Len(offered) < MaxPkts
        /\ UNCHANGED <<accepted, reading, want, given>>
    BY DEF WriteHeader
  <1>3. CASE len > WriterMax BY <1>1, <1>2, <1>3
  <1>4. CASE ~(len > WriterMax)
    <2>1. /\ Writes(Header(Len(offered) + 1))
          /\ writing' = (Fits(Header(Len(offered) + 1)) = Hdr)
      BY <1>1, <1>4 DEF Header
    <2>2. len <= WriterMax BY <1>4, TypeFacts
    <2> QED BY <1>1, <1>2, <2>1, <2>2
  <1> QED BY <1>3, <1>4

\* Writing the two-byte header keeps the types.
LEMMA TypeHeader == ASSUME TypeInv, WriteHeader PROVE TypeInv'
  <1>0. TypeOK /\ given \in Seq(Seq(Bytes)) /\ pipe \in Seq(Bytes) BY DEF TypeInv
  <1>1. PICK len \in 1 .. WriterMax + 1 :
             /\ offered' = Append(offered, len)
             /\ ~writing /\ Len(offered) < MaxPkts
             /\ UNCHANGED <<accepted, reading, want, given>>
             /\ \/ len > WriterMax /\ UNCHANGED <<pipe, writing, broken>>
                \/ /\ len <= WriterMax
                   /\ Writes(Header(Len(offered) + 1))
                   /\ writing' = (Fits(Header(Len(offered) + 1)) = Hdr)
    BY WriteHeaderCases
  <1> DEFINE N == Len(offered) + 1
  <1>2. /\ offered' \in Seq(1 .. WriterMax + 1) /\ Len(offered') = N
        /\ DOMAIN offered' = 1 .. N /\ DOMAIN offered \subseteq DOMAIN offered'
        /\ N \in Nat /\ N <= MaxPkts /\ N \in DOMAIN offered'
    BY <1>1, OfferKept, TypeFacts DEF Offers
  <1> HIDE DEF N
  <1>3. accepted' \in Seq(DOMAIN offered')
    <2>1. accepted \in Seq(DOMAIN offered) BY <1>0 DEF TypeOK
    <2>2. accepted' = accepted BY <1>1
    <2> QED BY <2>1, <2>2, <1>2
  <1>4. /\ pipe' \in Seq(Bytes) /\ Len(pipe') <= Cap
        /\ \A i \in DOMAIN pipe' : pipe'[i].pkt \in DOMAIN offered'
        /\ writing' \in BOOLEAN /\ broken' \in BOOLEAN
    <2>0. \A i \in DOMAIN pipe : pipe[i].pkt \in DOMAIN offered BY <1>0 DEF TypeOK
    <2>1. CASE UNCHANGED <<pipe, writing, broken>>
      <3>1. writing \in BOOLEAN BY <1>0 DEF TypeOK
      <3> QED BY <2>0, <2>1, <3>1, <1>2, TypeFacts
    <2>2. CASE Writes(Header(N)) /\ writing' = (Fits(Header(N)) = Hdr)
      <3> DEFINE h == Header(N)
      <3>1. h \in Seq(Bytes) /\ Len(h) = Hdr /\ \A i \in 1 .. Hdr : h[i].pkt = N
        BY <1>2, HeaderSeq, ByteTypes, TypeFacts
      <3>2. Writes(h) BY <2>2
      <3> HIDE DEF h
      <3>3. /\ pipe' \in Seq(Bytes) /\ Len(pipe') <= Cap
            /\ Len(pipe') = Len(pipe) + Fits(h) /\ Fits(h) \in 0 .. Len(h)
            /\ \A i \in 1 .. Len(pipe) : pipe'[i] = pipe[i]
            /\ \A i \in 1 .. Fits(h) : pipe'[Len(pipe) + i] = h[i]
        BY <3>1, <3>2, WriteEffect, TypeFacts
      <3>4. \A i \in DOMAIN pipe' : pipe'[i].pkt \in DOMAIN offered'
        <4> SUFFICES ASSUME NEW i \in 1 .. Len(pipe) + Fits(h)
                     PROVE  pipe'[i].pkt \in DOMAIN offered'
          BY <3>3
        <4>1. CASE i <= Len(pipe)
          <5>1. i \in 1 .. Len(pipe) /\ i \in DOMAIN pipe BY <4>1, TypeFacts
          <5> QED BY <5>1, <3>3, <2>0, <1>2
        <4>2. CASE i > Len(pipe)
          <5> DEFINE k == i - Len(pipe)
          <5>1. k \in 1 .. Fits(h) /\ k \in 1 .. Hdr /\ Len(pipe) + k = i
            BY <4>2, <3>1, <3>3, TypeFacts
          <5>2. pipe'[i].pkt = N BY <5>1, <3>1, <3>3
          <5> QED BY <5>2, <1>2
        <4> QED BY <4>1, <4>2, <3>1, <3>3, TypeFacts
      <3>5. broken' \in BOOLEAN BY <3>2, WriteBroken, TypeFacts
      <3>6. writing' \in BOOLEAN BY Zenon, <2>2
      <3> QED BY <3>3, <3>4, <3>5, <3>6
    <2> QED BY <1>1, <2>1, <2>2 DEF N
  <1>5. /\ reading' = reading /\ want' = want /\ given' = given BY <1>1
  <1>6. HereInv'
    <2> SUFFICES ASSUME writing' PROVE This' > 0 /\ offered'[This'] <= WriterMax
      BY DEF HereInv
    <2>1. CASE UNCHANGED <<pipe, writing, broken>> BY <2>1, <1>1
    <2>2. CASE len <= WriterMax
      <3>1. This' = N BY <1>2 DEF This
      <3>2. offered'[N] = len BY <1>1, OfferKept, TypeFacts DEF N
      <3>3. N > 0 BY TypeFacts DEF N, This
      <3> QED BY <2>2, <3>1, <3>2, <3>3
    <2> QED BY <1>1, <2>1, <2>2
  <1> QED BY <1>0, <1>2, <1>3, <1>4, <1>5, <1>6 DEF TypeInv, TypeOK

\* Writing the packet behind its header keeps the types.
LEMMA TypePayload == ASSUME TypeInv, WritePayload PROVE TypeInv'
  <1>0. TypeOK /\ given \in Seq(Seq(Bytes)) /\ pipe \in Seq(Bytes) BY DEF TypeInv
  <1>1. /\ writing /\ writing' = FALSE
        /\ UNCHANGED <<offered, reading, want, given>>
        /\ Writes(Payload(This))
        /\ accepted' = accepted \/ accepted' = Append(accepted, This)
    BY DEF WritePayload
  <1>2. /\ This \in DOMAIN offered /\ This \in Nat
        /\ offered[This] \in Nat
    BY <1>1, TypeFacts DEF TypeInv, HereInv
  <1>3. accepted' \in Seq(DOMAIN offered')
    <2>1. accepted \in Seq(DOMAIN offered) BY <1>0 DEF TypeOK
    <2> QED BY <2>1, <1>1, <1>2
  <1> DEFINE h == Payload(This)
             N == This
  <1>4. /\ h \in Seq(Bytes) /\ Len(h) = offered[N]
        /\ \A i \in 1 .. Len(h) : h[i].pkt = N
    <2>1. \A i \in 1 .. offered[N] : h[i] = Byte(N, Hdr + i)
      BY <1>2, PayloadSeq
    <2>2. \A i \in 1 .. offered[N] : Byte(N, Hdr + i).pkt = N
      BY <1>2, ByteTypes, TypeFacts
    <2> QED BY <1>2, <2>1, <2>2, PayloadSeq
  <1>5. Writes(h) BY <1>1
  <1> HIDE DEF h
  <1>6. /\ pipe' \in Seq(Bytes) /\ Len(pipe') <= Cap
        /\ Len(pipe') = Len(pipe) + Fits(h) /\ Fits(h) \in 0 .. Len(h)
        /\ \A i \in 1 .. Len(pipe) : pipe'[i] = pipe[i]
        /\ \A i \in 1 .. Fits(h) : pipe'[Len(pipe) + i] = h[i]
    BY <1>4, <1>5, WriteEffect, TypeFacts
  <1>7. \A i \in DOMAIN pipe' : pipe'[i].pkt \in DOMAIN offered
    <2> SUFFICES ASSUME NEW i \in 1 .. Len(pipe) + Fits(h)
                 PROVE  pipe'[i].pkt \in DOMAIN offered
      BY <1>6
    <2>0. \A k \in DOMAIN pipe : pipe[k].pkt \in DOMAIN offered BY <1>0 DEF TypeOK
    <2>1. CASE i <= Len(pipe)
      <3>1. i \in 1 .. Len(pipe) /\ i \in DOMAIN pipe BY <2>1, TypeFacts
      <3> QED BY <3>1, <1>6, <2>0
    <2>2. CASE i > Len(pipe)
      <3> DEFINE k == i - Len(pipe)
      <3>1. k \in 1 .. Fits(h) /\ k \in 1 .. Len(h) /\ Len(pipe) + k = i
        BY <2>2, <1>4, <1>6, TypeFacts
      <3>2. pipe'[i].pkt = N BY <3>1, <1>4, <1>6
      <3> QED BY <3>2, <1>2
    <2> QED BY <2>1, <2>2, <1>4, <1>6, TypeFacts
  <1>8. broken' \in BOOLEAN BY <1>5, WriteBroken, TypeFacts
  <1>9. HereInv' BY <1>1 DEF HereInv
  <1> QED BY <1>0, <1>1, <1>3, <1>6, <1>7, <1>8, <1>9 DEF TypeInv, TypeOK

\* A read never puts anything into the pipe.
LEMMA TypeRead ==
    ASSUME TypeInv, NEW n \in Nat, Reads(n)
    PROVE  /\ pipe' \in Seq(Bytes) /\ Len(pipe') <= Cap
           /\ \A i \in DOMAIN pipe' : pipe'[i].pkt \in DOMAIN offered
  <1>1. /\ pipe' \in Seq(Bytes)
        /\ Avail(n) \in 0 .. n /\ Avail(n) <= Len(pipe)
        /\ Len(pipe') = Len(pipe) - Avail(n)
        /\ \A i \in 1 .. Len(pipe') : pipe'[i] = pipe[i + Avail(n)]
    BY ReadEffect, TypeFacts
  <1>2. Len(pipe') <= Cap BY <1>1, TypeFacts
  <1>3. ASSUME NEW i \in 1 .. Len(pipe') PROVE pipe'[i].pkt \in DOMAIN offered
    <2>1. i + Avail(n) \in DOMAIN pipe BY <1>1, TypeFacts
    <2>2. pipe[i + Avail(n)].pkt \in DOMAIN offered BY <2>1 DEF TypeInv, TypeOK
    <2> QED BY <2>2, <1>1
  <1>4. DOMAIN pipe' = 1 .. Len(pipe') BY <1>1
  <1> QED BY <1>1, <1>2, <1>3, <1>4

\* The loop reads a payload only with a length that fits its buffer.
LEMMA TypeInjectHeader == ASSUME TypeInv, InjectHeader PROVE TypeInv'
  <1>0. TypeOK /\ given \in Seq(Seq(Bytes)) /\ pipe \in Seq(Bytes) /\ HereInv
    BY DEF TypeInv
  <1>1. Reads(Hdr) /\ UNCHANGED <<offered, writing, accepted, given>>
    BY DEF InjectHeader
  <1>2. /\ pipe' \in Seq(Bytes) /\ Len(pipe') <= Cap
        /\ \A i \in DOMAIN pipe' : pipe'[i].pkt \in DOMAIN offered
    BY <1>1, TypeRead, TypeFacts
  <1>3. /\ reading' \in {"no", "header", "payload"} /\ want' \in 0 .. ReaderMax
        /\ reading' = "payload" => want' # 0
        /\ broken' \in BOOLEAN
    <2>1. CASE Len(pipe) >= Hdr
      <3> DEFINE B == SubSeq(pipe, 1, Hdr)
      <3>1. PICK len \in Lengths(B) :
              /\ reading' = IF Skipped(len) THEN "header" ELSE "payload"
              /\ want' = IF Skipped(len) THEN 0 ELSE len
              /\ UNCHANGED broken
        BY <2>1 DEF InjectHeader
      <3>2. len \in Nat
        <4>1. 1 \in DOMAIN pipe BY <2>1, TypeFacts
        <4>2. B[1] = pipe[1] BY <2>1, TypeFacts
        <4>3. B[1].pkt \in DOMAIN offered BY <4>1, <4>2, <1>0 DEF TypeOK
        <4>4. offered[B[1].pkt] \in Nat BY <4>3, TypeFacts
        <4> HIDE DEF B
        <4> QED BY <3>1, <4>4, TypeFacts DEF Lengths
      <3>3. CASE Skipped(len) BY <3>1, <3>3, TypeFacts
      <3>4. CASE ~Skipped(len)
        <4>1. len \in 0 .. ReaderMax /\ len # 0
          BY <3>2, <3>4, TypeFacts DEF Skipped
        <4> QED BY <3>1, <3>4, <4>1, TypeFacts
      <3> QED BY <3>3, <3>4
    <2>2. CASE ~(Len(pipe) >= Hdr)
      <3>1. reading' = "no" /\ want' = want BY <2>2 DEF InjectHeader
      <3>2. broken' = (broken \/ pipe # << >>) BY <2>2 DEF InjectHeader
      <3>3. broken' \in BOOLEAN BY Zenon, <3>2
      <3> QED BY <3>1, <3>3, <1>0 DEF TypeOK
    <2> QED BY <2>1, <2>2
  <1>4. HereInv' BY <1>0, <1>1 DEF HereInv, This
  <1> QED BY <1>0, <1>1, <1>2, <1>3, <1>4 DEF TypeInv, TypeOK

\* Reading a packet out of the pipe keeps the types.
LEMMA TypeInjectPayload == ASSUME TypeInv, InjectPayload PROVE TypeInv'
  <1>0. TypeOK /\ given \in Seq(Seq(Bytes)) /\ pipe \in Seq(Bytes) /\ HereInv
    BY DEF TypeInv
  <1>1. Reads(want) /\ want' = 0 /\ UNCHANGED <<offered, writing, accepted>>
    BY DEF InjectPayload
  <1>2. want \in Nat BY <1>0, TypeFacts DEF TypeOK
  <1>3. /\ pipe' \in Seq(Bytes) /\ Len(pipe') <= Cap
        /\ \A i \in DOMAIN pipe' : pipe'[i].pkt \in DOMAIN offered
    BY <1>1, <1>2, TypeRead, TypeFacts
  <1>4. /\ reading' \in {"no", "header"} /\ broken' \in BOOLEAN
        /\ given' = given \/ given' = Append(given, SubSeq(pipe, 1, Avail(want)))
    BY TypeFacts DEF InjectPayload
  <1>5. given' \in Seq(Seq(Bytes))
    <2>1. Avail(want) \in 0 .. Len(pipe) BY <1>2, TypeFacts DEF Avail
    <2> DEFINE B == SubSeq(pipe, 1, Avail(want))
    <2>2. B \in Seq(Bytes) BY <2>1, <1>0
    <2> HIDE DEF B
    <2> DEFINE S == Seq(Bytes)
    <2>3. given \in Seq(S) /\ B \in S BY <1>0, <2>2
    <2>4. given' = given \/ given' = Append(given, B) BY <1>4 DEF B
    <2> HIDE DEF S
    <2>5. given' \in Seq(S) BY <2>3, <2>4, AppendProperties
    <2> QED BY <2>5 DEF S
  <1>6. HereInv' BY <1>0, <1>1 DEF HereInv, This
  <1> QED BY <1>0, <1>1, <1>3, <1>4, <1>5, <1>6, TypeFacts DEF TypeInv, TypeOK

\* Every step keeps the types.
LEMMA TypeStep == TypeInv /\ [Next]_vars => TypeInv'
  <1> SUFFICES ASSUME TypeInv, [Next]_vars PROVE TypeInv' OBVIOUS
  <1>1. CASE WriteHeader BY <1>1, TypeHeader
  <1>2. CASE WritePayload BY <1>2, TypePayload
  <1>3. CASE InjectStart
    BY <1>3 DEF InjectStart, TypeInv, TypeOK, HereInv, This
  <1>4. CASE InjectHeader BY <1>4, TypeInjectHeader
  <1>5. CASE InjectPayload BY <1>5, TypeInjectPayload
  <1>6. CASE UNCHANGED vars
    BY <1>6 DEF vars, TypeInv, TypeOK, HereInv, This
  <1> QED BY <1>1, <1>2, <1>3, <1>4, <1>5, <1>6 DEF Next, Callback

-----------------------------------------------------------------------------
(* The shape of the pipe, step by step, while nothing came up short.       *)

\* A byte is its packet and its place.
LEMMA ByteIs ==
    ASSUME NEW b \in Bytes, NEW p, NEW a, b.pkt = p, b.at = a
    PROVE  b = Byte(p, a)
  BY DEF Bytes, Byte

\* What PPP was given stays in order when only the list of lengths grows.
LEMMA OrderKept ==
    ASSUME TypeInv, OlderInv, InOrderUnlessBroken, ~broken, given' = given,
           \A p \in DOMAIN offered : offered'[p] = offered[p]
    PROVE  InOrderUnlessBroken'
  <1>1. ASSUME NEW i \in DOMAIN given
        PROVE  /\ given[i] # << >> /\ Len(given[i]) <= WriterMax
               /\ given[i] = Payload(given[i][1].pkt)'
    <2> DEFINE p == given[i][1].pkt
    <2>1. given[i] # << >> /\ given[i] = Payload(p) /\ Len(given[i]) <= WriterMax
      BY DEF InOrderUnlessBroken
    <2>2. p \in DOMAIN offered BY DEF OlderInv
    <2> HIDE DEF p
    <2>4. Payload(given[i][1].pkt)' = [k \in 1 .. offered'[p] |-> Byte(p, Hdr + k)]
      BY DEF Payload, p
    <2> QED BY <2>1, <2>2, <2>4 DEF Payload
  <1>2. \A i, j \in DOMAIN given : i < j => given[i][1].pkt < given[j][1].pkt
    BY DEF InOrderUnlessBroken
  <1> QED BY <1>1, <1>2 DEF InOrderUnlessBroken

\* A refused packet leaves only its length behind.
LEMMA StreamRefused ==
    ASSUME TypeInv, StreamInv, ~writing, NEW len \in 1 .. WriterMax + 1,
           offered' = Append(offered, len),
           UNCHANGED <<pipe, writing, reading, want, given>>
    PROVE  StreamInv'
  <1>1. /\ \A p \in DOMAIN offered : offered'[p] = offered[p] /\ p \in DOMAIN offered'
    BY OfferKept, TypeFacts
  <1>2. Placed(pipe, offered') /\ Runs(pipe, offered')
    BY ShapeKept, TypeFacts DEF StreamInv
  <1>3. \A i \in DOMAIN pipe : offered'[pipe[i].pkt] = offered[pipe[i].pkt]
    BY <1>1 DEF StreamInv, Placed
  <1>4. pipe # << >> => 1 \in DOMAIN pipe /\ Len(pipe) \in DOMAIN pipe
    BY TypeFacts
  <1>5. FrontInv' BY <1>3, <1>4 DEF StreamInv, FrontInv
  <1>6. BackInv'
    <2>1. pipe # << >> => Rest(pipe[Len(pipe)], offered) = 0
      BY DEF StreamInv, BackInv
    <2>2. pipe # << >> => Rest(pipe[Len(pipe)], offered') = 0
      BY <1>3, <1>4, <2>1 DEF Rest
    <2> QED BY <2>2 DEF BackInv
  <1>7. EmptyInv' BY DEF StreamInv, EmptyInv
  <1>8. OlderInv' BY <1>1 DEF StreamInv, OlderInv
  <1> QED BY <1>2, <1>5, <1>6, <1>7, <1>8 DEF StreamInv

\* A whole header starts a packet newer than all there is.
LEMMA StreamHeader ==
    ASSUME TypeInv, StreamInv, ~writing, NEW len \in 1 .. WriterMax,
           offered' = Append(offered, len),
           Writes(Header(Len(offered) + 1)), writing',
           Fits(Header(Len(offered) + 1)) = Hdr,
           UNCHANGED <<reading, want, given>>
    PROVE  StreamInv'
  <1> DEFINE N == Len(offered) + 1
             h == Header(N)
  <1>0. /\ Hdr \in Nat /\ Hdr > 0 /\ Len(pipe) \in Nat /\ Len(offered) \in Nat
        /\ DOMAIN pipe = 1 .. Len(pipe) /\ DOMAIN offered = 1 .. Len(offered)
    BY TypeFacts DEF This
  <1>1. /\ offered' \in Offers /\ DOMAIN offered' = 1 .. N /\ Len(offered') = N
        /\ offered'[N] = len
        /\ \A p \in DOMAIN offered : offered'[p] = offered[p] /\ p \in DOMAIN offered'
    BY OfferKept, TypeFacts
  <1>2. N \in Nat /\ N \in DOMAIN offered' /\ \A p \in DOMAIN offered : p < N
    BY <1>0, <1>1
  <1>3. This' = N BY <1>1 DEF This
  <1>4. Writes(h) /\ Fits(h) = Hdr OBVIOUS
  <1>5. /\ h \in Seq(Bytes) /\ Len(h) = Hdr
        /\ \A i \in 1 .. Hdr : h[i] = Byte(N, i) /\ h[i].pkt = N /\ h[i].at = i
    BY <1>0, <1>2, HeaderSeq, ByteTypes
  <1> HIDE DEF h, N
  <1>6. /\ pipe' \in Seq(Bytes) /\ Len(pipe') = Len(pipe) + Hdr
        /\ \A i \in 1 .. Len(pipe) : pipe'[i] = pipe[i]
        /\ \A i \in 1 .. Hdr : pipe'[Len(pipe) + i] = h[i]
    BY <1>4, <1>5, WriteEffect, TypeFacts
  <1>7. \A i \in DOMAIN pipe : /\ pipe[i].pkt \in DOMAIN offered
                                /\ offered'[pipe[i].pkt] = offered[pipe[i].pkt]
                                /\ pipe[i].pkt < N
    BY <1>1, <1>2 DEF StreamInv, Placed
  <1>8. pipe # << >> => 1 \in DOMAIN pipe /\ Len(pipe) \in DOMAIN pipe
    BY <1>0, TypeFacts
  <1>9. pipe # << >> => Rest(pipe[Len(pipe)], offered') = 0
    <2>1. pipe # << >> => Rest(pipe[Len(pipe)], offered) = 0
      BY DEF StreamInv, BackInv
    <2> QED BY <1>7, <1>8, <2>1 DEF Rest
  <1>10. Placed(pipe', offered') /\ Runs(pipe', offered')
    <2>1. Placed(pipe, offered') /\ Runs(pipe, offered')
      BY ShapeKept, TypeFacts DEF StreamInv
    <2>2. \A i \in 1 .. Hdr : /\ pipe'[Len(pipe) + i].pkt = N
                               /\ pipe'[Len(pipe) + i].at = 0 + i
      BY <1>5, <1>6, <1>0
    <2>3. offered'[N] <= WriterMax /\ 0 + Hdr <= Hdr + offered'[N] /\ 0 \in Nat
      BY <1>0, <1>1, TypeFacts
    <2>4. pipe \in Seq(Bytes) BY TypeFacts
    <2>5. pipe # << >> => /\ 0 = 0 /\ Rest(pipe[Len(pipe)], offered') = 0
                         /\ \A i \in DOMAIN pipe : pipe[i].pkt < N
      BY <1>7, <1>9
    <2>6. Joined(pipe, pipe', offered', N, 0, Hdr)
      BY <1>0, <1>1, <1>2, <1>6, <2>2, <2>3, <2>4, <2>5 DEF Joined
    <2> QED BY <2>1, <2>6, RunsAppend
  <1>11. pipe' # << >> /\ 1 \in DOMAIN pipe' /\ Len(pipe') \in DOMAIN pipe'
    BY <1>0, <1>6
  <1>12. FrontInv'
    <2>1. CASE pipe = << >>
      <3>1. reading # "payload" BY <2>1 DEF StreamInv, EmptyInv
      <3>2. Len(pipe) = 0 BY <2>1
      <3>3. pipe'[1] = h[1] BY <3>2, <1>0, <1>6
      <3>4. pipe'[1].at = 1 BY <3>3, <1>0, <1>5
      <3> QED BY <3>1, <3>4 DEF FrontInv
    <2>2. CASE pipe # << >>
      <3>1. pipe'[1] = pipe[1] /\ offered'[pipe[1].pkt] = offered[pipe[1].pkt]
        BY <2>2, <1>0, <1>6, <1>7, <1>8
      <3> QED BY <2>2, <3>1 DEF StreamInv, FrontInv
    <2> QED BY <2>1, <2>2
  <1>13. BackInv'
    <2>1. pipe'[Len(pipe')] = Byte(N, Hdr) BY <1>0, <1>5, <1>6
    <2> QED BY <2>1, <1>3 DEF BackInv
  <1>14. EmptyInv' BY <1>11 DEF EmptyInv
  <1>15. OlderInv'
    <2> SUFFICES ASSUME NEW i \in DOMAIN given
                 PROVE  /\ given[i] # << >> /\ given[i][1].pkt \in DOMAIN offered'
                        /\ \A j \in DOMAIN pipe' : given[i][1].pkt < pipe'[j].pkt
                        /\ given[i][1].pkt < This'
      BY DEF OlderInv
    <2>1. /\ given[i] # << >> /\ given[i][1].pkt \in DOMAIN offered
          /\ \A j \in DOMAIN pipe : given[i][1].pkt < pipe[j].pkt
      BY DEF StreamInv, OlderInv
    <2>2. given[i][1].pkt < N BY <2>1, <1>2
    <2>3. ASSUME NEW j \in 1 .. Len(pipe) + Hdr PROVE given[i][1].pkt < pipe'[j].pkt
      <3>1. CASE j <= Len(pipe)
        <4>1. j \in 1 .. Len(pipe) BY <3>1, <1>0
        <4>2. j \in DOMAIN pipe /\ pipe'[j] = pipe[j] BY <4>1, <1>0, <1>6
        <4> QED BY <4>2, <2>1
      <3>2. CASE j > Len(pipe)
        <4> DEFINE k == j - Len(pipe)
        <4>1. k \in 1 .. Hdr /\ Len(pipe) + k = j BY <3>2, <1>0
        <4>2. pipe'[j].pkt = N BY <4>1, <1>5, <1>6
        <4> QED BY <4>2, <2>2
      <3> QED BY <3>1, <3>2, <1>0
    <2>4. DOMAIN pipe' = 1 .. Len(pipe) + Hdr BY <1>6
    <2> QED BY <2>1, <2>2, <2>3, <2>4, <1>1, <1>3
  <1> QED BY <1>10, <1>12, <1>13, <1>14, <1>15 DEF StreamInv

\* A whole payload completes the packet whose header the pipe ends with, or
\* whose header the reader already took.
LEMMA StreamPayload ==
    ASSUME TypeInv, StreamInv, writing, ~writing', Writes(Payload(This)),
           Fits(Payload(This)) = offered[This],
           UNCHANGED <<offered, reading, want, given>>
    PROVE  StreamInv'
  <1> DEFINE N == This
             h == Payload(N)
             n == offered[N]
  <1>0. /\ Hdr \in Nat /\ Hdr > 0 /\ Len(pipe) \in Nat
        /\ DOMAIN pipe = 1 .. Len(pipe)
        /\ N \in DOMAIN offered /\ N \in Nat /\ n \in Nat /\ n > 0 /\ n <= WriterMax
    BY TypeFacts DEF TypeInv, HereInv
  <1>1. Writes(h) /\ Fits(h) = n OBVIOUS
  <1>2. /\ h \in Seq(Bytes) /\ Len(h) = n
        /\ \A i \in 1 .. n : h[i].pkt = N /\ h[i].at = Hdr + i
    <2>1. h \in Seq(Bytes) /\ Len(h) = n /\ \A i \in 1 .. n : h[i] = Byte(N, Hdr + i)
      BY <1>0, PayloadSeq
    <2>2. \A i \in 1 .. n : Byte(N, Hdr + i).pkt = N /\ Byte(N, Hdr + i).at = Hdr + i
      BY <1>0, ByteTypes
    <2> QED BY <2>1, <2>2
  <1>3. n = offered[N] OBVIOUS
  <1> HIDE DEF h, n
  <1>4. /\ pipe' \in Seq(Bytes) /\ Len(pipe') = Len(pipe) + n
        /\ \A i \in 1 .. Len(pipe) : pipe'[i] = pipe[i]
        /\ \A i \in 1 .. n : pipe'[Len(pipe) + i] = h[i]
    BY <1>1, <1>2, WriteEffect, TypeFacts
  <1>5. \A i \in 1 .. n : /\ pipe'[Len(pipe) + i].pkt = N
                           /\ pipe'[Len(pipe) + i].at = Hdr + i
    BY <1>2, <1>4
  <1>6. pipe # << >> => 1 \in DOMAIN pipe /\ pipe[Len(pipe)].pkt = N
                        /\ pipe[Len(pipe)].at = Hdr
    <2>1. pipe # << >> => pipe[Len(pipe)] = Byte(N, Hdr)
      BY DEF StreamInv, BackInv
    <2>2. pipe # << >> => 1 \in DOMAIN pipe BY <1>0, TypeFacts
    <2> QED BY <2>1, <2>2, <1>0, ByteTypes
  <1>7. Placed(pipe', offered) /\ Runs(pipe', offered)
    <2>1. Placed(pipe, offered) /\ Runs(pipe, offered) BY DEF StreamInv
    <2>2. pipe \in Seq(Bytes) /\ offered \in Offers BY TypeFacts
    <2>3. offered[N] <= WriterMax /\ Hdr + n <= Hdr + offered[N]
      BY <1>0, <1>3
    <2> HIDE DEF N
    <2>4. Joined(pipe, pipe', offered, N, Hdr, n)
      BY <1>0, <1>4, <1>5, <1>6, <2>2, <2>3 DEF Joined
    <2> QED BY <2>1, <2>4, RunsAppend
  <1>8. pipe' # << >> /\ DOMAIN pipe' = 1 .. Len(pipe) + n BY <1>0, <1>4
  <1>9. FrontInv'
    <2>1. CASE pipe = << >>
      <3>1. reading = "payload" /\ want = n
        BY <2>1 DEF StreamInv, EmptyInv, n
      <3>2. Len(pipe) = 0 BY <2>1
      <3>3. 1 \in 1 .. n /\ Len(pipe) + 1 = 1 BY <3>2, <1>0
      <3>4. pipe'[1].pkt = N /\ pipe'[1].at = Hdr + 1 BY <3>3, <1>5
      <3> QED BY <3>1, <3>4, <1>3 DEF FrontInv
    <2>2. CASE pipe # << >>
      <3>1. pipe'[1] = pipe[1] BY <2>2, <1>0, <1>4, <1>6
      <3> QED BY <2>2, <3>1 DEF StreamInv, FrontInv
    <2> QED BY <2>1, <2>2
  <1>10. BackInv'
    <2>1. n \in 1 .. n BY <1>0
    <2>2. pipe'[Len(pipe')].pkt = N /\ pipe'[Len(pipe')].at = Hdr + n
      BY <2>1, <1>4, <1>5
    <2>3. Rest(pipe'[Len(pipe')], offered) = 0 BY <2>2, <1>0, <1>3 DEF Rest
    <2> QED BY <2>3 DEF BackInv
  <1>11. EmptyInv' BY <1>8 DEF EmptyInv
  <1>12. OlderInv'
    <2> SUFFICES ASSUME NEW i \in DOMAIN given
                 PROVE  /\ given[i] # << >> /\ given[i][1].pkt \in DOMAIN offered
                        /\ \A j \in DOMAIN pipe' : given[i][1].pkt < pipe'[j].pkt
      BY DEF OlderInv
    <2>1. /\ given[i] # << >> /\ given[i][1].pkt \in DOMAIN offered
          /\ \A j \in DOMAIN pipe : given[i][1].pkt < pipe[j].pkt
          /\ given[i][1].pkt < N
      BY DEF StreamInv, OlderInv
    <2>2. ASSUME NEW j \in 1 .. Len(pipe) + n PROVE given[i][1].pkt < pipe'[j].pkt
      <3>1. CASE j <= Len(pipe)
        <4>1. j \in DOMAIN pipe /\ pipe'[j] = pipe[j] BY <3>1, <1>0, <1>4
        <4> QED BY <4>1, <2>1
      <3>2. CASE j > Len(pipe)
        <4> DEFINE k == j - Len(pipe)
        <4>1. k \in 1 .. n /\ Len(pipe) + k = j BY <3>2, <1>0
        <4>2. pipe'[j].pkt = N BY <4>1, <1>5
        <4> QED BY <4>2, <2>1
      <3> QED BY <3>1, <3>2, <1>0
    <2> QED BY <2>1, <2>2, <1>8
  <1> QED BY <1>7, <1>9, <1>10, <1>11, <1>12 DEF StreamInv

\* The loop finds a whole header, decodes its length and goes on behind it.
LEMMA StreamReadHeader ==
    ASSUME TypeInv, StreamInv, InjectHeader, Len(pipe) >= Hdr
    PROVE  StreamInv'
  <1> DEFINE p == pipe[1].pkt
             B == SubSeq(pipe, 1, Hdr)
  <1>0. /\ Hdr \in Nat /\ Hdr > 0 /\ Len(pipe) \in Nat
        /\ DOMAIN pipe = 1 .. Len(pipe) /\ 1 \in DOMAIN pipe /\ pipe # << >>
        /\ reading = "header" /\ UNCHANGED <<offered, writing, given>>
    BY TypeFacts DEF InjectHeader
  <1>1. /\ p \in DOMAIN offered /\ p \in Nat /\ pipe[1].at = 1
        /\ offered[p] \in Nat /\ offered[p] >= 1 /\ offered[p] <= WriterMax
    <2>1. p \in DOMAIN offered /\ offered[p] <= WriterMax
      BY <1>0 DEF StreamInv, Placed
    <2>2. pipe[1].at = 1 BY <1>0 DEF StreamInv, FrontInv
    <2> QED BY <2>1, <2>2, TypeFacts
  <1>2. Rest(pipe[1], offered) = Hdr + offered[p] - 1 BY <1>1 DEF Rest
  <1>3. \A i \in 1 .. Len(pipe) : i - 1 <= Hdr + offered[p] - 1
                                  => pipe[i].pkt = p /\ pipe[i].at = i
    <2> SUFFICES ASSUME NEW i \in 1 .. Len(pipe), i - 1 <= Hdr + offered[p] - 1
                 PROVE  pipe[i].pkt = p /\ pipe[i].at = i
      OBVIOUS
    <2>1. i \in DOMAIN pipe /\ 1 <= i BY <1>0
    <2>2. pipe[i].pkt = pipe[1].pkt /\ pipe[i].at = pipe[1].at + (i - 1)
      BY <2>1, <1>0, <1>2 DEF StreamInv, Runs
    <2> QED BY <2>1, <2>2, <1>1
  <1> HIDE DEF p
  <1>4. B = Header(p)
    <2>1. B \in Seq(Bytes) /\ Len(B) = Hdr /\ \A i \in 1 .. Hdr : B[i] = pipe[i]
      BY <1>0, TypeFacts
    <2> HIDE DEF B
    <2>2. ASSUME NEW i \in 1 .. Hdr PROVE B[i] = Byte(p, i)
      <3>1. i \in 1 .. Len(pipe) /\ i - 1 <= Hdr + offered[p] - 1 BY <1>0, <1>1
      <3>2. pipe[i].pkt = p /\ pipe[i].at = i BY <3>1, <1>3
      <3>3. pipe[i] \in Bytes BY <3>1, TypeFacts
      <3> QED BY <3>2, <3>3, <2>1, ByteIs
    <2>3. B = [i \in 1 .. Hdr |-> B[i]] BY <2>1
    <2> QED BY <2>2, <2>3 DEF Header
  <1>5. reading' = "payload" /\ want' = offered[p]
    <2>1. PICK len \in Lengths(B) :
            /\ reading' = IF Skipped(len) THEN "header" ELSE "payload"
            /\ want' = IF Skipped(len) THEN 0 ELSE len
      BY DEF InjectHeader
    <2>2. B[1].pkt = p BY <1>0, TypeFacts DEF p
    <2>3. Lengths(B) = {offered[p]} BY <2>2, <1>4 DEF Lengths
    <2>4. len = offered[p] BY <2>1, <2>3
    <2>5. ~Skipped(len) BY <2>4, <1>1, TypeFacts DEF Skipped
    <2> QED BY <2>1, <2>4, <2>5
  <1> HIDE DEF B
  <1>6. Reads(Hdr) BY DEF InjectHeader
  <1>7. /\ pipe' \in Seq(Bytes) /\ Len(pipe') = Len(pipe) - Hdr
        /\ \A i \in 1 .. Len(pipe') : pipe'[i] = pipe[i + Hdr]
    <2>0. ~(Len(pipe) < Hdr) BY ONLY <1>0, Len(pipe) >= Hdr
    <2>1. Avail(Hdr) = Hdr BY <2>0 DEF Avail
    <2> QED BY <1>0, <1>6, <2>1, ReadEffect, TypeFacts
  <1>8. Placed(pipe', offered) /\ Runs(pipe', offered)
    BY <1>0, <1>7, RunsSuffix, TypeFacts DEF StreamInv
  <1>9. pipe' # << >> => /\ Len(pipe') > 0 /\ 1 + Hdr \in 1 .. Len(pipe)
                         /\ pipe'[1] = pipe[1 + Hdr]
                         /\ pipe'[Len(pipe')] = pipe[Len(pipe)]
    <2> SUFFICES ASSUME pipe' # << >>
                 PROVE  /\ Len(pipe') > 0 /\ 1 + Hdr \in 1 .. Len(pipe)
                        /\ pipe'[1] = pipe[1 + Hdr]
                        /\ pipe'[Len(pipe')] = pipe[Len(pipe)]
      OBVIOUS
    <2>1. Len(pipe') > 0 /\ Len(pipe') \in Nat BY <1>7
    <2>2. /\ 1 \in 1 .. Len(pipe') /\ Len(pipe') \in 1 .. Len(pipe')
          /\ Len(pipe') + Hdr = Len(pipe) /\ 1 + Hdr \in 1 .. Len(pipe)
      BY <2>1, <1>0, <1>7
    <2> QED BY <2>1, <2>2, <1>7
  <1>10. FrontInv'
    <2> SUFFICES ASSUME pipe' # << >>
                 PROVE  pipe'[1].at = Hdr + 1 /\ want' = offered'[pipe'[1].pkt]
      BY <1>5 DEF FrontInv
    <2>1. (1 + Hdr) - 1 <= Hdr + offered[p] - 1 BY <1>0, <1>1
    <2>2. pipe[1 + Hdr].pkt = p /\ pipe[1 + Hdr].at = 1 + Hdr BY <1>3, <1>9, <2>1
    <2> QED BY <2>2, <1>0, <1>5, <1>9
  <1>11. BackInv'
    BY <1>0, <1>9 DEF StreamInv, BackInv, This
  <1>12. EmptyInv'
    <2> SUFFICES ASSUME pipe' = << >> PROVE writing /\ want' = offered[This]
      BY <1>0, <1>5 DEF EmptyInv, This
    <2>1. Len(pipe') = 0 OBVIOUS
    <2>2. Len(pipe) = Hdr
      <3>1. 0 = Len(pipe) - Hdr BY ONLY <2>1, <1>7
      <3> QED BY ONLY <3>1, <1>0
    <2>3. pipe[Hdr].pkt = p /\ pipe[Hdr].at = Hdr
      <3>1. Hdr \in 1 .. Len(pipe) /\ Hdr - 1 <= Hdr + offered[p] - 1
        BY <2>2, <1>0, <1>1
      <3> QED BY <3>1, <1>3
    <2>4. Rest(pipe[Hdr], offered) = offered[p] BY <2>3, <1>0, <1>1 DEF Rest
    <2>5. Rest(pipe[Hdr], offered) # 0 BY <2>4, <1>1
    <2>6. writing /\ pipe[Hdr] = Byte(This, Hdr)
      BY <2>2, <2>5, <1>0 DEF StreamInv, BackInv
    <2>7. p = This BY <2>3, <2>6, <1>0, ByteTypes, TypeFacts
    <2> QED BY <2>6, <2>7, <1>5
  <1>13. OlderInv'
    <2> SUFFICES ASSUME NEW i \in DOMAIN given
                 PROVE  /\ given[i] # << >> /\ given[i][1].pkt \in DOMAIN offered
                        /\ \A j \in DOMAIN pipe' : given[i][1].pkt < pipe'[j].pkt
                        /\ writing => given[i][1].pkt < This
      BY <1>0 DEF OlderInv, This
    <2>1. /\ given[i] # << >> /\ given[i][1].pkt \in DOMAIN offered
          /\ \A j \in DOMAIN pipe : given[i][1].pkt < pipe[j].pkt
          /\ writing => given[i][1].pkt < This
      BY DEF StreamInv, OlderInv
    <2>2. ASSUME NEW j \in 1 .. Len(pipe') PROVE given[i][1].pkt < pipe'[j].pkt
      <3>1. j + Hdr \in DOMAIN pipe BY <1>0, <1>7
      <3> QED BY <3>1, <2>1, <1>7
    <2>3. DOMAIN pipe' = 1 .. Len(pipe') BY <1>7
    <2> QED BY <2>1, <2>2, <2>3
  <1> QED BY <1>0, <1>8, <1>10, <1>11, <1>12, <1>13 DEF StreamInv

\* The loop ends at an empty pipe.
LEMMA StreamReadNothing ==
    ASSUME TypeInv, StreamInv, InjectHeader, ~(Len(pipe) >= Hdr), ~broken'
    PROVE  StreamInv'
  <1>0. /\ reading = "header" /\ reading' = "no" /\ want' = want
        /\ UNCHANGED <<offered, writing, given>>
        /\ broken' = (broken \/ pipe # << >>)
    BY DEF InjectHeader
  <1>1. pipe = << >> BY <1>0
  <1>2. pipe' = << >>
    <2>1. Reads(Hdr) BY DEF InjectHeader
    <2>2. Len(pipe) = 0 BY <1>1
    <2>3. pipe' \in Seq(Bytes) /\ Len(pipe') = 0
      BY <2>1, <2>2, ReadEffect, TypeFacts
    <2> QED BY <2>3
  <1>3. ~writing BY <1>0, <1>1 DEF StreamInv, EmptyInv
  <1>4. Placed(pipe', offered') /\ Runs(pipe', offered')
    BY <1>2 DEF Placed, Runs
  <1>5. FrontInv' /\ BackInv' /\ EmptyInv'
    BY <1>0, <1>2, <1>3 DEF FrontInv, BackInv, EmptyInv
  <1>6. OlderInv' BY <1>0, <1>1, <1>2 DEF StreamInv, OlderInv, This
  <1> QED BY <1>4, <1>5, <1>6 DEF StreamInv

\* The loop finds a whole payload: it is the one its header announced, newer
\* than what PPP was given before and older than what is left.
LEMMA StreamReadPayload ==
    ASSUME TypeInv, StreamInv, InOrderUnlessBroken, ~broken, InjectPayload, ~broken'
    PROVE  StreamInv' /\ InOrderUnlessBroken'
  <1> DEFINE p == pipe[1].pkt
             w == want
             B == SubSeq(pipe, 1, w)
             M == Len(given) + 1
  <1>0. /\ Hdr \in Nat /\ Hdr > 0 /\ Len(pipe) \in Nat
        /\ DOMAIN pipe = 1 .. Len(pipe) /\ w \in Nat /\ w > 0
        /\ reading = "payload" /\ UNCHANGED <<offered, writing>> /\ Reads(w)
    BY TypeFacts DEF InjectPayload, TypeInv, TypeOK
  <1>1. /\ Avail(w) = w /\ given' = Append(given, B) /\ reading' = "header"
    <2>1. Avail(w) \in Nat /\ Avail(w) <= w BY <1>0, ReadEffect, TypeFacts
    <2>2. ~(Avail(w) < w) BY DEF InjectPayload
    <2> QED BY <1>0, <2>1, <2>2 DEF InjectPayload
  <1>2. w <= Len(pipe) BY <1>0, <1>1, ReadEffect, TypeFacts
  <1>3. 1 \in DOMAIN pipe /\ pipe # << >> /\ Len(pipe) \in DOMAIN pipe
    BY <1>0, <1>2
  <1>4. /\ p \in DOMAIN offered /\ p \in Nat /\ pipe[1].at = Hdr + 1
        /\ offered[p] = w /\ w <= WriterMax
    <2>1. p \in DOMAIN offered /\ offered[p] <= WriterMax
      BY <1>3 DEF StreamInv, Placed
    <2>2. pipe[1].at = Hdr + 1 /\ w = offered[p]
      BY <1>0, <1>3 DEF StreamInv, FrontInv
    <2>3. p \in Nat BY <2>1, TypeFacts
    <2> QED BY <2>1, <2>2, <2>3
  <1>5. Rest(pipe[1], offered) = w - 1 BY <1>0, <1>4 DEF Rest
  <1>6. ASSUME NEW i \in 1 .. Len(pipe)
        PROVE  /\ i <= w => pipe[i].pkt = p /\ pipe[i].at = Hdr + i
               /\ i > w => p < pipe[i].pkt
               /\ i = w + 1 => pipe[i].at = 1
    <2>1. i \in DOMAIN pipe /\ 1 <= i BY <1>0
    <2>2. /\ i - 1 <= w - 1
             => pipe[i].pkt = pipe[1].pkt /\ pipe[i].at = pipe[1].at + (i - 1)
          /\ i - 1 > w - 1 => pipe[1].pkt < pipe[i].pkt
          /\ i - 1 = (w - 1) + 1 => pipe[i].at = 1
      BY <2>1, <1>3, <1>5 DEF StreamInv, Runs
    <2>3. /\ i <= w => i - 1 <= w - 1
          /\ i > w => i - 1 > w - 1
          /\ i = w + 1 => i - 1 = (w - 1) + 1
          /\ (Hdr + 1) + (i - 1) = Hdr + i
      BY <1>0
    <2> QED BY <2>2, <2>3, <1>4
  <1> HIDE DEF p, w
  <1>7. B = Payload(p) /\ Len(B) = w /\ B # << >> /\ B[1].pkt = p
    <2>1. B \in Seq(Bytes) /\ Len(B) = w /\ \A i \in 1 .. w : B[i] = pipe[i]
      BY <1>0, <1>2, TypeFacts
    <2> HIDE DEF B
    <2>2. ASSUME NEW i \in 1 .. w PROVE B[i] = Byte(p, Hdr + i)
      <3>1. i \in 1 .. Len(pipe) /\ i <= w BY <1>0, <1>2
      <3>2. pipe[i].pkt = p /\ pipe[i].at = Hdr + i BY <3>1, <1>6
      <3>3. pipe[i] \in Bytes BY <3>1, TypeFacts
      <3> QED BY <3>2, <3>3, <2>1, ByteIs
    <2>3. B = [i \in 1 .. w |-> B[i]] BY <2>1
    <2>4. B = Payload(p) BY <2>2, <2>3, <1>4 DEF Payload
    <2>5. 1 \in 1 .. w /\ Len(B) > 0 BY <1>0, <2>1
    <2>6. B[1].pkt = p BY <2>5, <2>1 DEF p
    <2>7. B # << >> BY <2>5
    <2> QED BY <2>1, <2>4, <2>6, <2>7
  <1>8. /\ pipe' \in Seq(Bytes) /\ Len(pipe') = Len(pipe) - w
        /\ \A i \in 1 .. Len(pipe') : pipe'[i] = pipe[i + w]
    BY <1>0, <1>1, ReadEffect, TypeFacts
  <1>9. Placed(pipe', offered) /\ Runs(pipe', offered)
    BY <1>0, <1>8, RunsSuffix, TypeFacts DEF StreamInv
  <1>10. pipe' # << >> => /\ w + 1 \in 1 .. Len(pipe)
                          /\ pipe'[1] = pipe[w + 1]
                          /\ pipe'[Len(pipe')] = pipe[Len(pipe)]
    <2> SUFFICES ASSUME pipe' # << >>
                 PROVE  /\ w + 1 \in 1 .. Len(pipe)
                        /\ pipe'[1] = pipe[w + 1]
                        /\ pipe'[Len(pipe')] = pipe[Len(pipe)]
      OBVIOUS
    <2>1. Len(pipe') > 0 /\ Len(pipe') \in Nat BY <1>8
    <2>2. /\ 1 \in 1 .. Len(pipe') /\ Len(pipe') \in 1 .. Len(pipe')
          /\ Len(pipe') + w = Len(pipe) /\ w + 1 \in 1 .. Len(pipe)
          /\ 1 + w = w + 1
      BY <2>1, <1>0, <1>8
    <2> QED BY <2>1, <2>2, <1>8
  <1>11. FrontInv' BY <1>1, <1>6, <1>10 DEF FrontInv
  <1>12. BackInv' BY <1>0, <1>3, <1>10 DEF StreamInv, BackInv, This
  <1>13. writing => w < Len(pipe) /\ p < This
    <2> SUFFICES ASSUME writing PROVE w < Len(pipe) /\ p < This OBVIOUS
    <2>1. pipe[Len(pipe)] = Byte(This, Hdr) BY <1>3 DEF StreamInv, BackInv
    <2>2. pipe[Len(pipe)].pkt = This /\ pipe[Len(pipe)].at = Hdr
      BY <2>1, <1>0, ByteTypes, TypeFacts
    <2>3. Len(pipe) \in 1 .. Len(pipe) BY <1>0, <1>2
    <2>4. ~(Len(pipe) <= w)
      <3> SUFFICES ASSUME Len(pipe) <= w PROVE FALSE OBVIOUS
      <3>1. pipe[Len(pipe)].at = Hdr + Len(pipe) BY <2>3, <1>6
      <3> QED BY <3>1, <2>2, <2>3, <1>0
    <2>5. Len(pipe) > w BY <2>4, <1>0
    <2>6. p < pipe[Len(pipe)].pkt BY <2>3, <2>5, <1>6
    <2> QED BY <2>2, <2>5, <2>6, <1>0
  <1>14. EmptyInv'
    <2>1. pipe' = << >> => ~writing
      <3> SUFFICES ASSUME pipe' = << >>, writing PROVE FALSE OBVIOUS
      <3>1. Len(pipe') = 0 OBVIOUS
      <3>2. 0 = Len(pipe) - w BY ONLY <3>1, <1>8
      <3> QED BY <3>2, <1>0, <1>13
    <2> QED BY <2>1, <1>0, <1>1 DEF EmptyInv
  <1>15. /\ Len(given') = M /\ DOMAIN given' = 1 .. M /\ M \in Nat
         /\ DOMAIN given = 1 .. Len(given) /\ Len(given) \in Nat
         /\ given'[M] = B /\ \A i \in DOMAIN given : given'[i] = given[i]
    <2> DEFINE S == Seq(Bytes)
    <2>1. given \in Seq(S) BY DEF TypeInv
    <2>2. B \in S BY <1>0, <1>2, TypeFacts
    <2>3. given' = Append(given, B) BY <1>1
    <2> HIDE DEF S, B
    <2> QED BY <2>1, <2>2, <2>3, AppendProperties
  <1> HIDE DEF B, M
  <1>16. \A i \in DOMAIN given : given[i][1].pkt < p
    BY <1>3 DEF StreamInv, OlderInv, p
  <1>17. ASSUME NEW i \in 1 .. M PROVE i \in DOMAIN given \/ i = M
    BY <1>15 DEF M
  <1>18. OlderInv'
    <2> SUFFICES ASSUME NEW i \in 1 .. M
                 PROVE  /\ given'[i] # << >> /\ given'[i][1].pkt \in DOMAIN offered
                        /\ \A j \in DOMAIN pipe' : given'[i][1].pkt < pipe'[j].pkt
                        /\ writing => given'[i][1].pkt < This
      BY <1>0, <1>15 DEF OlderInv, This
    <2>0. \A j \in DOMAIN pipe' : j + w \in 1 .. Len(pipe) /\ j + w > w
                                  /\ pipe'[j] = pipe[j + w]
      BY <1>0, <1>8
    <2>1. CASE i \in DOMAIN given
      <3>1. /\ given[i] # << >> /\ given[i][1].pkt \in DOMAIN offered
            /\ \A j \in DOMAIN pipe : given[i][1].pkt < pipe[j].pkt
            /\ writing => given[i][1].pkt < This
        BY <2>1 DEF StreamInv, OlderInv
      <3> QED BY <2>0, <2>1, <3>1, <1>0, <1>15
    <2>2. CASE i = M
      <3>1. \A j \in DOMAIN pipe' : p < pipe'[j].pkt BY <2>0, <1>6
      <3> QED BY <2>2, <3>1, <1>4, <1>7, <1>13, <1>15
    <2> QED BY <2>1, <2>2, <1>17
  <1>19. InOrderUnlessBroken'
    <2>1. ASSUME NEW i \in 1 .. M
          PROVE  /\ given'[i] # << >> /\ Len(given'[i]) <= WriterMax
                 /\ given'[i] = Payload(given'[i][1].pkt)
      <3>1. CASE i \in DOMAIN given
        BY <3>1, <1>15 DEF InOrderUnlessBroken
      <3>2. CASE i = M
        <4>1. given'[i] = B BY <3>2, <1>15
        <4>2. Len(B) <= WriterMax BY <1>4, <1>7
        <4> QED BY <4>1, <4>2, <1>7
      <3> QED BY <3>1, <3>2, <1>17
    <2>2. ASSUME NEW i \in 1 .. M, NEW j \in 1 .. M, i < j
          PROVE  given'[i][1].pkt < given'[j][1].pkt
      <3>1. i \in DOMAIN given BY <2>2, <1>15 DEF M
      <3>2. CASE j \in DOMAIN given
        BY <3>1, <3>2, <2>2, <1>15 DEF InOrderUnlessBroken
      <3>3. CASE j = M BY <3>1, <3>3, <1>7, <1>15, <1>16
      <3> QED BY <3>2, <3>3, <1>17
    <2>3. \A i \in 1 .. M : Payload(given[i][1].pkt)' = Payload(given'[i][1].pkt)
      BY <1>0 DEF Payload
    <2>4. \A i \in 1 .. M : given'[i] = Payload(given[i][1].pkt)' BY <2>1, <2>3
    <2> QED BY <2>1, <2>2, <2>4, <1>15 DEF InOrderUnlessBroken
  <1> QED BY <1>0, <1>9, <1>11, <1>12, <1>14, <1>18, <1>19 DEF StreamInv

-----------------------------------------------------------------------------
(* The theorems.                                                           *)

\* The empty pipe and the two idle ends satisfy the invariant.
LEMMA InjectInit == Init => InjectInv
  <1> SUFFICES ASSUME Init PROVE InjectInv OBVIOUS
  <1>1. TypeInv
    <2>1. /\ pipe = << >> /\ offered = << >> /\ accepted = << >> /\ given = << >>
          /\ writing = FALSE /\ broken = FALSE /\ reading = "no" /\ want = 0
      BY DEF Init
    <2>2. pipe \in Seq(Bytes) /\ Len(pipe) = 0 /\ DOMAIN pipe = {} BY <2>1
    <2>3. offered \in Seq(1 .. WriterMax + 1) /\ Len(offered) = 0 BY <2>1
    <2>4. accepted \in Seq(DOMAIN offered) BY <2>1
    <2>5. given \in Seq(Seq(Bytes)) BY <2>1
    <2>6. HereInv BY <2>1 DEF HereInv
    <2>7. Len(pipe) <= Cap /\ Len(offered) <= MaxPkts /\ want \in 0 .. ReaderMax
      BY <2>1, <2>2, <2>3, InjectAssumption
    <2>8. TypeOK BY <2>1, <2>2, <2>3, <2>4, <2>7 DEF TypeOK
    <2> QED BY <2>2, <2>5, <2>6, <2>8 DEF TypeInv
  <1>2. InOrderUnlessBroken BY DEF Init, InOrderUnlessBroken
  <1>3. StreamInv
    BY DEF Init, StreamInv, Placed, Runs, FrontInv, BackInv, EmptyInv, OlderInv
  <1> QED BY <1>1, <1>2, <1>3 DEF InjectInv

\* Each of the five system calls and callbacks keeps the invariant.
LEMMA InjectStep == InjectInv /\ [Next]_vars => InjectInv'
  <1> SUFFICES ASSUME InjectInv, [Next]_vars PROVE InjectInv' OBVIOUS
  <1>1. TypeInv /\ TypeInv' BY TypeStep DEF InjectInv
  <1>2. ASSUME ~broken' PROVE StreamInv' /\ InOrderUnlessBroken'
    <2>1. CASE WriteHeader
      <3>1. PICK len \in 1 .. WriterMax + 1 :
               /\ offered' = Append(offered, len)
               /\ ~writing /\ Len(offered) < MaxPkts
               /\ UNCHANGED <<accepted, reading, want, given>>
               /\ \/ len > WriterMax /\ UNCHANGED <<pipe, writing, broken>>
                  \/ /\ len <= WriterMax
                     /\ Writes(Header(Len(offered) + 1))
                     /\ writing' = (Fits(Header(Len(offered) + 1)) = Hdr)
        BY <1>1, <2>1, WriteHeaderCases
      <3>2. ~broken BY <1>1, <1>2, <3>1, WriteBroken, TypeFacts
      <3>3. StreamInv /\ InOrderUnlessBroken BY <3>2 DEF InjectInv
      <3>4. InOrderUnlessBroken'
        <4>1. \A p \in DOMAIN offered : offered'[p] = offered[p]
          BY <1>1, <3>1, OfferKept, TypeFacts
        <4> QED BY <1>1, <3>1, <3>2, <3>3, <4>1, OrderKept DEF StreamInv
      <3>5. CASE len > WriterMax /\ UNCHANGED <<pipe, writing, broken>>
        <4>1. StreamInv' BY <1>1, <3>1, <3>3, <3>5, StreamRefused
        <4> QED BY <4>1, <3>4
      <3>6. CASE /\ len <= WriterMax
                 /\ Writes(Header(Len(offered) + 1))
                 /\ writing' = (Fits(Header(Len(offered) + 1)) = Hdr)
        <4> DEFINE h == Header(Len(offered) + 1)
        <4>1. h \in Seq(Bytes) /\ Len(h) = Hdr
          <5>1. Len(offered) + 1 \in Nat BY <1>1, TypeFacts DEF This
          <5> QED BY <5>1, HeaderSeq
        <4> HIDE DEF h
        <4>2. Writes(h) BY <3>6 DEF h
        <4>3. ~(Fits(h) < Len(h)) BY <1>1, <1>2, <4>2, WriteBroken, TypeFacts
        <4>4. Fits(h) \in 0 .. Len(h) BY <1>1, <4>1, <4>2, WriteEffect, TypeFacts
        <4>5. Fits(h) = Hdr BY <4>1, <4>3, <4>4, InjectAssumption
        <4>6. writing' BY <3>6, <4>5 DEF h
        <4>7. len \in 1 .. WriterMax BY <3>6, InjectAssumption
        <4>8. Fits(Header(Len(offered) + 1)) = Hdr BY <4>5 DEF h
        <4>9. StreamInv'
          BY <1>1, <3>1, <3>3, <3>6, <4>6, <4>7, <4>8, StreamHeader
        <4> QED BY <4>9, <3>4
      <3> QED BY <3>1, <3>5, <3>6
    <2>2. CASE WritePayload
      <3>1. /\ writing /\ ~writing' /\ Writes(Payload(This))
            /\ UNCHANGED <<offered, reading, want, given>>
        BY <2>2 DEF WritePayload
      <3>2. ~broken /\ ~(Fits(Payload(This)) < Len(Payload(This)))
        BY <1>1, <1>2, <3>1, WriteBroken, TypeFacts
      <3>3. StreamInv /\ InOrderUnlessBroken BY <3>2 DEF InjectInv
      <3> DEFINE h == Payload(This)
                 n == offered[This]
      <3>4. n \in Nat /\ This \in Nat
        BY <1>1, <3>1, TypeFacts DEF TypeInv, HereInv
      <3>5. h \in Seq(Bytes) /\ Len(h) = n BY <3>4, PayloadSeq
      <3>6. Writes(h) /\ ~(Fits(h) < Len(h)) BY <3>1, <3>2
      <3> HIDE DEF h, n
      <3>7. Fits(h) \in 0 .. Len(h) BY <1>1, <3>5, <3>6, WriteEffect, TypeFacts
      <3>8. Fits(h) = n BY <3>4, <3>5, <3>6, <3>7
      <3>9. Fits(Payload(This)) = offered[This] BY <3>8 DEF h, n
      <3>10. StreamInv' BY <1>1, <3>1, <3>3, <3>9, StreamPayload
      <3>11. InOrderUnlessBroken'
        BY <1>1, <3>1, <3>2, <3>3, OrderKept DEF StreamInv
      <3> QED BY <3>10, <3>11
    <2>3. CASE InjectStart
      <3>1. /\ reading = "no" /\ reading' = "header" /\ pipe # << >>
            /\ UNCHANGED <<pipe, offered, writing, accepted, want, given, broken>>
        BY <2>3 DEF InjectStart
      <3>2. StreamInv /\ InOrderUnlessBroken BY <1>2, <3>1 DEF InjectInv
      <3>3. StreamInv'
        BY <3>1, <3>2 DEF StreamInv, FrontInv, BackInv, EmptyInv, OlderInv, This
      <3>4. InOrderUnlessBroken' BY <1>1, <1>2, <3>1, <3>2, OrderKept DEF StreamInv
      <3> QED BY <3>3, <3>4
    <2>4. CASE InjectHeader
      <3>1. ~broken /\ UNCHANGED <<offered, given>>
        BY <1>2, <2>4 DEF InjectHeader
      <3>2. StreamInv /\ InOrderUnlessBroken BY <3>1 DEF InjectInv
      <3>3. StreamInv'
        BY <1>1, <1>2, <2>4, <3>2, StreamReadHeader, StreamReadNothing
      <3>4. InOrderUnlessBroken' BY <1>1, <3>1, <3>2, OrderKept DEF StreamInv
      <3> QED BY <3>3, <3>4
    <2>5. CASE InjectPayload
      <3>1. ~broken BY <1>2, <2>5 DEF InjectPayload
      <3>2. StreamInv /\ InOrderUnlessBroken BY <3>1 DEF InjectInv
      <3> QED BY <1>1, <1>2, <2>5, <3>1, <3>2, StreamReadPayload
    <2>6. CASE UNCHANGED vars
      <3>1. UNCHANGED <<pipe, offered, writing, reading, want, given, broken>>
        BY <2>6 DEF vars
      <3>2. StreamInv /\ InOrderUnlessBroken BY <1>2, <3>1 DEF InjectInv
      <3>3. StreamInv'
        BY <3>1, <3>2 DEF StreamInv, FrontInv, BackInv, EmptyInv, OlderInv, This
      <3>4. InOrderUnlessBroken' BY <1>1, <1>2, <3>1, <3>2, OrderKept DEF StreamInv
      <3> QED BY <3>3, <3>4
    <2> QED BY <2>1, <2>2, <2>3, <2>4, <2>5, <2>6 DEF Next, Callback
  <1>3. InOrderUnlessBroken' BY <1>2 DEF InOrderUnlessBroken
  <1> QED BY <1>1, <1>2, <1>3 DEF InjectInv

\* The inductive invariant holds throughout.
THEOREM InjectInvariant == Spec => []InjectInv
  BY InjectInit, InjectStep, PTL DEF Spec

\* The socket pair never holds more than its capacity, the loop never reads a
\* packet longer than its buffer, whatever lengths it decodes, and every byte
\* belongs to a packet that was offered.
THEOREM TypeCorrect == Spec => []TypeOK
  <1>1. InjectInv => TypeOK BY DEF InjectInv, TypeInv
  <1> QED BY <1>1, InjectInvariant, PTL

\* As long as no read or write of the socket pair came up short, PPP gets the
\* packets of write_ip whole and in their order, however the writes of one
\* thread and the reads of the other interleave.
THEOREM PacketsWhole == Spec => []InOrderUnlessBroken
  <1>1. InjectInv => InOrderUnlessBroken BY DEF InjectInv
  <1> QED BY <1>1, InjectInvariant, PTL

=============================================================================
