-------------------------- MODULE SstpStreamProofs --------------------------
(***************************************************************************)
(* Proofs about the send queue of SstpStream: its invariants, for any      *)
(* number of control messages and frames, and that towards PPP it is the   *)
(* FIFO of FrameLink.                                                      *)
(***************************************************************************)
EXTENDS SstpStream, SequenceTheorems, TLAPS

-----------------------------------------------------------------------------
(* The inductive invariant.                                                *)

\* TypeOK, with the list's bound in a form that every step keeps.
StreamTypes ==
    /\ send \in Seq(0 .. MaxPpp)
    /\ Len(send) <= count.ctl + (IF inflight = 0 THEN 0 ELSE 1)
    /\ held \in {Nothing} \cup [buf : 0 .. MaxPpp, msg : -MaxCtl .. MaxPpp]
    /\ tx_buf \in [msg : -MaxCtl .. 0, sent : BOOLEAN]
    /\ pppq \in Seq(1 .. MaxPpp) /\ inflight \in 0 .. MaxPpp
    /\ wire \in Seq(1 .. MaxPpp) /\ ctlWire \in Seq(-MaxCtl .. -1)
    /\ count \in [ctl : 0 .. MaxCtl, ppp : 0 .. MaxPpp]

StreamFlags ==
    /\ armed \in BOOLEAN /\ resuming \in BOOLEAN /\ flushing \in BOOLEAN
    /\ dead \in BOOLEAN /\ aborted \in BOOLEAN
    /\ failure \in {"none", "net", "retry", "empty"}

Unsent == ~tx_buf.sent

\* What SSL_write holds back is the message its buffer had at that time, and
\* the control buffer has something to send as long as it is held.
HeldMessage ==
    /\ held.buf > 0 => held.msg = held.buf
    /\ held.buf = Ctl => held.msg < 0 /\ Unsent

\* The last control message is in tx_buf; it, and what is held back of it,
\* are younger than those written.
CtlAges ==
    /\ tx_buf.msg + count.ctl = 0
    /\ Unsent => tx_buf.msg < 0
    /\ \A i \in DOMAIN ctlWire :
         /\ tx_buf.msg <= ctlWire[i]
         /\ Unsent => tx_buf.msg < ctlWire[i]
         /\ held.buf = Ctl => held.msg < ctlWire[i]
    /\ held.buf = Ctl => tx_buf.msg <= held.msg

\* Frames written, in flight and waiting are in the order they were given.
PppAges ==
    /\ \A i \in DOMAIN wire : wire[i] <= count.ppp
    /\ \A i \in DOMAIN pppq : pppq[i] <= count.ppp
    /\ inflight <= count.ppp
    /\ \A i, j \in DOMAIN pppq : i < j => pppq[i] < pppq[j]
    /\ \A i \in DOMAIN wire, j \in DOMAIN pppq : wire[i] < pppq[j]
    /\ inflight # 0 => /\ \A i \in DOMAIN wire : wire[i] < inflight
                       /\ \A j \in DOMAIN pppq : inflight < pppq[j]

StreamInv ==
    /\ StreamTypes /\ StreamFlags /\ WakeupArmed /\ QueuedOwned
    /\ HeldQueued /\ HeldMessage /\ CtlAges
    /\ CtlInOrder /\ PppAges /\ PppInOrder

-----------------------------------------------------------------------------
(* Sequences.                                                              *)

\* What a sequence is after a member was added at its end.
LEMMA AppendFacts ==
    ASSUME NEW S, NEW s \in Seq(S), NEW e \in S
    PROVE  /\ Append(s, e) \in Seq(S)
           /\ Len(s) \in Nat /\ DOMAIN s = 1 .. Len(s)
           /\ Len(Append(s, e)) = Len(s) + 1
           /\ DOMAIN Append(s, e) = 1 .. (Len(s) + 1)
           /\ \A i \in 1 .. Len(s) : Append(s, e)[i] = s[i] /\ s[i] \in S
           /\ Append(s, e)[Len(s) + 1] = e
  <1>1. /\ Append(s, e) \in Seq(S)
        /\ Len(Append(s, e)) = Len(s) + 1
        /\ \A i \in 1 .. Len(s) : Append(s, e)[i] = s[i]
        /\ Append(s, e)[Len(s) + 1] = e
    BY AppendProperties
  <1>2. /\ Len(s) \in Nat /\ DOMAIN s = 1 .. Len(s)
        /\ \A i \in 1 .. Len(s) : s[i] \in S
    BY LenProperties, ElementOfSeq
  <1>3. DOMAIN Append(s, e) = 1 .. Len(Append(s, e))
    BY <1>1, LenProperties
  <1> QED  BY <1>1, <1>2, <1>3

\* Its members are the old ones and the new one.
LEMMA AppendEntries ==
    ASSUME NEW S, NEW s \in Seq(S), NEW e \in S
    PROVE  LET t == Append(s, e) IN
           \A i \in DOMAIN t : t[i] = e \/ (i \in DOMAIN s /\ t[i] = s[i])
  <1> DEFINE t == Append(s, e)
  <1>1. /\ Len(s) \in Nat /\ DOMAIN s = 1 .. Len(s) /\ DOMAIN t = 1 .. (Len(s) + 1)
        /\ \A i \in 1 .. Len(s) : t[i] = s[i]
        /\ t[Len(s) + 1] = e
    BY AppendFacts
  <1> HIDE DEF t
  <1>2. ASSUME NEW i \in DOMAIN t
        PROVE  t[i] = e \/ (i \in DOMAIN s /\ t[i] = s[i])
    <2>1. i \in 1 .. Len(s) \/ i = Len(s) + 1
      BY <1>1
    <2> QED  BY <1>1, <2>1
  <1> QED  BY <1>2 DEF t

\* What a sequence is without its head.
LEMMA TailFacts ==
    ASSUME NEW S, NEW s \in Seq(S), s # << >>
    PROVE  /\ Tail(s) \in Seq(S)
           /\ Len(s) \in Nat \ {0} /\ DOMAIN s = 1 .. Len(s)
           /\ Len(Tail(s)) = Len(s) - 1
           /\ DOMAIN Tail(s) = 1 .. (Len(s) - 1)
           /\ \A i \in 1 .. (Len(s) - 1) : Tail(s)[i] = s[i + 1]
           /\ \A i \in 1 .. Len(s) : s[i] \in S
           /\ Head(s) = s[1]
  <1>1. /\ Tail(s) \in Seq(S) /\ Len(Tail(s)) = Len(s) - 1
        /\ \A i \in 1 .. Len(Tail(s)) : Tail(s)[i] = s[i + 1]
    BY HeadTailProperties
  <1>2. /\ Len(s) \in Nat \ {0} /\ DOMAIN s = 1 .. Len(s)
        /\ \A i \in 1 .. Len(s) : s[i] \in S
    BY LenProperties, ElementOfSeq, EmptySeq
  <1>3. DOMAIN Tail(s) = 1 .. Len(Tail(s))
    BY <1>1, LenProperties
  <1>4. Head(s) = s[1]
    OBVIOUS
  <1> QED  BY <1>1, <1>2, <1>3, <1>4

\* Moving the head to the tail, as a resumed operation that blocks does.
LEMMA RotateFacts ==
    ASSUME NEW S, NEW s \in Seq(S), s # << >>
    PROVE  LET r == Append(Tail(s), Head(s)) IN
           /\ r \in Seq(S) /\ Len(r) = Len(s) /\ r # << >>
           /\ DOMAIN r = DOMAIN s
           /\ \A i \in 1 .. (Len(s) - 1) : r[i] = s[i + 1]
           /\ r[Len(s)] = s[1]
  <1>1. /\ Tail(s) \in Seq(S) /\ Head(s) \in S /\ Head(s) = s[1]
        /\ Len(s) \in Nat \ {0} /\ DOMAIN s = 1 .. Len(s)
        /\ Len(Tail(s)) = Len(s) - 1
        /\ \A i \in 1 .. (Len(s) - 1) : Tail(s)[i] = s[i + 1]
    BY TailFacts
  <1> DEFINE r == Append(Tail(s), Head(s))
  <1>2. /\ r \in Seq(S)
        /\ Len(r) = Len(Tail(s)) + 1
        /\ DOMAIN r = 1 .. (Len(Tail(s)) + 1)
        /\ \A i \in 1 .. Len(Tail(s)) : r[i] = Tail(s)[i]
        /\ r[Len(Tail(s)) + 1] = Head(s)
    BY <1>1, AppendFacts
  <1>3. r # << >>
    BY <1>1, AppendProperties
  <1> HIDE DEF r
  <1>4. /\ r \in Seq(S) /\ Len(r) = Len(s) /\ r # << >>
        /\ DOMAIN r = DOMAIN s
        /\ \A i \in 1 .. (Len(s) - 1) : r[i] = s[i + 1]
        /\ r[Len(s)] = s[1]
    BY <1>1, <1>2, <1>3
  <1> QED  BY <1>4 DEF r

\* A number added at the end of an ascending or a descending sequence.
LEMMA AppendAscending ==
    ASSUME NEW S \in SUBSET Int, NEW s \in Seq(S), NEW e \in S,
           \A i, j \in DOMAIN s : i < j => s[i] < s[j],
           \A i \in DOMAIN s : s[i] < e
    PROVE  LET t == Append(s, e) IN
           /\ \A i, j \in DOMAIN t : i < j => t[i] < t[j]
           /\ \A i \in DOMAIN t : t[i] <= e
  <1> DEFINE t == Append(s, e)
  <1>1. /\ Len(s) \in Nat /\ DOMAIN s = 1 .. Len(s) /\ DOMAIN t = 1 .. (Len(s) + 1)
        /\ \A i \in 1 .. Len(s) : t[i] = s[i] /\ s[i] \in S
        /\ t[Len(s) + 1] = e
    BY AppendFacts
  <1> HIDE DEF t
  <1>2. \A i \in 1 .. Len(s) : s[i] \in Int /\ e \in Int
    BY <1>1
  <1>3. /\ \A i, j \in DOMAIN t : i < j => t[i] < t[j]
        /\ \A i \in DOMAIN t : t[i] <= e
    BY <1>1, <1>2
  <1> QED  BY <1>3 DEF t

\* A smaller member at its end keeps a sequence descending.
LEMMA AppendDescending ==
    ASSUME NEW S \in SUBSET Int, NEW s \in Seq(S), NEW e \in S,
           \A i, j \in DOMAIN s : i < j => s[i] > s[j],
           \A i \in DOMAIN s : e < s[i]
    PROVE  LET t == Append(s, e) IN
           /\ \A i, j \in DOMAIN t : i < j => t[i] > t[j]
           /\ \A i \in DOMAIN t : e <= t[i]
  <1> DEFINE t == Append(s, e)
  <1>1. /\ Len(s) \in Nat /\ DOMAIN s = 1 .. Len(s) /\ DOMAIN t = 1 .. (Len(s) + 1)
        /\ \A i \in 1 .. Len(s) : t[i] = s[i] /\ s[i] \in S
        /\ t[Len(s) + 1] = e
    BY AppendFacts
  <1> HIDE DEF t
  <1>2. \A i \in 1 .. Len(s) : s[i] \in Int /\ e \in Int
    BY <1>1
  <1>3. /\ \A i, j \in DOMAIN t : i < j => t[i] > t[j]
        /\ \A i \in DOMAIN t : e <= t[i]
    BY <1>1, <1>2
  <1> QED  BY <1>3 DEF t

-----------------------------------------------------------------------------
(* The three outcomes of sstp_stream_send.                                 *)

\* It is written: it was held back itself, or nothing was.
Writes(q, buf, txb) ==
    /\ ~armed /\ (held = Nothing \/ held.buf = buf)
    /\ buf = Ctl => ~txb.sent
    /\ send' = q /\ armed' = armed /\ held' = Nothing
    /\ LET msg == IF held # Nothing THEN held.msg ELSE Message(buf, txb)
       IN  /\ wire' = IF msg > 0 THEN Append(wire, msg) ELSE wire
           /\ ctlWire' = IF msg < 0 THEN Append(ctlWire, msg) ELSE ctlWire
    /\ tx_buf' = IF buf = Ctl THEN [txb EXCEPT !.sent = TRUE] ELSE txb
    /\ failure' = failure /\ dead' = dead

\* It is queued, behind a pending event or because SSL_write would block.
Queues(q, buf, txb) ==
    /\ send' = Append(q, buf) /\ armed' = TRUE /\ tx_buf' = txb
    /\ wire' = wire /\ ctlWire' = ctlWire /\ failure' = failure /\ dead' = dead
    /\ \/ held' = held
       \/ /\ ~armed /\ held = Nothing /\ (buf = Ctl => ~txb.sent)
          /\ held' = [buf |-> buf, msg |-> Message(buf, txb)]

\* It failed; only an answer "net" ends the record that is held.
Fails(q, buf, txb) ==
    /\ ~armed /\ send' = q /\ armed' = armed /\ tx_buf' = txb
    /\ wire' = wire /\ ctlWire' = ctlWire
    /\ dead' \in BOOLEAN
    /\ failure' \in {"net", "retry", "empty"}
    /\ failure # "none" => failure' = failure
    /\ \/ held' = Nothing
       \/ held' = held /\ held # Nothing /\ held.buf # buf
       \/ held' = held /\ buf = Ctl /\ txb.sent

\* The ways sstp_stream_send ends: the buffer is written, queued or refused.
LEMMA SendOutcomes ==
    ASSUME StreamFlags, NEW q, NEW buf, NEW txb, NEW answer \in Answers,
           stream_send(q, buf, txb, answer)
    PROVE  \/ answer = "okay" /\ Writes(q, buf, txb)
           \/ answer = "block" /\ Queues(q, buf, txb)
           \/ answer \notin {"okay", "block"} /\ Fails(q, buf, txb)
  <1>1. CASE armed
    BY <1>1 DEF stream_send, add_write, Queues
  <1>2. CASE ~armed
    <2> /\ SSL_write(buf, txb, answer)
        /\ IF answer = "block" THEN add_write(q, buf)
                               ELSE send' = q /\ UNCHANGED armed
      BY <1>2 DEF stream_send
    <2> USE DEF SSL_write, SslAnswers
    <2>1. CASE answer = "okay"
      BY <1>2, <2>1 DEF Writes, Advanced, StreamFlags
    <2>2. CASE answer = "block"
      BY <1>2, <2>2 DEF Queues, add_write, StreamFlags
    <2>3. CASE answer \in {"net", "retry", "empty"}
      <3>1. failure' \in {"net", "retry", "empty"} /\ (failure # "none" => failure' = failure)
        BY <2>3 DEF StreamFlags
      <3>2. dead' \in BOOLEAN /\ wire' = wire /\ ctlWire' = ctlWire /\ tx_buf' = txb
            /\ send' = q /\ armed' = armed
        BY <2>3
      <3>3. \/ held' = Nothing
            \/ held' = held /\ held # Nothing /\ held.buf # buf
            \/ held' = held /\ buf = Ctl /\ txb.sent
        BY <2>3
      <3> QED  BY <1>2, <2>3, <3>1, <3>2, <3>3 DEF Fails
    <2> QED  BY <2>1, <2>2, <2>3 DEF Answers
  <1> QED  BY <1>1, <1>2

-----------------------------------------------------------------------------
(* Every step keeps StreamInv.                                             *)

\* The stream before the first send.
LEMMA InitStream == Init => StreamInv
  <1> SUFFICES ASSUME Init PROVE StreamInv
    OBVIOUS
  <1> USE StreamAssumption
  <1>1. StreamTypes
    BY DEF Init, StreamTypes
  <1>0. StreamFlags
    BY DEF Init, StreamFlags
  <1>2. /\ DOMAIN send = {} /\ DOMAIN pppq = {}
        /\ DOMAIN wire = {} /\ DOMAIN ctlWire = {}
    BY DEF Init
  <1>3. WakeupArmed /\ QueuedOwned /\ HeldQueued /\ CtlInOrder /\ PppInOrder
    BY <1>2 DEF Init, WakeupArmed, QueuedOwned, HeldQueued, CtlInOrder, PppInOrder
  <1>4. HeldMessage /\ CtlAges
    BY <1>2 DEF Init, Unsent, HeldMessage, CtlAges, Nothing, Ctl
  <1>5. PppAges
    BY <1>2 DEF Init, PppAges
  <1> QED  BY <1>0, <1>1, <1>3, <1>4, <1>5 DEF StreamInv

\* A control message: outside a callback, an unarmed event means an empty list
\* and so nothing held back.
LEMMA CtlSendKeeps ==
    ASSUME StreamInv, NEW answer \in Answers, CtlSend(answer)
    PROVE  StreamInv'
  <1> DEFINE txb == [msg |-> -(count.ctl + 1), sent |-> FALSE]
  <1> USE StreamAssumption
  <1>t. /\ StreamTypes /\ StreamFlags /\ WakeupArmed /\ QueuedOwned /\ HeldQueued /\ HeldMessage
        /\ CtlAges /\ CtlInOrder /\ PppAges /\ PppInOrder
    BY DEF StreamInv
  <1>a. /\ Idle /\ count.ctl < MaxCtl
        /\ count' = [count EXCEPT !.ctl = @ + 1]
        /\ stream_send(send, Ctl, txb, answer)
        /\ resuming' = resuming /\ flushing' = flushing /\ pppq' = pppq
        /\ inflight' = inflight /\ aborted' = aborted
    BY DEF CtlSend, pppVars
  <1>b. count'.ctl = count.ctl + 1 /\ count'.ppp = count.ppp
        /\ count.ctl \in Nat /\ count' \in [ctl : 0 .. MaxCtl, ppp : 0 .. MaxPpp]
    <2>1. count \in [ctl : 0 .. MaxCtl, ppp : 0 .. MaxPpp]
      BY <1>t DEF StreamTypes
    <2> QED  BY <1>a, <2>1
  <1>c. txb.msg = -(count.ctl + 1) /\ ~txb.sent /\ txb.sent = FALSE /\ txb \in [msg : -MaxCtl .. 0, sent : BOOLEAN]
    BY <1>b, <1>a
  <1>i. /\ txb.msg \in Int /\ tx_buf.msg \in Int
        /\ held.msg \in -MaxCtl .. MaxPpp /\ held.buf \in -1 .. MaxPpp
        /\ held.buf = -1 <=> held = Nothing
        /\ tx_buf.msg = txb.msg + 1
    <2>1. held \in {Nothing} \cup [buf : 0 .. MaxPpp, msg : -MaxCtl .. MaxPpp]
      BY <1>t DEF StreamTypes
    <2>2. tx_buf \in [msg : -MaxCtl .. 0, sent : BOOLEAN]
      BY <1>t DEF StreamTypes
    <2>3. tx_buf.msg + count.ctl = 0
      BY <1>t DEF CtlAges
    <2>4. txb.msg \in Int /\ tx_buf.msg \in Int /\ tx_buf.msg = txb.msg + 1
      BY <1>b, <1>c, <2>2, <2>3
    <2> QED  BY <2>1, <2>4 DEF Nothing
  <1>d. ~armed => send = << >> /\ held = Nothing
    <2> SUFFICES ASSUME ~armed PROVE send = << >> /\ held = Nothing
      OBVIOUS
    <2>1. send = << >>
      BY <1>a, <1>t DEF Idle, WakeupArmed
    <2>2. DOMAIN send = {}
      BY <2>1
    <2> QED  BY <2>1, <2>2, <1>t DEF HeldQueued
  <1>e. \/ Writes(send, Ctl, txb)
        \/ Queues(send, Ctl, txb)
        \/ Fails(send, Ctl, txb)
    BY <1>a, <1>t, SendOutcomes
  <1>h. StreamFlags'
    BY <1>a, <1>t, <1>e DEF StreamFlags, Writes, Queues, Fails
  <1>f. /\ Append(send, Ctl) \in Seq(0 .. MaxPpp)
        /\ Len(send) \in Nat /\ DOMAIN send = 1 .. Len(send)
        /\ Len(Append(send, Ctl)) = Len(send) + 1
        /\ DOMAIN Append(send, Ctl) = 1 .. (Len(send) + 1)
        /\ \A i \in 1 .. Len(send) : Append(send, Ctl)[i] = send[i]
        /\ Append(send, Ctl)[Len(send) + 1] = Ctl
    BY <1>t, AppendFacts DEF StreamTypes, Ctl
  <1>g. /\ Append(ctlWire, txb.msg) \in Seq(-MaxCtl .. -1)
        /\ \A i \in DOMAIN ctlWire : txb.msg < ctlWire[i] /\ ctlWire[i] \in Int
        /\ LET t == Append(ctlWire, txb.msg) IN
           /\ \A i, j \in DOMAIN t : i < j => t[i] > t[j]
           /\ \A i \in DOMAIN t : txb.msg <= t[i]
    <2>1. txb.msg \in -MaxCtl .. -1 /\ -MaxCtl .. -1 \in SUBSET Int
      BY <1>a, <1>b
    <2>2. ctlWire \in Seq(-MaxCtl .. -1)
      BY <1>t DEF StreamTypes
    <2>3. \A i \in DOMAIN ctlWire : ctlWire[i] \in -MaxCtl .. -1
      BY <2>2, LenProperties
    <2>4. \A i \in DOMAIN ctlWire : tx_buf.msg <= ctlWire[i]
      BY <1>t DEF CtlAges
    <2>5. \A i \in DOMAIN ctlWire : txb.msg < ctlWire[i] /\ ctlWire[i] \in Int
      BY <2>1, <2>3, <2>4, <1>i
    <2>6. \A i, j \in DOMAIN ctlWire : i < j => ctlWire[i] > ctlWire[j]
      BY <1>t DEF CtlInOrder
    <2>7. Append(ctlWire, txb.msg) \in Seq(-MaxCtl .. -1)
      BY <2>1, <2>2, AppendProperties
    <2> HIDE DEF txb
    <2> QED  BY <2>1, <2>2, <2>5, <2>6, <2>7, AppendDescending
  <1> HIDE DEF txb
  <1>1. CASE Writes(send, Ctl, txb)
    <2>1. /\ send' = << >> /\ send = << >> /\ armed' = armed /\ held' = Nothing /\ held = Nothing
          /\ wire' = wire /\ ctlWire' = Append(ctlWire, txb.msg)
          /\ tx_buf' = [txb EXCEPT !.sent = TRUE]
          /\ failure' = failure /\ dead' = dead
      BY <1>1, <1>b, <1>c, <1>d DEF Writes, Message
    <2>2. tx_buf'.msg = txb.msg /\ tx_buf'.sent = TRUE /\ tx_buf' \in [msg : -MaxCtl .. 0, sent : BOOLEAN]
      BY <2>1, <1>c
    <2>3. StreamTypes'
      <3>1. held' \in {Nothing} \cup [buf : 0 .. MaxPpp, msg : -MaxCtl .. MaxPpp]
        BY <2>1
      <3>2. send' \in Seq(0 .. MaxPpp) /\ Len(send') = 0
        BY <2>1
      <3>3. Len(send') <= count'.ctl + (IF inflight' = 0 THEN 0 ELSE 1)
        BY <1>b, <3>2
      <3>4. /\ pppq' \in Seq(1 .. MaxPpp) /\ inflight' \in 0 .. MaxPpp
            /\ wire' \in Seq(1 .. MaxPpp)
        BY <1>t, <1>a, <2>1 DEF StreamTypes
      <3>5. ctlWire' \in Seq(-MaxCtl .. -1)
        BY <1>g, <2>1
      <3> QED  BY <1>b, <2>2, <3>1, <3>2, <3>3, <3>4, <3>5 DEF StreamTypes
    <2>4. DOMAIN send' = {}
      BY <2>1
    <2>5. (WakeupArmed /\ QueuedOwned /\ HeldQueued /\ HeldMessage)'
      BY <2>1, <2>4 DEF WakeupArmed, QueuedOwned, HeldQueued, HeldMessage, Nothing, Ctl
    <2>6. (CtlAges /\ CtlInOrder)'
      <3>1. ~Unsent' /\ held'.buf # Ctl
        BY <2>1, <2>2 DEF Unsent, Nothing, Ctl
      <3>2. tx_buf'.msg + count'.ctl = 0
        BY <1>b, <1>c, <2>2
      <3> QED  BY <1>g, <2>1, <2>2, <3>1, <3>2 DEF CtlAges, CtlInOrder
    <2>7. (PppAges /\ PppInOrder)'
      BY <1>t, <1>a, <1>b, <2>1 DEF PppAges, PppInOrder
    <2> QED  BY <1>h, <2>3, <2>5, <2>6, <2>7 DEF StreamInv
  <1>2. CASE Queues(send, Ctl, txb)
    <2>1. /\ send' = Append(send, Ctl) /\ armed' = TRUE /\ tx_buf' = txb
          /\ wire' = wire /\ ctlWire' = ctlWire /\ failure' = failure /\ dead' = dead
          /\ \/ held' = held
             \/ held' = [buf |-> Ctl, msg |-> txb.msg] /\ send = << >>
      BY <1>2, <1>d DEF Queues, Message
    <2>2. StreamTypes'
      <3>1. held' \in {Nothing} \cup [buf : 0 .. MaxPpp, msg : -MaxCtl .. MaxPpp]
        <4>1. held \in {Nothing} \cup [buf : 0 .. MaxPpp, msg : -MaxCtl .. MaxPpp]
          BY <1>t DEF StreamTypes
        <4>2. Ctl \in 0 .. MaxPpp /\ txb.msg \in -MaxCtl .. MaxPpp
          BY <1>a, <1>b, <1>c DEF Ctl
        <4> QED  BY <4>1, <4>2, <2>1
      <3>2. tx_buf' \in [msg : -MaxCtl .. 0, sent : BOOLEAN]
        BY <1>c, <2>1
      <3>3. send' \in Seq(0 .. MaxPpp)
        BY <1>f, <2>1
      <3>4. Len(send') <= count'.ctl + (IF inflight' = 0 THEN 0 ELSE 1)
        <4>1. Len(send) <= count.ctl + (IF inflight = 0 THEN 0 ELSE 1)
          BY <1>t DEF StreamTypes
        <4> QED  BY <4>1, <1>a, <1>b, <1>f, <2>1
      <3>5. /\ pppq' \in Seq(1 .. MaxPpp) /\ inflight' \in 0 .. MaxPpp
            /\ wire' \in Seq(1 .. MaxPpp) /\ ctlWire' \in Seq(-MaxCtl .. -1)
        BY <1>t, <1>a, <2>1 DEF StreamTypes
      <3> QED  BY <1>b, <3>1, <3>2, <3>3, <3>4, <3>5 DEF StreamTypes
    <2>3. (WakeupArmed /\ QueuedOwned)'
      BY <1>t, <1>a, <1>f, <2>1 DEF WakeupArmed, QueuedOwned
    <2>4. (HeldQueued /\ HeldMessage)'
      <3>1. CASE held' = held
        BY <1>t, <1>c, <1>f, <2>1, <3>1 DEF HeldQueued, HeldMessage, Unsent
      <3>2. CASE held' = [buf |-> Ctl, msg |-> txb.msg]
        <4>1. held'.buf = Ctl /\ held'.msg = txb.msg
          BY <3>2
        <4>2. send'[Len(send) + 1] = Ctl /\ Len(send) + 1 \in DOMAIN send'
          BY <1>f, <2>1
        <4>3. HeldQueued'
          BY <4>1, <4>2 DEF HeldQueued
        <4>4. Unsent' /\ txb.msg < 0
          BY <1>b, <1>c, <2>1 DEF Unsent
        <4> QED  BY <4>1, <4>3, <4>4 DEF HeldMessage, Ctl
      <3> QED  BY <2>1, <3>1, <3>2
    <2>5. (CtlAges /\ CtlInOrder)'
      <3>1. tx_buf'.msg + count'.ctl = 0 /\ tx_buf'.msg < 0
        BY <1>b, <1>c, <2>1
      <3>2. held'.buf = Ctl => \/ held'.msg = txb.msg
                               \/ held'.msg = held.msg /\ held.buf = Ctl
        BY <2>1
      <3>3. held.buf = Ctl => /\ tx_buf.msg <= held.msg
                              /\ \A i \in DOMAIN ctlWire : held.msg < ctlWire[i]
        BY <1>t DEF CtlAges
      <3>4. held'.buf = Ctl => /\ txb.msg <= held'.msg
                               /\ \A i \in DOMAIN ctlWire : held'.msg < ctlWire[i]
        BY <1>g, <1>i, <3>2, <3>3
      <3>5. CtlInOrder'
        BY <1>t, <2>1 DEF CtlInOrder
      <3>6. \A i \in DOMAIN ctlWire : txb.msg <= ctlWire[i] /\ txb.msg < ctlWire[i]
        BY <1>g, <1>i
      <3> QED  BY <2>1, <3>1, <3>4, <3>5, <3>6 DEF CtlAges
    <2>6. (PppAges /\ PppInOrder)'
      BY <1>t, <1>a, <1>b, <2>1 DEF PppAges, PppInOrder
    <2> QED  BY <1>h, <2>2, <2>3, <2>4, <2>5, <2>6 DEF StreamInv
  <1>3. CASE Fails(send, Ctl, txb)
    <2>1. /\ send' = << >> /\ send = << >> /\ armed' = armed /\ held' = Nothing /\ held = Nothing
          /\ wire' = wire /\ ctlWire' = ctlWire /\ tx_buf' = txb
          /\ failure' \in {"net", "retry", "empty"} /\ dead' \in BOOLEAN
      BY <1>3, <1>d DEF Fails
    <2>2. StreamTypes'
      BY <1>t, <1>a, <1>b, <1>c, <2>1 DEF StreamTypes
    <2>3. DOMAIN send' = {}
      BY <2>1
    <2>4. (WakeupArmed /\ QueuedOwned /\ HeldQueued /\ HeldMessage)'
      BY <2>1, <2>3 DEF WakeupArmed, QueuedOwned, HeldQueued, HeldMessage, Nothing, Ctl
    <2>5. (CtlAges /\ CtlInOrder)'
      <3>1. held'.buf # Ctl
        BY <2>1 DEF Nothing, Ctl
      <3>2. tx_buf'.msg + count'.ctl = 0 /\ tx_buf'.msg < 0
        BY <1>b, <1>c, <2>1
      <3> QED  BY <1>t, <1>g, <1>i, <2>1, <3>1, <3>2 DEF CtlAges, CtlInOrder
    <2>6. (PppAges /\ PppInOrder)'
      BY <1>t, <1>a, <1>b, <2>1 DEF PppAges, PppInOrder
    <2> QED  BY <1>h, <2>2, <2>4, <2>5, <2>6 DEF StreamInv
  <1> QED  BY <1>e, <1>1, <1>2, <1>3

\* What StreamTypes says of the pieces of records.
LEMMA TypeFacts ==
    ASSUME StreamTypes
    PROVE  /\ held.msg \in -MaxCtl .. MaxPpp /\ held.buf \in -1 .. MaxPpp
           /\ held.buf = -1 <=> held = Nothing
           /\ tx_buf.msg \in -MaxCtl .. 0
           /\ count.ctl \in 0 .. MaxCtl /\ count.ppp \in 0 .. MaxPpp
           /\ inflight \in 0 .. MaxPpp
  <1> USE StreamAssumption
  <1>1. held \in {Nothing} \cup [buf : 0 .. MaxPpp, msg : -MaxCtl .. MaxPpp]
    BY DEF StreamTypes
  <1>2. tx_buf \in [msg : -MaxCtl .. 0, sent : BOOLEAN]
    BY DEF StreamTypes
  <1>3. count \in [ctl : 0 .. MaxCtl, ppp : 0 .. MaxPpp] /\ inflight \in 0 .. MaxPpp
    BY DEF StreamTypes
  <1>4. /\ held.msg \in -MaxCtl .. MaxPpp /\ held.buf \in -1 .. MaxPpp
        /\ held.buf = -1 <=> held = Nothing
    BY <1>1 DEF Nothing
  <1> QED  BY <1>2, <1>3, <1>4

\* Steps that touch neither the list nor the buffers.
LEMMA QuietKeeps ==
    ASSUME StreamInv,
           PppFlushReturns \/ SendContStart \/ SendContDone
    PROVE  StreamInv'
  <1>t. /\ StreamTypes /\ StreamFlags /\ WakeupArmed /\ QueuedOwned /\ HeldQueued /\ HeldMessage
        /\ CtlAges /\ CtlInOrder /\ PppAges /\ PppInOrder
    BY DEF StreamInv
  <1>1. /\ send' = send /\ held' = held /\ tx_buf' = tx_buf /\ wire' = wire
        /\ ctlWire' = ctlWire /\ failure' = failure /\ dead' = dead
        /\ pppq' = pppq /\ inflight' = inflight /\ aborted' = aborted /\ count' = count
    BY DEF PppFlushReturns, SendContStart, SendContDone, sslVars, pppVars
  <1>2. StreamFlags' /\ WakeupArmed'
    BY <1>t, <1>1 DEF StreamFlags, WakeupArmed, PppFlushReturns, SendContStart, SendContDone
  <1>3. Unsent' <=> Unsent
    BY <1>1 DEF Unsent
  <1>4. /\ StreamTypes' /\ QueuedOwned' /\ HeldQueued' /\ HeldMessage'
        /\ CtlAges' /\ CtlInOrder' /\ PppAges' /\ PppInOrder'
    BY <1>t, <1>1, <1>3 DEF StreamTypes, QueuedOwned, HeldQueued, HeldMessage,
       CtlAges, CtlInOrder, PppAges, PppInOrder
  <1> QED  BY <1>2, <1>4 DEF StreamInv

\* A new frame is younger than all before it.
LEMMA PppSendKeeps ==
    ASSUME StreamInv, PppSend
    PROVE  StreamInv'
  <1> USE StreamAssumption
  <1> DEFINE f == count.ppp + 1
  <1>t. /\ StreamTypes /\ StreamFlags /\ WakeupArmed /\ QueuedOwned /\ HeldQueued /\ HeldMessage
        /\ CtlAges /\ CtlInOrder /\ PppAges /\ PppInOrder
    BY DEF StreamInv
  <1>1. /\ send' = send /\ held' = held /\ tx_buf' = tx_buf /\ wire' = wire
        /\ ctlWire' = ctlWire /\ failure' = failure /\ dead' = dead
        /\ armed' = armed /\ resuming' = resuming /\ flushing' = TRUE
        /\ inflight' = inflight /\ aborted' = aborted
        /\ count.ppp < MaxPpp
        /\ count' = [count EXCEPT !.ppp = @ + 1]
        /\ pppq' = Append(pppq, f)
    BY DEF PppSend, PutLast, sslVars
  <1>2. StreamFlags' /\ WakeupArmed'
    BY <1>t, <1>1 DEF StreamFlags, WakeupArmed
  <1>3. /\ count.ppp \in Nat
        /\ count'.ppp = count.ppp + 1 /\ count'.ctl = count.ctl
        /\ count' \in [ctl : 0 .. MaxCtl, ppp : 0 .. MaxPpp]
    <2>1. count \in [ctl : 0 .. MaxCtl, ppp : 0 .. MaxPpp]
      BY <1>t DEF StreamTypes
    <2> QED  BY <1>1, <2>1
  <1>4. f \in 1 .. MaxPpp /\ 1 .. MaxPpp \in SUBSET Int
    BY <1>1, <1>3
  <1>5. pppq \in Seq(1 .. MaxPpp) /\ wire \in Seq(1 .. MaxPpp)
    BY <1>t DEF StreamTypes
  <1>6. /\ \A i \in DOMAIN pppq : pppq[i] \in 1 .. MaxPpp
        /\ \A i \in DOMAIN wire : wire[i] \in 1 .. MaxPpp
    BY <1>5, LenProperties
  <1>7. /\ \A i \in DOMAIN wire : wire[i] <= count.ppp
        /\ \A i \in DOMAIN pppq : pppq[i] <= count.ppp
        /\ inflight <= count.ppp
        /\ \A i, j \in DOMAIN pppq : i < j => pppq[i] < pppq[j]
        /\ \A i \in DOMAIN wire, j \in DOMAIN pppq : wire[i] < pppq[j]
        /\ inflight # 0 => /\ \A i \in DOMAIN wire : wire[i] < inflight
                           /\ \A j \in DOMAIN pppq : inflight < pppq[j]
    BY <1>t DEF PppAges
  <1>i. inflight \in 0 .. MaxPpp
    BY <1>t DEF StreamTypes
  <1>8. /\ Append(pppq, f) \in Seq(1 .. MaxPpp)
        /\ Len(pppq) \in Nat /\ DOMAIN pppq = 1 .. Len(pppq)
        /\ DOMAIN Append(pppq, f) = 1 .. (Len(pppq) + 1)
        /\ \A i \in 1 .. Len(pppq) : Append(pppq, f)[i] = pppq[i]
        /\ Append(pppq, f)[Len(pppq) + 1] = f
    BY <1>4, <1>5, AppendFacts
  <1>9. /\ \A i \in DOMAIN pppq : pppq[i] < f
        /\ \A i \in DOMAIN wire : wire[i] < f /\ wire[i] <= f
        /\ inflight < f /\ inflight <= f
    BY <1>3, <1>6, <1>7, <1>i
  <1>10. LET t == Append(pppq, f) IN
         /\ \A i, j \in DOMAIN t : i < j => t[i] < t[j]
         /\ \A i \in DOMAIN t : t[i] <= f
    <2> HIDE DEF f
    <2> QED  BY <1>4, <1>5, <1>7, <1>9, AppendAscending
  <1> HIDE DEF f
  <1>11. PppAges'
    <2>1. count'.ppp = f
      BY <1>3 DEF f
    <2>2. /\ \A i \in DOMAIN wire, j \in DOMAIN pppq' : wire[i] < pppq'[j]
          /\ inflight # 0 => \A j \in DOMAIN pppq' : inflight < pppq'[j]
      BY <1>1, <1>7, <1>8, <1>9
    <2> QED  BY <1>1, <1>7, <1>9, <1>10, <2>1, <2>2 DEF PppAges
  <1>12. StreamTypes'
    BY <1>t, <1>1, <1>3, <1>8 DEF StreamTypes
  <1>13. Unsent' <=> Unsent
    BY <1>1 DEF Unsent
  <1>14. /\ QueuedOwned' /\ HeldQueued' /\ HeldMessage'
         /\ CtlAges' /\ CtlInOrder' /\ PppInOrder'
    BY <1>t, <1>1, <1>3, <1>13 DEF QueuedOwned, HeldQueued, HeldMessage,
       CtlAges, CtlInOrder, PppInOrder
  <1> QED  BY <1>2, <1>11, <1>12, <1>14 DEF StreamInv

\* The first waiting frame leaves ios-pppd.c's queue: for the wire, into
\* flight, or dropped.
LEMMA FrameHandedOver ==
    ASSUME StreamTypes, PppAges, PppInOrder, inflight = 0, pppq # << >>,
           pppq' = Tail(pppq), count'.ppp = count.ppp,
           \/ wire' = wire /\ inflight' \in {0, Head(pppq)}
           \/ wire' = Append(wire, Head(pppq)) /\ inflight' = 0
    PROVE  /\ PppAges' /\ PppInOrder'
           /\ pppq' \in Seq(1 .. MaxPpp) /\ wire' \in Seq(1 .. MaxPpp)
           /\ inflight' \in 0 .. MaxPpp /\ Head(pppq) \in 1 .. MaxPpp
  <1> USE StreamAssumption
  <1> DEFINE f == Head(pppq)
  <1>1. /\ pppq \in Seq(1 .. MaxPpp) /\ wire \in Seq(1 .. MaxPpp)
        /\ 1 .. MaxPpp \in SUBSET Int /\ 1 .. MaxPpp \subseteq 0 .. MaxPpp
    BY DEF StreamTypes
  <1>2. /\ Tail(pppq) \in Seq(1 .. MaxPpp)
        /\ Len(pppq) \in Nat \ {0} /\ DOMAIN pppq = 1 .. Len(pppq)
        /\ DOMAIN Tail(pppq) = 1 .. (Len(pppq) - 1)
        /\ \A i \in 1 .. (Len(pppq) - 1) : Tail(pppq)[i] = pppq[i + 1]
        /\ \A i \in 1 .. Len(pppq) : pppq[i] \in 1 .. MaxPpp
        /\ f = pppq[1]
    BY <1>1, TailFacts
  <1>3. \A i \in DOMAIN wire : wire[i] \in 1 .. MaxPpp
    BY <1>1, LenProperties
  <1>4. /\ \A i \in DOMAIN wire : wire[i] <= count.ppp
        /\ \A i \in DOMAIN pppq : pppq[i] <= count.ppp
        /\ \A i, j \in DOMAIN pppq : i < j => pppq[i] < pppq[j]
        /\ \A i \in DOMAIN wire, j \in DOMAIN pppq : wire[i] < pppq[j]
        /\ \A i, j \in DOMAIN wire : i < j => wire[i] < wire[j]
    BY DEF PppAges, PppInOrder
  <1> HIDE DEF f
  <1>n. count.ppp \in Nat
    BY TypeFacts
  <1>5. f \in 1 .. MaxPpp /\ f <= count.ppp /\ 1 \in DOMAIN pppq
    <2>1. 1 \in 1 .. Len(pppq)
      BY <1>2
    <2>2. 1 \in DOMAIN pppq
      BY <1>2, <2>1
    <2> QED  BY <1>2, <1>4, <2>1, <2>2
  <1>6. \A i \in DOMAIN wire : wire[i] < f
    BY <1>2, <1>4, <1>5
  <1>7. /\ \A i \in DOMAIN pppq' : pppq'[i] <= count.ppp /\ f < pppq'[i]
        /\ \A i, j \in DOMAIN pppq' : i < j => pppq'[i] < pppq'[j]
        /\ \A i \in DOMAIN wire, j \in DOMAIN pppq' : wire[i] < pppq'[j]
    <2>1. \A i \in DOMAIN pppq' : /\ i \in 1 .. (Len(pppq) - 1) /\ i + 1 \in DOMAIN pppq
                                 /\ pppq'[i] = pppq[i + 1] /\ 1 < i + 1
      BY <1>2
    <2>2. \A i \in DOMAIN pppq' : pppq'[i] <= count.ppp /\ f < pppq'[i]
      BY <1>2, <1>4, <1>5, <2>1
    <2>3. \A i, j \in DOMAIN pppq' : i < j => pppq'[i] < pppq'[j]
      BY <1>4, <2>1
    <2> QED  BY <1>4, <2>1, <2>2, <2>3
  <1>8. CASE wire' = wire /\ inflight' \in {0, f}
    <2>1. PppAges'
      <3>1. inflight' <= count'.ppp
        BY <1>8, <1>5, <1>n
      <3> QED  BY <1>4, <1>6, <1>7, <1>8, <3>1 DEF PppAges
    <2> QED  BY <1>1, <1>2, <1>4, <1>5, <1>8, <2>1 DEF PppInOrder, f
  <1>9. CASE wire' = Append(wire, f) /\ inflight' = 0
    <2>1. /\ Append(wire, f) \in Seq(1 .. MaxPpp)
          /\ Len(wire) \in Nat /\ DOMAIN wire = 1 .. Len(wire)
          /\ DOMAIN Append(wire, f) = 1 .. (Len(wire) + 1)
          /\ \A i \in 1 .. Len(wire) : Append(wire, f)[i] = wire[i]
          /\ Append(wire, f)[Len(wire) + 1] = f
      BY <1>1, <1>5, AppendFacts
    <2>2. LET t == Append(wire, f) IN \A i, j \in DOMAIN t : i < j => t[i] < t[j]
      BY <1>1, <1>4, <1>5, <1>6, AppendAscending
    <2>a. \A i \in DOMAIN wire' : wire'[i] = f \/ (i \in DOMAIN wire /\ wire'[i] = wire[i])
      BY <1>1, <1>5, <1>9, AppendEntries
    <2>3. \A i \in DOMAIN wire' : wire'[i] <= count.ppp
      BY <1>4, <1>5, <2>a
    <2>4. \A i \in DOMAIN wire', j \in DOMAIN pppq' : wire'[i] < pppq'[j]
      BY <1>7, <2>a
    <2>5. inflight' <= count'.ppp
      BY <1>9, <1>n
    <2>6. PppAges'
      BY <1>7, <1>9, <2>3, <2>4, <2>5 DEF PppAges
    <2> QED  BY <1>1, <1>2, <1>5, <1>9, <2>1, <2>2, <2>6 DEF PppInOrder, f
  <1> QED  BY <1>8, <1>9 DEF f

\* The frame in flight is finished: it is on the wire or dropped.
LEMMA FrameDone ==
    ASSUME StreamTypes, PppAges, PppInOrder, inflight # 0,
           pppq' = pppq, count'.ppp = count.ppp, inflight' = 0,
           wire' \in {wire, Append(wire, inflight)}
    PROVE  PppAges' /\ PppInOrder' /\ wire' \in Seq(1 .. MaxPpp)
  <1> USE StreamAssumption
  <1>1. /\ pppq \in Seq(1 .. MaxPpp) /\ wire \in Seq(1 .. MaxPpp)
        /\ inflight \in 1 .. MaxPpp
        /\ 1 .. MaxPpp \in SUBSET Int
    BY DEF StreamTypes
  <1>2. /\ \A i \in DOMAIN wire : wire[i] <= count.ppp
        /\ \A i \in DOMAIN pppq : pppq[i] <= count.ppp
        /\ inflight <= count.ppp
        /\ \A i, j \in DOMAIN pppq : i < j => pppq[i] < pppq[j]
        /\ \A i \in DOMAIN wire, j \in DOMAIN pppq : wire[i] < pppq[j]
        /\ \A i \in DOMAIN wire : wire[i] < inflight
        /\ \A j \in DOMAIN pppq : inflight < pppq[j]
        /\ \A i, j \in DOMAIN wire : i < j => wire[i] < wire[j]
    BY DEF PppAges, PppInOrder
  <1>3. count.ppp \in 0 .. MaxPpp
    BY TypeFacts
  <1>4. inflight' <= count'.ppp
    BY <1>3
  <1>5. CASE wire' = wire
    BY <1>1, <1>2, <1>4, <1>5 DEF PppAges, PppInOrder
  <1>6. CASE wire' = Append(wire, inflight)
    <2>1. /\ Append(wire, inflight) \in Seq(1 .. MaxPpp)
          /\ Len(wire) \in Nat /\ DOMAIN wire = 1 .. Len(wire)
          /\ DOMAIN Append(wire, inflight) = 1 .. (Len(wire) + 1)
          /\ \A i \in 1 .. Len(wire) : Append(wire, inflight)[i] = wire[i]
          /\ Append(wire, inflight)[Len(wire) + 1] = inflight
      BY <1>1, AppendFacts
    <2>2. LET t == Append(wire, inflight) IN \A i, j \in DOMAIN t : i < j => t[i] < t[j]
      BY <1>1, <1>2, AppendAscending
    <2>3. \A i \in DOMAIN wire' : wire'[i] <= count.ppp
      BY <1>2, <1>6, <2>1
    <2>4. \A i \in DOMAIN wire', j \in DOMAIN pppq' : wire'[i] < pppq'[j]
      BY <1>2, <1>6, <2>1
    <2>5. PppAges'
      BY <1>2, <1>4, <2>3, <2>4 DEF PppAges
    <2> QED  BY <1>6, <2>1, <2>2, <2>5 DEF PppInOrder
  <1> QED  BY <1>5, <1>6

\* The control messages are as before, or what was held of them is gone.
LEMMA CtlKept ==
    ASSUME CtlAges, CtlInOrder, tx_buf' = tx_buf, ctlWire' = ctlWire, count'.ctl = count.ctl,
           held'.buf = Ctl => held' = held
    PROVE  CtlAges' /\ CtlInOrder'
  <1>1. Unsent' <=> Unsent
    BY DEF Unsent
  <1> QED  BY <1>1 DEF CtlAges, CtlInOrder

\* ppp_flush_start: nothing but control messages is in the list, so nothing
\* but one of those is held back.
LEMMA PppFlushKeeps ==
    ASSUME StreamInv, NEW answer \in Answers, PppFlush(answer)
    PROVE  StreamInv'
  <1> USE StreamAssumption
  <1> DEFINE f == Head(pppq)
  <1>t. /\ StreamTypes /\ StreamFlags /\ WakeupArmed /\ QueuedOwned /\ HeldQueued /\ HeldMessage
        /\ CtlAges /\ CtlInOrder /\ PppAges /\ PppInOrder
    BY DEF StreamInv
  <1>a. /\ inflight = 0 /\ pppq # << >>
        /\ stream_send(send, f, tx_buf, answer)
        /\ pppq' = Tail(pppq)
        /\ inflight' = IF answer = "block" THEN f ELSE 0
        /\ flushing' = (answer = "okay")
        /\ resuming' = resuming /\ aborted' = aborted /\ count' = count
    BY DEF PppFlush, CanFlush
  <1>b. f \in 1 .. MaxPpp
    BY <1>a, <1>t, TailFacts DEF StreamTypes
  <1>c. \A i \in DOMAIN send : send[i] = Ctl
    BY <1>a, <1>t DEF QueuedOwned, Ctl
  <1>d. held = Nothing \/ held.buf = Ctl
    BY <1>c, <1>t DEF HeldQueued
  <1>e. \/ answer = "okay" /\ Writes(send, f, tx_buf)
        \/ answer = "block" /\ Queues(send, f, tx_buf)
        \/ answer \notin {"okay", "block"} /\ Fails(send, f, tx_buf)
    BY <1>a, <1>t, SendOutcomes
  <1>f. /\ Append(send, f) \in Seq(0 .. MaxPpp)
        /\ Len(send) \in Nat /\ DOMAIN send = 1 .. Len(send)
        /\ Len(Append(send, f)) = Len(send) + 1
        /\ DOMAIN Append(send, f) = 1 .. (Len(send) + 1)
        /\ \A i \in 1 .. Len(send) : Append(send, f)[i] = send[i]
        /\ Append(send, f)[Len(send) + 1] = f
    <2>1. f \in 0 .. MaxPpp /\ send \in Seq(0 .. MaxPpp)
      BY <1>b, <1>t DEF StreamTypes
    <2> QED  BY <2>1, AppendFacts
  <1>g. StreamFlags'
    BY <1>a, <1>t, <1>e DEF StreamFlags, Writes, Queues, Fails
  <1>i. /\ send \in Seq(0 .. MaxPpp)
        /\ Len(send) <= count.ctl
        /\ held \in {Nothing} \cup [buf : 0 .. MaxPpp, msg : -MaxCtl .. MaxPpp]
        /\ tx_buf \in [msg : -MaxCtl .. 0, sent : BOOLEAN]
        /\ ctlWire \in Seq(-MaxCtl .. -1)
        /\ count \in [ctl : 0 .. MaxCtl, ppp : 0 .. MaxPpp]
        /\ Nothing.buf = -1 /\ Ctl = 0 /\ count.ctl \in Nat
    <2>1. Len(send) <= count.ctl + 0 /\ count.ctl \in Nat
      BY <1>a, <1>t, TypeFacts DEF StreamTypes
    <2> QED  BY <1>a, <1>f, <1>t, <2>1 DEF StreamTypes, Nothing, Ctl
  <1> HIDE DEF f
  <1>1. CASE answer = "okay" /\ Writes(send, f, tx_buf)
    <2>1. /\ held = Nothing /\ send' = send /\ armed' = armed /\ held' = Nothing
          /\ wire' = Append(wire, f) /\ ctlWire' = ctlWire /\ tx_buf' = tx_buf
          /\ inflight' = 0
      BY <1>1, <1>a, <1>b, <1>d DEF Writes, Message, Ctl
    <2>2. PppAges' /\ PppInOrder' /\ pppq' \in Seq(1 .. MaxPpp) /\ wire' \in Seq(1 .. MaxPpp)
      BY <1>a, <1>t, <2>1, FrameHandedOver DEF f
    <2>3. CtlAges' /\ CtlInOrder'
      BY <1>a, <1>t, <1>i, <2>1, CtlKept
    <2>4. StreamTypes'
      BY <1>a, <1>i, <2>1, <2>2 DEF StreamTypes
    <2>5. WakeupArmed' /\ QueuedOwned' /\ HeldQueued'
      BY <1>a, <1>c, <1>t, <2>1 DEF WakeupArmed, QueuedOwned, HeldQueued
    <2>6. HeldMessage'
      BY <1>i, <2>1 DEF HeldMessage
    <2> QED  BY <1>g, <2>2, <2>3, <2>4, <2>5, <2>6 DEF StreamInv
  <1>2. CASE answer = "block" /\ Queues(send, f, tx_buf)
    <2>1. /\ send' = Append(send, f) /\ armed' = TRUE /\ wire' = wire
          /\ ctlWire' = ctlWire /\ tx_buf' = tx_buf /\ inflight' = f
          /\ held' = held \/ held' = [buf |-> f, msg |-> f]
      BY <1>2, <1>a, <1>b DEF Queues, Message, Ctl
    <2>2. PppAges' /\ PppInOrder' /\ pppq' \in Seq(1 .. MaxPpp) /\ wire' \in Seq(1 .. MaxPpp)
      BY <1>a, <1>t, <2>1, FrameHandedOver DEF f
    <2>3. CtlAges' /\ CtlInOrder'
      <3>1. held'.buf = Ctl => held' = held
        BY <1>b, <1>i, <2>1
      <3> QED  BY <1>a, <1>t, <2>1, <3>1, CtlKept
    <2>4. StreamTypes'
      <3>1. held' \in {Nothing} \cup [buf : 0 .. MaxPpp, msg : -MaxCtl .. MaxPpp]
        BY <1>b, <1>i, <2>1
      <3>2. Len(send') <= count'.ctl + (IF inflight' = 0 THEN 0 ELSE 1)
        BY <1>a, <1>b, <1>f, <1>i, <2>1
      <3>3. inflight' \in 0 .. MaxPpp
        BY <1>b, <2>1
      <3> QED  BY <1>a, <1>f, <1>i, <2>1, <2>2, <3>1, <3>2, <3>3 DEF StreamTypes
    <2>5. WakeupArmed'
      BY <2>1 DEF WakeupArmed
    <2>6. QueuedOwned'
      <3>1. \A i \in DOMAIN send' : \/ i = Len(send) + 1 /\ send'[i] = f
                                    \/ send'[i] = Ctl
        <4> TAKE i \in DOMAIN send'
        <4>1. i \in 1 .. Len(send) \/ i = Len(send) + 1
          BY <1>f, <2>1
        <4> QED  BY <1>c, <1>f, <2>1, <4>1
      <3>2. f # Ctl
        BY <1>b, <1>i
      <3> QED  BY <2>1, <3>1, <3>2 DEF QueuedOwned
    <2>7. HeldQueued'
      <3>1. CASE held' = held
        BY <1>t, <1>f, <2>1, <3>1 DEF HeldQueued
      <3>2. CASE held' = [buf |-> f, msg |-> f]
        <4>1. held'.buf = f /\ Len(send) + 1 \in DOMAIN send' /\ send'[Len(send) + 1] = f
          BY <1>f, <2>1, <3>2
        <4> QED  BY <4>1 DEF HeldQueued
      <3> QED  BY <2>1, <3>1, <3>2
    <2>8. HeldMessage'
      <3>1. CASE held' = held
        BY <1>t, <2>1, <3>1 DEF HeldMessage, Unsent
      <3>2. CASE held' = [buf |-> f, msg |-> f]
        BY <1>b, <1>i, <3>2 DEF HeldMessage
      <3> QED  BY <2>1, <3>1, <3>2
    <2> QED  BY <1>g, <2>2, <2>3, <2>4, <2>5, <2>6, <2>7, <2>8 DEF StreamInv
  <1>3. CASE answer \notin {"okay", "block"} /\ Fails(send, f, tx_buf)
    <2>1. /\ send' = send /\ armed' = armed /\ held' \in {Nothing, held}
          /\ wire' = wire /\ ctlWire' = ctlWire /\ tx_buf' = tx_buf
          /\ inflight' = 0
      BY <1>3, <1>a DEF Fails
    <2>2. PppAges' /\ PppInOrder' /\ pppq' \in Seq(1 .. MaxPpp) /\ wire' \in Seq(1 .. MaxPpp)
      BY <1>a, <1>t, <2>1, FrameHandedOver DEF f
    <2>3. CtlAges' /\ CtlInOrder'
      <3>1. held'.buf = Ctl => held' = held
        BY <1>i, <2>1
      <3> QED  BY <1>a, <1>t, <2>1, <3>1, CtlKept
    <2>4. StreamTypes'
      BY <1>a, <1>i, <2>1, <2>2 DEF StreamTypes
    <2>5. WakeupArmed' /\ QueuedOwned' /\ HeldQueued'
      BY <1>a, <1>c, <1>t, <2>1 DEF WakeupArmed, QueuedOwned, HeldQueued
    <2>6. HeldMessage'
      <3>1. CASE held' = held
        BY <1>t, <2>1, <3>1 DEF HeldMessage, Unsent
      <3>2. CASE held' = Nothing
        BY <1>i, <3>2 DEF HeldMessage
      <3> QED  BY <2>1, <3>1, <3>2
    <2> QED  BY <1>g, <2>2, <2>3, <2>4, <2>5, <2>6 DEF StreamInv
  <1> QED  BY <1>e, <1>1, <1>2, <1>3

\* A control message is written, the one held back or the one in tx_buf.
LEMMA CtlWritten ==
    ASSUME StreamTypes, CtlAges, CtlInOrder, HeldMessage, NEW msg,
           \/ msg = held.msg /\ held.buf = Ctl
           \/ msg = tx_buf.msg /\ Unsent,
           tx_buf' = [tx_buf EXCEPT !.sent = TRUE], held' = Nothing,
           ctlWire' = Append(ctlWire, msg), count'.ctl = count.ctl
    PROVE  /\ CtlAges' /\ CtlInOrder' /\ ctlWire' \in Seq(-MaxCtl .. -1)
           /\ tx_buf' \in [msg : -MaxCtl .. 0, sent : BOOLEAN]
  <1> USE StreamAssumption
  <1>1. /\ held.msg \in -MaxCtl .. MaxPpp /\ tx_buf.msg \in -MaxCtl .. 0
        /\ count.ctl \in 0 .. MaxCtl
    BY TypeFacts
  <1>2. /\ ctlWire \in Seq(-MaxCtl .. -1) /\ -MaxCtl .. -1 \in SUBSET Int
        /\ tx_buf \in [msg : -MaxCtl .. 0, sent : BOOLEAN]
    BY DEF StreamTypes
  <1>3. tx_buf'.msg = tx_buf.msg /\ ~Unsent' /\ tx_buf' \in [msg : -MaxCtl .. 0, sent : BOOLEAN]
    BY <1>2 DEF Unsent
  <1>4. msg \in -MaxCtl .. -1
    BY <1>1 DEF HeldMessage, CtlAges
  <1>5. \A i \in DOMAIN ctlWire : msg < ctlWire[i]
    BY DEF CtlAges
  <1>6. tx_buf.msg <= msg
    BY <1>1 DEF CtlAges
  <1>7. \A i, j \in DOMAIN ctlWire : i < j => ctlWire[i] > ctlWire[j]
    BY DEF CtlInOrder
  <1>8. Append(ctlWire, msg) \in Seq(-MaxCtl .. -1)
    BY <1>2, <1>4, AppendProperties
  <1>9. LET t == Append(ctlWire, msg) IN
        /\ \A i, j \in DOMAIN t : i < j => t[i] > t[j]
        /\ \A i \in DOMAIN t : msg <= t[i]
    BY <1>2, <1>4, <1>5, <1>7, AppendDescending
  <1>10. \A i \in DOMAIN ctlWire' : ctlWire'[i] \in -MaxCtl .. -1
    BY <1>8, LenProperties
  <1>11. \A i \in DOMAIN ctlWire' : tx_buf'.msg <= ctlWire'[i]
    BY <1>1, <1>3, <1>4, <1>6, <1>9, <1>10
  <1>12. held'.buf # Ctl
    BY DEF Nothing, Ctl
  <1>13. tx_buf'.msg + count'.ctl = 0
    BY <1>3 DEF CtlAges
  <1> QED  BY <1>3, <1>8, <1>9, <1>11, <1>12, <1>13 DEF CtlAges, CtlInOrder

\* A turn of sstp_send_cont's loop.
LEMMA SendContTurnKeeps ==
    ASSUME StreamInv, NEW answer \in Answers, SendContTurn(answer)
    PROVE  StreamInv'
  <1> USE StreamAssumption
  <1> DEFINE buf == Head(send)
  <1>t. /\ StreamTypes /\ StreamFlags /\ WakeupArmed /\ QueuedOwned /\ HeldQueued /\ HeldMessage
        /\ CtlAges /\ CtlInOrder /\ PppAges /\ PppInOrder
    BY DEF StreamInv
  <1>a. /\ send # << >>
        /\ stream_send(Tail(send), buf, tx_buf, answer)
        /\ resuming' = (answer # "block")
        /\ flushing' = (answer # "block" /\ buf # Ctl)
        /\ inflight' = IF buf # Ctl /\ answer # "block" THEN 0 ELSE inflight
        /\ aborted' = (buf = Ctl /\ answer \notin {"okay", "block"})
        /\ pppq' = pppq /\ count' = count
    BY DEF SendContTurn, CompleteFlushes
  <1>b. /\ send \in Seq(0 .. MaxPpp) /\ pppq \in Seq(1 .. MaxPpp)
        /\ wire \in Seq(1 .. MaxPpp) /\ ctlWire \in Seq(-MaxCtl .. -1)
        /\ held \in {Nothing} \cup [buf : 0 .. MaxPpp, msg : -MaxCtl .. MaxPpp]
        /\ tx_buf \in [msg : -MaxCtl .. 0, sent : BOOLEAN]
        /\ count \in [ctl : 0 .. MaxCtl, ppp : 0 .. MaxPpp]
        /\ inflight \in 0 .. MaxPpp /\ count.ctl \in Nat
        /\ Len(send) <= count.ctl + (IF inflight = 0 THEN 0 ELSE 1)
        /\ Nothing.buf = -1 /\ Nothing.msg = 0 /\ Ctl = 0
        /\ held.msg \in Int /\ held.buf \in Int /\ tx_buf.msg \in Int
    BY <1>t, TypeFacts DEF StreamTypes, Nothing, Ctl
  <1>c. /\ Tail(send) \in Seq(0 .. MaxPpp)
        /\ Len(send) \in Nat \ {0} /\ DOMAIN send = 1 .. Len(send)
        /\ Len(Tail(send)) = Len(send) - 1
        /\ DOMAIN Tail(send) = 1 .. (Len(send) - 1)
        /\ \A i \in 1 .. (Len(send) - 1) : Tail(send)[i] = send[i + 1]
        /\ buf = send[1] /\ 1 \in DOMAIN send /\ buf \in 0 .. MaxPpp
    <2>1. /\ Tail(send) \in Seq(0 .. MaxPpp)
          /\ Len(send) \in Nat \ {0} /\ DOMAIN send = 1 .. Len(send)
          /\ Len(Tail(send)) = Len(send) - 1
          /\ DOMAIN Tail(send) = 1 .. (Len(send) - 1)
          /\ \A i \in 1 .. (Len(send) - 1) : Tail(send)[i] = send[i + 1]
          /\ buf = send[1]
          /\ \A i \in 1 .. Len(send) : send[i] \in 0 .. MaxPpp
      <3>1. send \in Seq(0 .. MaxPpp) /\ send # << >>
        BY <1>a, <1>b
      <3> QED  BY <3>1, TailFacts
    <2>2. 1 \in 1 .. Len(send)
      BY <2>1
    <2> QED  BY <2>1, <2>2
  <1>d. buf # Ctl => buf = inflight /\ \A i \in DOMAIN send : send[i] # Ctl => i = 1
    BY <1>c, <1>t DEF QueuedOwned
  <1>e. \/ answer = "okay" /\ Writes(Tail(send), buf, tx_buf)
        \/ answer = "block" /\ Queues(Tail(send), buf, tx_buf)
        \/ answer \notin {"okay", "block"} /\ Fails(Tail(send), buf, tx_buf)
    BY <1>a, <1>t, SendOutcomes
  <1>g. StreamFlags'
    BY <1>a, <1>t, <1>e DEF StreamFlags, Writes, Queues, Fails
  <1>r. LET r == Append(Tail(send), buf) IN
        /\ r \in Seq(0 .. MaxPpp) /\ Len(r) = Len(send) /\ r # << >>
        /\ DOMAIN r = DOMAIN send
        /\ \A i \in 1 .. (Len(send) - 1) : r[i] = send[i + 1]
        /\ r[Len(send)] = send[1]
    BY <1>a, <1>b, RotateFacts
  <1> HIDE DEF buf
  \* the entries left when the head is gone
  <1>h. /\ \A i \in DOMAIN Tail(send) : /\ i + 1 \in DOMAIN send /\ i + 1 # 1
                                        /\ Tail(send)[i] = send[i + 1]
        /\ \A i \in DOMAIN send : i # 1 => /\ i - 1 \in DOMAIN Tail(send)
                                           /\ Tail(send)[i - 1] = send[i]
    BY <1>c
  <1>k. ASSUME answer # "block", send' = Tail(send)
        PROVE  /\ QueuedOwned' /\ WakeupArmed'
               /\ Len(send') <= count'.ctl + (IF inflight' = 0 THEN 0 ELSE 1)
               /\ send' \in Seq(0 .. MaxPpp) /\ inflight' \in 0 .. MaxPpp
    <2>1. WakeupArmed'
      BY <1>a, <1>k DEF WakeupArmed
    <2>2. QueuedOwned'
      <3>1. CASE buf = Ctl
        <4>1. inflight' = inflight
          BY <1>a, <3>1
        <4>2. ASSUME NEW i \in DOMAIN send', send'[i] # Ctl
              PROVE  /\ send'[i] = inflight
                     /\ \A j \in DOMAIN send' : send'[j] = send'[i] => j = i
          <5>1. send'[i] = send[i + 1] /\ i + 1 \in DOMAIN send /\ i \in Int
            BY <1>h, <1>c, <1>k
          <5>2. send[i + 1] = inflight /\ \A k \in DOMAIN send : send[k] = send[i + 1] => k = i + 1
            BY <1>t, <4>2, <5>1 DEF QueuedOwned
          <5>3. \A j \in DOMAIN send' : send'[j] = send[j + 1] /\ j + 1 \in DOMAIN send /\ j \in Int
            BY <1>h, <1>c, <1>k
          <5> QED  BY <5>1, <5>2, <5>3
        <4> QED  BY <4>1, <4>2 DEF QueuedOwned
      <3>2. CASE buf # Ctl
        BY <1>d, <1>h, <1>k, <3>2 DEF QueuedOwned
      <3> QED  BY <3>1, <3>2
    <2>3. Len(send') <= count'.ctl + (IF inflight' = 0 THEN 0 ELSE 1)
      <3>1. /\ Len(send') = Len(send) - 1 /\ Len(send) \in Nat
            /\ count'.ctl = count.ctl /\ count.ctl \in Nat
        BY <1>a, <1>b, <1>c, <1>k
      <3>2. CASE buf = Ctl
        <4>1. inflight' = inflight
          BY <1>a, <3>2
        <4>2. Len(send) <= count.ctl + (IF inflight = 0 THEN 0 ELSE 1)
          BY <1>b
        <4> QED  BY ONLY <3>1, <4>1, <4>2
      <3>3. CASE buf # Ctl
        <4>1. inflight' = 0
          BY <1>a, <1>k, <3>3
        <4>2. Len(send) <= count.ctl + 1
          BY ONLY <1>b, <3>1
        <4> QED  BY ONLY <3>1, <4>1, <4>2
      <3> QED  BY <3>2, <3>3
    <2>4. send' \in Seq(0 .. MaxPpp) /\ inflight' \in 0 .. MaxPpp
      <3>1. send' \in Seq(0 .. MaxPpp)
        BY <1>c, <1>k
      <3>2. inflight' = 0 \/ inflight' = inflight
        BY <1>a
      <3>3. 0 \in 0 .. MaxPpp /\ inflight \in 0 .. MaxPpp
        BY <1>b
      <3> QED  BY <3>1, <3>2, <3>3
    <2> QED  BY <2>1, <2>2, <2>3, <2>4
  <1>1. CASE answer = "okay" /\ Writes(Tail(send), buf, tx_buf)
    <2>1. /\ send' = Tail(send) /\ held' = Nothing
          /\ held = Nothing \/ held.buf = buf
          /\ buf = Ctl => ~tx_buf.sent
          /\ tx_buf' = IF buf = Ctl THEN [tx_buf EXCEPT !.sent = TRUE] ELSE tx_buf
          /\ LET msg == IF held # Nothing THEN held.msg ELSE Message(buf, tx_buf)
             IN  /\ wire' = IF msg > 0 THEN Append(wire, msg) ELSE wire
                 /\ ctlWire' = IF msg < 0 THEN Append(ctlWire, msg) ELSE ctlWire
      BY <1>1 DEF Writes
    <2>b. held'.buf = -1
      BY <1>b, <2>1
    <2>2. HeldQueued' /\ HeldMessage'
      BY <2>1, <2>b DEF HeldQueued, HeldMessage, Ctl
    <2>3. CASE buf = Ctl
      <3> DEFINE msg == IF held # Nothing THEN held.msg ELSE tx_buf.msg
      <3>1. /\ msg < 0
            /\ \/ msg = held.msg /\ held.buf = Ctl
               \/ msg = tx_buf.msg /\ Unsent
        <4>1. Unsent
          BY <2>1, <2>3 DEF Unsent
        <4> QED  BY <1>t, <2>1, <2>3, <4>1 DEF HeldMessage, CtlAges
      <3>2. msg \in Int
        BY <1>b
      <3>3. wire' = wire /\ ctlWire' = Append(ctlWire, msg) /\ inflight' = inflight
        BY <1>a, <2>1, <2>3, <3>1, <3>2 DEF Message
      <3> HIDE DEF msg
      <3>4. /\ CtlAges' /\ CtlInOrder' /\ ctlWire' \in Seq(-MaxCtl .. -1)
            /\ tx_buf' \in [msg : -MaxCtl .. 0, sent : BOOLEAN]
        BY <1>a, <1>t, <2>1, <2>3, <3>1, <3>3, CtlWritten
      <3>5. PppAges' /\ PppInOrder'
        BY <1>a, <1>t, <3>3 DEF PppAges, PppInOrder
      <3>6. StreamTypes'
        BY <1>1, <1>a, <1>b, <1>k, <2>1, <3>3, <3>4 DEF StreamTypes
      <3> QED  BY <1>1, <1>g, <1>k, <2>1, <2>2, <3>4, <3>5, <3>6 DEF StreamInv
    <2>4. CASE buf # Ctl
      <3>1. /\ wire' = Append(wire, inflight) /\ ctlWire' = ctlWire
            /\ tx_buf' = tx_buf /\ inflight' = 0 /\ inflight # 0
        <4>1. inflight = buf /\ inflight \in 1 .. MaxPpp
          BY <1>b, <1>d, <2>4
        <4>2. held # Nothing => held.msg = inflight
          BY <1>t, <2>1, <4>1 DEF HeldMessage
        <4> QED  BY <1>1, <1>a, <2>1, <2>4, <4>1, <4>2 DEF Message
      <3>2. PppAges' /\ PppInOrder' /\ wire' \in Seq(1 .. MaxPpp)
        BY <1>a, <1>t, <3>1, FrameDone
      <3>3. CtlAges' /\ CtlInOrder'
        <4>1. held'.buf # Ctl
          BY <1>b, <2>b
        <4> QED  BY <1>a, <1>t, <3>1, <4>1, CtlKept
      <3>4. StreamTypes'
        BY <1>1, <1>a, <1>b, <1>k, <2>1, <3>1, <3>2 DEF StreamTypes
      <3> QED  BY <1>1, <1>g, <1>k, <2>1, <2>2, <3>2, <3>3, <3>4 DEF StreamInv
    <2> QED  BY <2>3, <2>4
  <1>2. CASE answer = "block" /\ Queues(Tail(send), buf, tx_buf)
    <2>1. /\ send' = Append(Tail(send), buf) /\ armed' = TRUE
          /\ wire' = wire /\ ctlWire' = ctlWire /\ tx_buf' = tx_buf /\ inflight' = inflight
          /\ \/ held' = held
             \/ /\ held = Nothing /\ (buf = Ctl => Unsent)
                /\ held' = [buf |-> buf, msg |-> Message(buf, tx_buf)]
      BY <1>2, <1>a DEF Queues, Unsent
    <2>2. /\ send' \in Seq(0 .. MaxPpp) /\ Len(send') = Len(send)
          /\ DOMAIN send' = DOMAIN send
          /\ \A i \in 1 .. (Len(send) - 1) : send'[i] = send[i + 1]
          /\ send'[Len(send)] = send[1]
      BY <1>r, <2>1
    <2>3. PppAges' /\ PppInOrder'
      BY <1>a, <1>t, <2>1 DEF PppAges, PppInOrder
    <2>4. held'.buf \in {held.buf, buf}
      BY <2>1
    <2>5. WakeupArmed'
      BY <2>1 DEF WakeupArmed
    <2>6. QueuedOwned'
      <3>1. ASSUME NEW i \in DOMAIN send', send'[i] # Ctl
            PROVE  /\ send'[i] = inflight
                   /\ \A j \in DOMAIN send' : send'[j] = send'[i] => j = i
        <4> DEFINE from(k) == IF k = Len(send) THEN 1 ELSE k + 1
        <4>1. \A k \in DOMAIN send' : /\ from(k) \in DOMAIN send /\ send'[k] = send[from(k)]
                                      /\ \A l \in DOMAIN send' : from(k) = from(l) => k = l
          <5>1. ASSUME NEW k \in DOMAIN send' PROVE from(k) \in DOMAIN send /\ send'[k] = send[from(k)]
            <6>1. CASE k = Len(send)
              BY <1>c, <2>2, <6>1
            <6>2. CASE k # Len(send)
              <7>1. k \in 1 .. (Len(send) - 1) /\ k + 1 \in DOMAIN send
                BY <1>c, <2>2, <6>2
              <7> QED  BY <2>2, <6>2, <7>1
            <6> QED  BY <6>1, <6>2
          <5>2. ASSUME NEW k \in DOMAIN send', NEW l \in DOMAIN send', from(k) = from(l)
                PROVE  k = l
            <6>1. k \in 1 .. Len(send) /\ l \in 1 .. Len(send)
              BY <1>c, <2>2
            <6> QED  BY <1>c, <5>2, <6>1
          <5> QED  BY <5>1, <5>2
        <4> HIDE DEF from
        <4> QED  BY <1>t, <3>1, <4>1 DEF QueuedOwned
      <3> QED  BY <2>1, <3>1 DEF QueuedOwned
    <2>7. HeldQueued'
      <3>1. \A k \in DOMAIN send : \E i \in DOMAIN send' : send'[i] = send[k]
        <4> TAKE k \in DOMAIN send
        <4>1. CASE k = 1
          <5>1. Len(send) \in DOMAIN send'
            BY <1>c, <2>2
          <5> QED  BY <2>2, <4>1, <5>1
        <4>2. CASE k # 1
          <5>1. k - 1 \in DOMAIN send' /\ send'[k - 1] = send[k]
            BY <1>c, <2>2, <4>2
          <5> QED  BY <5>1
        <4> QED  BY <4>1, <4>2
      <3>2. CASE held' = held
        BY <1>t, <3>1, <3>2 DEF HeldQueued
      <3>3. CASE held'.buf = buf
        BY <1>c, <3>1, <3>3 DEF HeldQueued
      <3> QED  BY <2>1, <3>2, <3>3
    <2>8. HeldMessage' /\ CtlAges' /\ CtlInOrder'
      <3>1. CASE held' = held
        <4>1. CtlAges' /\ CtlInOrder'
          BY <1>a, <1>t, <2>1, <3>1, CtlKept
        <4> QED  BY <1>t, <2>1, <3>1, <4>1 DEF HeldMessage, Unsent
      <3>2. CASE /\ held = Nothing /\ (buf = Ctl => Unsent)
                 /\ held' = [buf |-> buf, msg |-> Message(buf, tx_buf)]
        <4>1. held'.buf = buf /\ held'.msg = IF buf = Ctl THEN tx_buf.msg ELSE buf
          BY <3>2 DEF Message
        <4>2. CASE buf = Ctl
          <5>1. Unsent' /\ Unsent
            BY <2>1, <3>2, <4>2 DEF Unsent
          <5>2. /\ tx_buf.msg < 0 /\ tx_buf.msg + count.ctl = 0
                /\ \A i \in DOMAIN ctlWire : tx_buf.msg <= ctlWire[i] /\ tx_buf.msg < ctlWire[i]
            BY <1>t, <5>1 DEF CtlAges
          <5>3. HeldMessage'
            BY <1>b, <4>1, <4>2, <5>1, <5>2 DEF HeldMessage
          <5> QED  BY <1>a, <1>b, <1>t, <2>1, <4>1, <4>2, <5>2, <5>3 DEF CtlAges, CtlInOrder
        <4>3. CASE buf # Ctl
          <5>1. CtlAges' /\ CtlInOrder'
            BY <1>a, <1>t, <2>1, <4>1, <4>3, CtlKept
          <5> QED  BY <4>1, <4>3, <5>1 DEF HeldMessage
        <4> QED  BY <4>2, <4>3
      <3> QED  BY <2>1, <3>1, <3>2
    <2>9. StreamTypes'
      <3>1. held' \in {Nothing} \cup [buf : 0 .. MaxPpp, msg : -MaxCtl .. MaxPpp]
        <4>1. Message(buf, tx_buf) \in -MaxCtl .. MaxPpp
          BY <1>b, <1>c DEF Message
        <4> QED  BY <1>b, <1>c, <2>1, <4>1
      <3> QED  BY <1>a, <1>b, <2>1, <2>2, <3>1 DEF StreamTypes
    <2> QED  BY <1>g, <2>3, <2>5, <2>6, <2>7, <2>8, <2>9 DEF StreamInv
  <1>3. CASE answer \notin {"okay", "block"} /\ Fails(Tail(send), buf, tx_buf)
    <2>1. /\ send' = Tail(send) /\ wire' = wire /\ ctlWire' = ctlWire /\ tx_buf' = tx_buf
          /\ \/ held' = Nothing
             \/ held' = held /\ held # Nothing /\ held.buf # buf
             \/ held' = held /\ buf = Ctl /\ ~Unsent
      BY <1>3 DEF Fails, Unsent
    <2>2. held' = Nothing \/ (held' = held /\ held # Nothing /\ held.buf # buf)
      \* an empty control buffer is not held back, nor is a frame then
      <3>1. CASE held' = held /\ buf = Ctl /\ ~Unsent
        <4>1. held.buf # Ctl
          BY <1>t, <3>1 DEF HeldMessage
        <4> QED  BY <3>1, <4>1
      <3> QED  BY <2>1, <3>1
    <2>3. HeldQueued'
      <3>1. CASE held' = Nothing
        BY <3>1 DEF HeldQueued
      <3>2. CASE held' = held /\ held # Nothing /\ held.buf # buf
        <4>1. PICK i \in DOMAIN send : send[i] = held.buf
          BY <1>t, <3>2 DEF HeldQueued
        <4>2. i # 1
          BY <1>c, <3>2, <4>1
        <4>3. i - 1 \in DOMAIN Tail(send) /\ Tail(send)[i - 1] = held.buf
          BY ONLY <1>h, <4>1, <4>2, i \in DOMAIN send
        <4>4. send' = Tail(send) /\ held' = held
          BY ONLY <2>1, <3>2
        <4>5. \E j \in DOMAIN send' : send'[j] = held'.buf
          BY ONLY <4>3, <4>4, Zenon
        <4> QED  BY ONLY <4>5, Zenon DEF HeldQueued
      <3> QED  BY <2>2, <3>1, <3>2
    <2>4. held'.buf = Ctl => held' = held
      BY <1>b, <2>2
    <2>5. CtlAges' /\ CtlInOrder'
      BY <1>a, <1>t, <2>1, <2>4, CtlKept
    <2>6. HeldMessage'
      <3>1. CASE held' = held
        BY <1>t, <2>1, <3>1 DEF HeldMessage, Unsent
      <3>2. CASE held' = Nothing
        BY <1>b, <3>2 DEF HeldMessage
      <3> QED  BY <2>2, <3>1, <3>2
    <2>7. PppAges' /\ PppInOrder'
      <3>1. CASE buf = Ctl
        <4>1. inflight' = inflight
          BY <1>a, <3>1
        <4> QED  BY <1>a, <1>t, <2>1, <4>1 DEF PppAges, PppInOrder
      <3>2. CASE buf # Ctl
        <4>1. inflight' = 0 /\ inflight # 0
          BY <1>3, <1>a, <1>b, <1>d, <3>2
        <4> QED  BY <1>a, <1>t, <2>1, <4>1, FrameDone
      <3> QED  BY <3>1, <3>2
    <2>8. StreamTypes'
      <3>1. held' \in {Nothing} \cup [buf : 0 .. MaxPpp, msg : -MaxCtl .. MaxPpp]
        BY <1>b, <2>2
      <3> QED  BY <1>3, <1>a, <1>b, <1>k, <2>1, <3>1 DEF StreamTypes
    <2> QED  BY <1>3, <1>g, <1>k, <2>1, <2>3, <2>5, <2>6, <2>7, <2>8 DEF StreamInv
  <1> QED  BY <1>e, <1>1, <1>2, <1>3

-----------------------------------------------------------------------------
(* The theorems.                                                           *)

\* Every step of the stream keeps the invariant.
LEMMA NextKeeps ==
    ASSUME StreamInv, [Next]_vars
    PROVE  StreamInv'
  <1>1. CASE \E answer \in Answers : CtlSend(answer)
    BY <1>1, CtlSendKeeps
  <1>2. CASE PppSend
    BY <1>2, PppSendKeeps
  <1>3. CASE PppFlushReturns \/ SendContStart \/ SendContDone
    BY <1>3, QuietKeeps
  <1>4. CASE \E answer \in Answers : PppFlush(answer)
    BY <1>4, PppFlushKeeps
  <1>5. CASE \E answer \in Answers : SendContTurn(answer)
    BY <1>5, SendContTurnKeeps
  <1>6. CASE UNCHANGED vars
    <2>1. Unsent' <=> Unsent
      BY <1>6 DEF vars, sslVars, Unsent
    <2> QED
      BY <1>6, <2>1 DEF StreamInv, vars, sslVars, pppVars, StreamTypes, StreamFlags,
         WakeupArmed, QueuedOwned, HeldQueued, HeldMessage, CtlAges, CtlInOrder,
         PppAges, PppInOrder
  <1> QED  BY <1>1, <1>2, <1>3, <1>4, <1>5, <1>6 DEF Next, Continues

\* sstp_stream_send, sstp_send_cont and ios-pppd.c's flush keep the send list, the
\* write event, the buffer of the frame under way and the queue of frames consistent
\* with each other, whatever SSL_write answers.
THEOREM StreamInvariant == Spec => []StreamInv
  <1>1. Init => StreamInv
    BY InitStream
  <1>2. StreamInv /\ [Next]_vars => StreamInv'
    BY NextKeeps
  <1> QED  BY <1>1, <1>2, PTL DEF Spec

\* The list of send operations never holds more than the control messages and
\* one frame.
THEOREM TypeCorrect == Spec => []TypeOK
  <1>1. StreamInv => TypeOK
    <2> SUFFICES ASSUME StreamInv PROVE TypeOK
      OBVIOUS
    <2>1. StreamTypes /\ StreamFlags
      BY DEF StreamInv
    <2>2. Len(send) <= MaxCtl + 1
      <3>1. Len(send) <= count.ctl + (IF inflight = 0 THEN 0 ELSE 1) /\ Len(send) \in Nat
        BY <2>1, LenProperties DEF StreamTypes
      <3>2. count.ctl \in 0 .. MaxCtl
        BY <2>1, TypeFacts
      <3> QED  BY <3>1, <3>2, StreamAssumption
    <2> QED  BY <2>1, <2>2 DEF TypeOK, StreamTypes, StreamFlags
  <1> QED  BY <1>1, StreamInvariant, PTL

\* No queued operation is forgotten: outside sstp_send_cont's loop the write
\* event is pending.
THEOREM SendWakeup == Spec => []WakeupArmed
  <1>1. StreamInv => WakeupArmed
    BY DEF StreamInv
  <1> QED  BY <1>1, StreamInvariant, PTL

\* A frame's buffer is in the list only while ios-pppd.c keeps it.
THEOREM BufferOwned == Spec => []QueuedOwned
  <1>1. StreamInv => QueuedOwned
    BY DEF StreamInv
  <1> QED  BY <1>1, StreamInvariant, PTL

\* What SSL_write holds back can always be repeated.
THEOREM RetryPossible == Spec => []HeldQueued
  <1>1. StreamInv => HeldQueued
    BY DEF StreamInv
  <1> QED  BY <1>1, StreamInvariant, PTL

\* Frames reach the wire in the order they were given, none twice.
THEOREM FramesInOrder == Spec => []PppInOrder
  <1>1. StreamInv => PppInOrder
    BY DEF StreamInv
  <1> QED  BY <1>1, StreamInvariant, PTL

\* Control messages reach the wire in order although they share a buffer.
THEOREM ControlInOrder == Spec => []CtlInOrder
  <1>1. StreamInv => CtlInOrder
    BY DEF StreamInv
  <1> QED  BY <1>1, StreamInvariant, PTL

-----------------------------------------------------------------------------
(* The stream implements FrameLink.                                        *)

\* A sequence with a new head.
LEMMA ConsFacts ==
    ASSUME NEW S, NEW e \in S, NEW s \in Seq(S)
    PROVE  /\ <<e>> \o s # << >>
           /\ Head(<<e>> \o s) = e /\ Tail(<<e>> \o s) = s
           /\ \A x \in S : <<e>> \o Append(s, x) = Append(<<e>> \o s, x)
  <1>1. <<e>> \in Seq(S) /\ Len(<<e>>) = 1 /\ <<e>>[1] = e
    OBVIOUS
  <1>2. /\ <<e>> \o s \in Seq(S)
        /\ Len(<<e>> \o s) = 1 + Len(s)
        /\ \A i \in 1 .. (1 + Len(s)) :
             (<<e>> \o s)[i] = IF i <= 1 THEN e ELSE s[i - 1]
    BY <1>1, ConcatProperties
  <1>3. Len(s) \in Nat /\ Len(<< >>) = 0
    BY LenProperties
  <1> DEFINE c == <<e>> \o s
  <1>4. c \in Seq(S) /\ Len(c) = 1 + Len(s)
        /\ \A i \in 1 .. (1 + Len(s)) : c[i] = IF i <= 1 THEN e ELSE s[i - 1]
    BY <1>2
  <1> HIDE DEF c
  <1>5. c # << >>
    BY <1>3, <1>4
  <1>6. /\ Tail(c) \in Seq(S) /\ Len(Tail(c)) = Len(c) - 1
        /\ \A i \in 1 .. (Len(c) - 1) : Tail(c)[i] = c[i + 1]
        /\ Head(c) = c[1]
    BY <1>4, <1>5, TailFacts
  <1>7. Head(c) = e
    BY <1>3, <1>4, <1>6
  <1>8. Tail(c) = s
    <2>1. Len(Tail(c)) = Len(s)
      BY <1>3, <1>4, <1>6
    <2>2. \A i \in 1 .. Len(s) : Tail(c)[i] = s[i]
      BY <1>3, <1>4, <1>6
    <2> QED  BY <1>6, <2>1, <2>2, SeqEqual
  <1>9. ASSUME NEW x \in S
        PROVE  <<e>> \o Append(s, x) = Append(<<e>> \o s, x)
    <2>1. Append(s, x) = s \o <<x>> /\ Append(<<e>> \o s, x) = (<<e>> \o s) \o <<x>>
      BY <1>2, AppendIsConcat
    <2>2. <<x>> \in Seq(S)
      OBVIOUS
    <2> QED  BY <1>1, <2>1, <2>2, ConcatAssociative
  <1> QED  BY <1>5, <1>7, <1>8, <1>9 DEF c

\* A sequence is its head and its tail.
LEMMA UnconsFacts ==
    ASSUME NEW S, NEW s \in Seq(S), s # << >>
    PROVE  <<Head(s)>> \o Tail(s) = s
  <1>1. /\ Tail(s) \in Seq(S)
        /\ Len(s) \in Nat \ {0}
        /\ Len(Tail(s)) = Len(s) - 1
        /\ \A i \in 1 .. (Len(s) - 1) : Tail(s)[i] = s[i + 1]
        /\ \A i \in 1 .. Len(s) : s[i] \in S
        /\ Head(s) = s[1]
    BY TailFacts
  <1>2. <<Head(s)>> \in Seq(S) /\ Len(<<Head(s)>>) = 1 /\ <<Head(s)>>[1] = s[1]
    BY <1>1
  <1> DEFINE c == <<Head(s)>> \o Tail(s)
  <1>3. /\ c \in Seq(S) /\ Len(c) = 1 + Len(Tail(s))
        /\ \A i \in 1 .. (1 + Len(Tail(s))) :
             c[i] = IF i <= 1 THEN <<Head(s)>>[i] ELSE Tail(s)[i - 1]
    BY <1>1, <1>2, ConcatProperties
  <1> HIDE DEF c
  <1>4. Len(c) = Len(s)
    BY <1>1, <1>3
  <1>5. ASSUME NEW i \in 1 .. Len(c) PROVE c[i] = s[i]
    <2>1. CASE i = 1
      BY <1>1, <1>2, <1>3, <2>1
    <2>2. CASE i # 1
      <3>1. i - 1 \in 1 .. (Len(s) - 1) /\ ~(i <= 1) /\ i \in 1 .. (1 + Len(Tail(s)))
        BY <1>1, <1>4, <2>2
      <3>2. c[i] = Tail(s)[i - 1] /\ Tail(s)[i - 1] = s[(i - 1) + 1]
        BY <1>1, <1>3, <3>1
      <3>3. (i - 1) + 1 = i
        BY <1>4
      <3> QED  BY <3>2, <3>3
    <2> QED  BY <2>1, <2>2
  <1>6. c = s
    BY <1>3, <1>4, <1>5, SeqEqual
  <1> QED  BY <1>6 DEF c

\* The refinement mapping: the frame in flight, then those in the queue.
Waiting == IF inflight = 0 THEN pppq ELSE <<inflight>> \o pppq
Broken == failure # "none"

LinkStutter == Waiting' = Waiting /\ wire' = wire /\ Broken' = Broken
LinkAccept ==
    /\ \E f \in 1 .. MaxPpp : Waiting' = Append(Waiting, f)
    /\ wire' = wire /\ Broken' = Broken
LinkWrite ==
    /\ Waiting # << >> /\ wire' = Append(wire, Head(Waiting))
    /\ Waiting' = Tail(Waiting) /\ Broken' = Broken
LinkBreak == ~Broken /\ Broken' /\ Waiting' = Waiting /\ wire' = wire
LinkDrop == Waiting # << >> /\ Waiting' = Tail(Waiting) /\ Broken' /\ wire' = wire

\* These are FrameLink's steps under the mapping.
LEMMA LinkSteps ==
    ASSUME LinkStutter \/ LinkAccept \/ LinkWrite \/ LinkBreak \/ LinkDrop
    PROVE  [Link!Next]_(Link!linkVars)
  <1> USE DEF Waiting, Broken
  <1>1. CASE LinkStutter
    BY <1>1 DEF LinkStutter, Link!linkVars
  <1>2. CASE LinkAccept
    BY <1>2 DEF LinkAccept, Link!Next, Link!Accept
  <1>3. CASE LinkWrite
    BY <1>3 DEF LinkWrite, Link!Next, Link!Write
  <1>4. CASE LinkBreak
    BY <1>4 DEF LinkBreak, Link!Next, Link!Break
  <1>5. CASE LinkDrop
    BY <1>5 DEF LinkDrop, Link!Next, Link!Drop
  <1> QED  BY <1>1, <1>2, <1>3, <1>4, <1>5

\* A control message changes nothing the link shows, unless it breaks it.
LEMMA CtlSendLink ==
    ASSUME StreamInv, NEW answer \in Answers, CtlSend(answer)
    PROVE  LinkStutter \/ LinkBreak
  <1> DEFINE txb == [msg |-> -(count.ctl + 1), sent |-> FALSE]
  <1>t. StreamTypes /\ StreamFlags /\ WakeupArmed /\ HeldQueued
    BY DEF StreamInv
  <1>a. /\ Idle /\ stream_send(send, Ctl, txb, answer)
        /\ pppq' = pppq /\ inflight' = inflight
    BY DEF CtlSend, pppVars
  <1>b. count.ctl \in Nat /\ txb.msg = -(count.ctl + 1)
    BY <1>t, TypeFacts, StreamAssumption
  <1>d. ~armed => held = Nothing
    <2> SUFFICES ASSUME ~armed PROVE held = Nothing
      OBVIOUS
    <2>1. send = << >>
      BY <1>a, <1>t DEF Idle, WakeupArmed
    <2>2. DOMAIN send = {}
      BY <2>1
    <2> QED  BY <2>2, <1>t DEF HeldQueued
  <1>c. ~(txb.msg > 0)
    BY <1>b
  <1>w. Waiting' = Waiting
    BY <1>a DEF Waiting
  <1>e. \/ Writes(send, Ctl, txb)
        \/ Queues(send, Ctl, txb)
        \/ Fails(send, Ctl, txb)
    BY <1>a, <1>t, SendOutcomes
  <1> HIDE DEF txb
  <1>f. wire' = wire
    BY <1>c, <1>d, <1>e DEF Writes, Queues, Fails, Message
  <1>g. failure' = failure \/ (failure = "none" /\ failure' # "none")
    BY <1>e DEF Writes, Queues, Fails
  <1> QED  BY <1>w, <1>f, <1>g DEF LinkStutter, LinkBreak, Broken

\* A frame given to the PPP transmitter is accepted by the link.
LEMMA PppSendLink ==
    ASSUME StreamInv, PppSend
    PROVE  LinkAccept
  <1> DEFINE f == count.ppp + 1
  <1>t. StreamTypes
    BY DEF StreamInv
  <1>1. /\ wire' = wire /\ failure' = failure /\ inflight' = inflight
        /\ count.ppp < MaxPpp /\ pppq' = Append(pppq, f)
    BY DEF PppSend, PutLast, sslVars
  <1>2. f \in 1 .. MaxPpp
    BY <1>t, <1>1, TypeFacts, StreamAssumption
  <1>3. pppq \in Seq(1 .. MaxPpp) /\ inflight \in 0 .. MaxPpp
    BY <1>t DEF StreamTypes
  <1> HIDE DEF f
  <1>4. Waiting' = Append(Waiting, f)
    <2>1. CASE inflight = 0
      BY <1>1, <2>1 DEF Waiting
    <2>2. CASE inflight # 0
      <3>1. inflight \in 1 .. MaxPpp
        BY <1>3, <2>2, StreamAssumption
      <3>2. <<inflight>> \o Append(pppq, f) = Append(<<inflight>> \o pppq, f)
        BY <1>2, <1>3, <3>1, ConsFacts
      <3> QED  BY <1>1, <2>2, <3>2 DEF Waiting
    <2> QED  BY <2>1, <2>2
  <1> QED  BY <1>1, <1>2, <1>4 DEF LinkAccept, Broken

\* A flush writes the frame under way, drops it, or leaves it queued.
LEMMA PppFlushLink ==
    ASSUME StreamInv, NEW answer \in Answers, PppFlush(answer)
    PROVE  LinkStutter \/ LinkWrite \/ LinkDrop
  <1> DEFINE f == Head(pppq)
  <1>t. StreamTypes /\ StreamFlags /\ QueuedOwned /\ HeldQueued
    BY DEF StreamInv
  <1>a. /\ inflight = 0 /\ pppq # << >>
        /\ stream_send(send, f, tx_buf, answer)
        /\ pppq' = Tail(pppq)
        /\ inflight' = IF answer = "block" THEN f ELSE 0
    BY DEF PppFlush, CanFlush
  <1>p. pppq \in Seq(1 .. MaxPpp)
    BY <1>t DEF StreamTypes
  <1>b. f \in 1 .. MaxPpp /\ <<f>> \o Tail(pppq) = pppq
    <2>1. f \in 1 .. MaxPpp
      BY <1>a, <1>p, HeadTailProperties
    <2>2. <<f>> \o Tail(pppq) = pppq
      BY <1>a, <1>p, UnconsFacts
    <2> QED  BY <2>1, <2>2
  <1>d. held = Nothing \/ held.buf = Ctl
    BY <1>a, <1>t DEF HeldQueued, QueuedOwned, Ctl
  <1>e. \/ answer = "okay" /\ Writes(send, f, tx_buf)
        \/ answer = "block" /\ Queues(send, f, tx_buf)
        \/ answer \notin {"okay", "block"} /\ Fails(send, f, tx_buf)
    BY <1>a, <1>t, SendOutcomes
  <1>w. Waiting = pppq
    BY <1>a DEF Waiting
  <1> HIDE DEF f
  <1>1. CASE answer = "okay" /\ Writes(send, f, tx_buf)
    <2>1. wire' = Append(wire, f) /\ failure' = failure /\ inflight' = 0
      BY <1>1, <1>a, <1>b, <1>d DEF Writes, Message, Ctl
    <2> QED  BY <1>a, <1>w, <2>1 DEF LinkWrite, Waiting, Broken, f
  <1>2. CASE answer = "block" /\ Queues(send, f, tx_buf)
    <2>1. wire' = wire /\ failure' = failure /\ inflight' = f /\ f # 0
      BY <1>2, <1>a, <1>b DEF Queues
    <2> QED  BY <1>a, <1>b, <1>w, <2>1 DEF LinkStutter, Waiting, Broken
  <1>3. CASE answer \notin {"okay", "block"} /\ Fails(send, f, tx_buf)
    <2>1. wire' = wire /\ failure' # "none" /\ inflight' = 0
      BY <1>3, <1>a DEF Fails
    <2> QED  BY <1>a, <1>w, <2>1 DEF LinkDrop, Waiting, Broken
  <1> QED  BY <1>e, <1>1, <1>2, <1>3

\* A turn of sstp_send_cont completes the frame, drops it, or breaks the link.
LEMMA SendContTurnLink ==
    ASSUME StreamInv, NEW answer \in Answers, SendContTurn(answer)
    PROVE  LinkStutter \/ LinkWrite \/ LinkBreak \/ LinkDrop
  <1> DEFINE buf == Head(send)
  <1>t. StreamTypes /\ StreamFlags /\ QueuedOwned /\ HeldMessage /\ CtlAges
    BY DEF StreamInv
  <1>a. /\ send # << >>
        /\ stream_send(Tail(send), buf, tx_buf, answer)
        /\ inflight' = IF buf # Ctl /\ answer # "block" THEN 0 ELSE inflight
        /\ pppq' = pppq
    BY DEF SendContTurn, CompleteFlushes
  <1>b. /\ send \in Seq(0 .. MaxPpp) /\ pppq \in Seq(1 .. MaxPpp)
        /\ inflight \in 0 .. MaxPpp
    BY <1>t DEF StreamTypes
  <1>c. buf = send[1] /\ 1 \in DOMAIN send /\ buf \in 0 .. MaxPpp
    <2>1. /\ Len(send) \in Nat \ {0} /\ DOMAIN send = 1 .. Len(send)
          /\ buf = send[1]
          /\ \A i \in 1 .. Len(send) : send[i] \in 0 .. MaxPpp
      BY <1>a, <1>b, TailFacts
    <2>2. 1 \in 1 .. Len(send)
      BY <2>1
    <2> QED  BY <2>1, <2>2
  <1>d. buf # Ctl => buf = inflight
    BY <1>c, <1>t DEF QueuedOwned
  <1>e. \/ answer = "okay" /\ Writes(Tail(send), buf, tx_buf)
        \/ answer = "block" /\ Queues(Tail(send), buf, tx_buf)
        \/ answer \notin {"okay", "block"} /\ Fails(Tail(send), buf, tx_buf)
    BY <1>a, <1>t, SendOutcomes
  <1>i. held.msg \in Int /\ held.buf \in Int /\ tx_buf.msg \in Int
    BY <1>t, TypeFacts, StreamAssumption
  <1> HIDE DEF buf
  <1>1. CASE buf = Ctl
    <2>1. Waiting' = Waiting
      BY <1>1, <1>a DEF Waiting
    <2>2. wire' = wire
      <3>1. CASE Writes(Tail(send), buf, tx_buf)
        <4>1. Unsent /\ (held = Nothing \/ held.buf = Ctl)
          BY <1>1, <3>1 DEF Writes, Unsent
        <4>2. held # Nothing => ~(held.msg > 0)
          BY <1>i, <1>t, <4>1 DEF HeldMessage
        <4>3. ~(tx_buf.msg > 0)
          BY <1>i, <1>t, <4>1 DEF CtlAges
        <4> QED  BY <1>1, <3>1, <4>2, <4>3 DEF Writes, Message
      <3> QED  BY <1>e, <3>1 DEF Queues, Fails
    <2>3. failure' = failure \/ (failure = "none" /\ failure' # "none")
      BY <1>e DEF Writes, Queues, Fails
    <2> QED  BY <2>1, <2>2, <2>3 DEF LinkStutter, LinkBreak, Broken
  <1>2. CASE buf # Ctl
    <2>1. buf = inflight /\ inflight \in 1 .. MaxPpp /\ inflight # 0
      BY <1>2, <1>b, <1>d, StreamAssumption DEF Ctl
    <2>2. /\ Waiting = <<inflight>> \o pppq /\ Waiting # << >>
          /\ Head(Waiting) = inflight /\ Tail(Waiting) = pppq
      BY <1>b, <2>1, ConsFacts DEF Waiting
    <2>3. CASE answer = "okay" /\ Writes(Tail(send), buf, tx_buf)
      <3>1. held # Nothing => held.msg = inflight
        BY <1>t, <2>1, <2>3, StreamAssumption DEF HeldMessage, Writes
      <3>2. wire' = Append(wire, inflight) /\ failure' = failure /\ inflight' = 0
        BY <1>2, <1>a, <2>1, <2>3, <3>1 DEF Writes, Message
      <3>3. Waiting' = pppq
        BY <1>a, <3>2 DEF Waiting
      <3> QED  BY <2>2, <3>2, <3>3 DEF LinkWrite, Broken
    <2>4. CASE answer = "block" /\ Queues(Tail(send), buf, tx_buf)
      BY <1>a, <2>4 DEF LinkStutter, Queues, Waiting, Broken
    <2>5. CASE answer \notin {"okay", "block"} /\ Fails(Tail(send), buf, tx_buf)
      <3>1. wire' = wire /\ failure' # "none" /\ inflight' = 0
        BY <1>2, <1>a, <2>5 DEF Fails
      <3>2. Waiting' = pppq
        BY <1>a, <3>1 DEF Waiting
      <3> QED  BY <2>2, <3>1, <3>2 DEF LinkDrop, Broken
    <2> QED  BY <1>e, <2>3, <2>4, <2>5
  <1> QED  BY <1>1, <1>2

\* The other steps are not seen on the link.
LEMMA OtherLink ==
    ASSUME PppFlushReturns \/ SendContStart \/ SendContDone \/ UNCHANGED vars
    PROVE  LinkStutter
  <1>1. wire' = wire /\ failure' = failure /\ inflight' = inflight /\ pppq' = pppq
    BY DEF PppFlushReturns, SendContStart, SendContDone, vars, sslVars, pppVars
  <1> QED  BY <1>1 DEF LinkStutter, Waiting, Broken

\* Towards PPP the two queues are one FIFO: every step of the stream and of
\* ios-pppd.c's transmit queue is a step of FrameLink, or changes nothing it
\* shows.
THEOREM StreamIsLink == Spec => Link!SafeSpec
  <1>1. Init => Link!Init
    BY DEF Init, Link!Init
  <1>2. ASSUME StreamInv, [Next]_vars
        PROVE  [Link!Next]_(Link!linkVars)
    <2>1. LinkStutter \/ LinkAccept \/ LinkWrite \/ LinkBreak \/ LinkDrop
      BY <1>2, CtlSendLink, PppSendLink, PppFlushLink, SendContTurnLink, OtherLink
         DEF Next, Continues
    <2> QED  BY <2>1, LinkSteps
  <1> QED  BY <1>1, <1>2, StreamInvariant, PTL DEF Spec, Link!SafeSpec

=============================================================================
