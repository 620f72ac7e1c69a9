------------------------- MODULE SstpSessionProofs -------------------------
(***************************************************************************)
(* Proofs about one SSTP connection, SstpSession: the receiver is armed,   *)
(* nothing but the HTTP request goes to a server that is not trusted, and  *)
(* the echo counter accuses only a silent server.                          *)
(***************************************************************************)
EXTENDS SstpSession, SequenceTheorems, TLAPS

-----------------------------------------------------------------------------
(* The inductive invariant.                                                *)

Has(q, m) == \E i \in DOMAIN q : q[i] = m
Only(q, m) == \A i \in DOMAIN q : q[i] = m

Starting == phase \in {"tcp", "tls", "hello", "http"}
Calling == phase \in {"control", "ppp", "up"}

\* The HTTP request is in the send queue only while the session waits for it
\* to be written, alone.
HelloAlone ==
    /\ phase \in {"tcp", "tls", "http"} => txq = << >>
    /\ phase = "hello" => txq = <<"hello">>
    /\ Calling => ~Has(txq, "hello")

\* The receiver of the phase is armed.
Listens ==
    /\ phase = "http" => recv = "http"
    /\ Calling => recv = "sstp"

\* System trust is evaluated before the HTTP request, the rest before the
\* Connect-Request; a server that is not trusted gets the HTTP request only.
TrustByPhase ==
    /\ phase \in {"hello", "http"} => SystemTrusts
    /\ Calling => Trusted
    /\ ~Trusted => Only(txq, "hello") /\ Only(c2s, "hello")

\* While a call is under way and the server answers, an unanswered Echo-Request or its answer is on
\* its way, or it was overwritten in tx_buf by a message whose own operation
\* will find nothing to write.
EchoPending ==
    echo > 0 /\ srv = "up" /\ Calling =>
        \/ Has(txq, "EchoReq") \/ Has(txq, "spent")
        \/ Has(c2s, "EchoReq") \/ Has(s2c, "EchoRep")

SessionInv ==
    /\ TypeOK /\ HelloAlone /\ Listens /\ TrustByPhase
    /\ Starting => echo = 0
    /\ EchoPending /\ EchoAbortOnlyIfSilent

-----------------------------------------------------------------------------
(* Queues.                                                                 *)

\* A queue after a message was added.
LEMMA HasAppend ==
    ASSUME NEW S, NEW q \in Seq(S), NEW e \in S
    PROVE  /\ Append(q, e) \in Seq(S)
           /\ Has(Append(q, e), e)
           /\ \A m : m # e => (Has(Append(q, e), m) <=> Has(q, m))
           /\ \A m : Has(q, m) => Has(Append(q, e), m)
           /\ \A m : Only(q, m) /\ e = m => Only(Append(q, e), m)
  <1> DEFINE t == Append(q, e)
  <1>1. /\ t \in Seq(S) /\ Len(t) = Len(q) + 1
        /\ \A i \in 1 .. Len(q) : t[i] = q[i]
        /\ t[Len(q) + 1] = e
    BY AppendProperties
  <1>2. DOMAIN q = 1 .. Len(q) /\ Len(q) \in Nat
    BY LenProperties
  <1>3. DOMAIN t = 1 .. Len(t)
    BY <1>1, LenProperties
  <1> HIDE DEF t
  <1>4. ASSUME NEW i \in DOMAIN t
        PROVE  (i \in DOMAIN q /\ t[i] = q[i]) \/ t[i] = e
    <2>1. i \in 1 .. Len(q) \/ i = Len(q) + 1
      BY <1>1, <1>2, <1>3
    <2> QED  BY <1>1, <1>2, <2>1
  <1>5. \A i \in DOMAIN q : i \in DOMAIN t /\ t[i] = q[i]
    BY <1>1, <1>2, <1>3
  <1>6. Len(q) + 1 \in DOMAIN t
    BY <1>1, <1>2, <1>3
  <1>7. /\ t \in Seq(S) /\ Has(t, e)
        /\ \A m : m # e => (Has(t, m) <=> Has(q, m))
        /\ \A m : Has(q, m) => Has(t, m)
        /\ \A m : Only(q, m) /\ e = m => Only(t, m)
    BY <1>1, <1>4, <1>5, <1>6 DEF Has, Only
  <1> QED  BY <1>7 DEF t

\* A queue without its head.
LEMMA HasTail ==
    ASSUME NEW S, NEW q \in Seq(S), q # << >>
    PROVE  /\ Tail(q) \in Seq(S) /\ Head(q) \in S
           /\ \A m : Has(q, m) <=> Head(q) = m \/ Has(Tail(q), m)
           /\ \A m : Only(q, m) => Head(q) = m /\ Only(Tail(q), m)
  <1>1. /\ Tail(q) \in Seq(S) /\ Head(q) \in S
        /\ Len(Tail(q)) = Len(q) - 1
        /\ \A i \in 1 .. Len(Tail(q)) : Tail(q)[i] = q[i + 1]
    BY HeadTailProperties
  <1>2. DOMAIN q = 1 .. Len(q) /\ Len(q) \in Nat \ {0} /\ Head(q) = q[1]
    BY LenProperties, EmptySeq
  <1>3. DOMAIN Tail(q) = 1 .. Len(Tail(q))
    BY <1>1, LenProperties
  <1>4. \A i \in DOMAIN Tail(q) : i + 1 \in DOMAIN q /\ Tail(q)[i] = q[i + 1]
    BY <1>1, <1>2, <1>3
  <1>5. \A i \in DOMAIN q : \/ i = 1
                            \/ i - 1 \in DOMAIN Tail(q) /\ Tail(q)[i - 1] = q[i]
    BY <1>1, <1>2, <1>3
  <1>6. 1 \in DOMAIN q
    BY <1>2
  <1> QED  BY <1>1, <1>2, <1>4, <1>5, <1>6 DEF Has, Only

\* Nothing is on an empty queue.
LEMMA HasEmpty == \A m : ~Has(<< >>, m) /\ Only(<< >>, m)
  BY DEF Has, Only

\* A queue in which an operation was given another message.
LEMMA HasExcept ==
    ASSUME NEW S, NEW q \in Seq(S), NEW i \in DOMAIN q, NEW m \in S
    PROVE  /\ [q EXCEPT ![i] = m] \in Seq(S)
           /\ \A x : Has([q EXCEPT ![i] = m], x) => Has(q, x) \/ x = m
  <1>1. [q EXCEPT ![i] = m] \in Seq(S)
    <2>1. i \in 1 .. Len(q)
      BY LenProperties
    <2> QED  BY <2>1, ExceptSeq
  <1>2. \A x : Has([q EXCEPT ![i] = m], x) => Has(q, x) \/ x = m
    BY DEF Has
  <1> QED  BY <1>1, <1>2

\* What queueing m does to the operations.
LEMMA QueuesFacts ==
    ASSUME txq \in Seq(Ops), NEW m \in Msgs, Queues(m)
    PROVE  /\ txq' \in Seq(Ops)
           /\ Has(txq', m) \/ Has(txq', "spent")
           /\ \A x : Has(txq, x) => Has(txq', x) \/ Has(txq', "spent")
           /\ Has(txq', "hello") => Has(txq, "hello") \/ m = "hello"
           /\ m = "hello" => txq' = Append(txq, m)
  <1>1. m \in Ops /\ "spent" \in Ops
    BY DEF Ops
  <1>2. CASE txq' = Append(txq, m)
    BY <1>1, <1>2, HasAppend
  <1>3. ASSUME NEW i \in DOMAIN txq, NEW written \in {m, txq[i]}, Shares(m), Shares(txq[i]),
               txq' = Append([txq EXCEPT ![i] = written], "spent")
        PROVE  /\ txq' \in Seq(Ops) /\ Has(txq', "spent")
               /\ Has(txq', "hello") => Has(txq, "hello")
               /\ m # "hello"
    <2> DEFINE r == [txq EXCEPT ![i] = written]
    <2>1. txq[i] \in Ops
      BY LenProperties
    <2>2. written \in Ops /\ written # "hello" /\ m # "hello"
      BY <1>1, <1>3, <2>1 DEF Shares
    <2>3. r \in Seq(Ops) /\ \A x : Has(r, x) => Has(txq, x) \/ x = written
      BY <2>2, HasExcept
    <2>4. txq' = Append(r, "spent")
      BY <1>3
    <2> HIDE DEF r
    <2>5. /\ Append(r, "spent") \in Seq(Ops) /\ Has(Append(r, "spent"), "spent")
          /\ Has(Append(r, "spent"), "hello") <=> Has(r, "hello")
      BY <1>1, <2>3, HasAppend
    <2> QED  BY <2>2, <2>3, <2>4, <2>5
  <1> QED  BY <1>2, <1>3 DEF Queues

\* What a send of m does to the queues, whatever its outcome.
LEMMA SendsFacts ==
    ASSUME txq \in Seq(Ops), c2s \in Seq(Msgs), srv \in {"up", "silent"},
           NEW m \in Msgs, NEW status \in Statuses, Sends(m, status)
    PROVE  /\ txq' \in Seq(Ops) /\ c2s' \in Seq(Msgs)
           /\ srv' \in {"up", "silent"} /\ (srv' = "up" => srv = "up")
           /\ \A x : Has(txq, x) => Has(txq', x) \/ Has(txq', "spent")
           /\ \A x : Has(c2s, x) => Has(c2s', x)
           /\ Has(txq', "hello") => Has(txq, "hello") \/ m = "hello"
           /\ \A x : x = m /\ Only(c2s, x) => Only(c2s', x)
           /\ srv' = "up" => \/ Has(txq', m) \/ Has(c2s', m)
                             \/ Has(txq', "spent")
           /\ m = "hello" /\ status = "inprog" => txq' = Append(txq, m)
           /\ status # "inprog" => txq' = txq
  <1>1. CASE status = "okay"
    <2>1. c2s' = Append(c2s, m) /\ txq' = txq /\ srv' = srv
      BY <1>1 DEF Sends
    <2> QED  BY <1>1, <2>1, HasAppend
  <1>2. CASE status = "inprog"
    <2>1. c2s' = c2s /\ Queues(m) /\ srv' = srv
      BY <1>2 DEF Sends
    <2> QED  BY <1>2, <2>1, QueuesFacts
  <1>3. CASE status = "fail"
    BY <1>3 DEF Sends
  <1> QED  BY <1>1, <1>2, <1>3 DEF Statuses

-----------------------------------------------------------------------------
(* The type invariant in parts, each for one kind of reasoning.            *)

QueueTypes == txq \in Seq(Ops) /\ c2s \in Seq(Msgs) /\ s2c \in Seq(SrvMsgs)
NameTypes ==
    /\ tls_mode \in TlsModes /\ cert \in Certs
    /\ phase \in Phases /\ code \in FailCodes /\ why \in Causes
    /\ recv \in {"off", "http", "sstp"}
    /\ srv \in {"up", "silent"}
    /\ call \in {"none", "acked", "refused", "closed"}
NumberTypes ==
    /\ echo \in 0 .. MaxEcho + 1
    /\ count \in [ppp : Nat, srvppp : Nat, srvecho : Nat]

\* The type invariant in parts.
LEMMA TypeParts ==
    /\ TypeOK <=> QueueTypes /\ NameTypes /\ NumberTypes /\ pppd \in BOOLEAN
    /\ TypeOK' <=> QueueTypes' /\ NameTypes' /\ NumberTypes' /\ pppd' \in BOOLEAN
  BY DEF TypeOK, QueueTypes, NameTypes, NumberTypes

\* The profile and the certificate do not change, nor does what they imply.
Kept == tls_mode' = tls_mode /\ cert' = cert

\* What was decided about the certificate stays decided.
LEMMA TrustKept ==
    ASSUME Kept
    PROVE  (Trusted' <=> Trusted) /\ (SystemTrusts' <=> SystemTrusts)
  BY DEF Kept, Trusted, SystemTrusts

\* Both evaluations of the certificate together are what the mode asks for.
LEMMA ChecksSuffice ==
    ASSUME TypeOK, SystemTrusts, PostHttpAccepts
    PROVE  Trusted
  <1>1. tls_mode \in {"system", "custom_ca", "pinned", "insecure"}
    BY SessionAssumption DEF TypeOK
  <1> QED  BY <1>1 DEF SystemTrusts, PostHttpAccepts, Trusted

-----------------------------------------------------------------------------
(* Every step keeps SessionInv.                                            *)

\* The session before it connects.
LEMMA InitSession == Init => SessionInv
  <1> SUFFICES ASSUME Init PROVE SessionInv
    OBVIOUS
  <1> USE SessionAssumption
  <1>0. pppd \in BOOLEAN
    BY DEF Init
  <1>1. QueueTypes
    BY DEF Init, QueueTypes
  <1>2. NameTypes
    BY DEF Init, NameTypes, Phases, FailCodes, Causes
  <1>3. NumberTypes /\ ~(echo > 0)
    BY DEF Init, NumberTypes
  <1>4. Only(txq, "hello") /\ Only(c2s, "hello")
    BY HasEmpty DEF Init
  <1>5. HelloAlone /\ Listens /\ TrustByPhase /\ (Starting => echo = 0)
    BY <1>4 DEF Init, HelloAlone, Listens, TrustByPhase, Calling
  <1> QED  BY <1>0, <1>1, <1>2, <1>3, <1>5, TypeParts
           DEF Init, SessionInv, EchoPending, EchoAbortOnlyIfSilent

\* A step that ends the session before the call: nothing is sent.
Ends ==
    /\ Kept /\ UNCHANGED <<txq, echo, pppd, c2s, s2c, srv, call, count>>
    /\ \/ /\ phase' \in {"failed", "stalled"} /\ recv' = "off"
          /\ code' \in FailCodes /\ why' \in Causes
          /\ why' = "echo" => why = "echo"
       \/ phase = "tcp" /\ phase' = "tls" /\ recv' = "off" /\ code' = code /\ why' = why

\* A session that ends keeps the invariant.
LEMMA EndsKeeps ==
    ASSUME SessionInv, Ends
    PROVE  SessionInv'
  <1>1. /\ QueueTypes /\ NameTypes /\ NumberTypes /\ pppd \in BOOLEAN
        /\ HelloAlone /\ Listens /\ TrustByPhase /\ (Starting => echo = 0)
        /\ EchoPending /\ EchoAbortOnlyIfSilent
    BY TypeParts DEF SessionInv
  <1>2. QueueTypes' /\ NumberTypes' /\ pppd' \in BOOLEAN /\ EchoPending'
    BY <1>1 DEF Ends, QueueTypes, NumberTypes, EchoPending, Calling
  <1>3. NameTypes'
    BY <1>1 DEF Ends, Kept, NameTypes, Phases
  <1>4. Trusted' <=> Trusted
    BY TrustKept DEF Ends
  <1>5. HelloAlone' /\ Listens' /\ TrustByPhase' /\ (Starting' => echo' = 0)
        /\ EchoAbortOnlyIfSilent'
    BY <1>1, <1>4 DEF Ends, HelloAlone, Listens, TrustByPhase, Starting, Calling,
       EchoAbortOnlyIfSilent
  <1> QED  BY <1>2, <1>3, <1>5, TypeParts DEF SessionInv

\* What every handler of sstp-state.c does once the call is under way.
Handles ==
    /\ Calling /\ Kept
    /\ \/ s2c' = s2c
       \/ /\ s2c # << >> /\ s2c' = Tail(s2c)
          /\ Head(s2c) = "EchoRep" => echo' = 0
    /\ NoSend \/ \E m \in Msgs \ {"hello"}, status \in Statuses : Sends(m, status)
    /\ echo' \in {0, echo}
    /\ \/ phase' = phase /\ recv' = recv /\ code' = code /\ why' = why
       \/ phase' \in {"ppp", "up"} /\ recv' = "sstp" /\ code' = code /\ why' = why
       \/ /\ phase' = "failed" /\ recv' = "off"
          /\ code' \in FailCodes /\ why' \in Causes \ {"echo"}
    /\ pppd' \in {TRUE, pppd} /\ call' = call
    /\ count' \in [ppp : Nat, srvppp : Nat, srvecho : Nat]

\* The handling of a received message keeps the invariant.
LEMMA HandlesKeeps ==
    ASSUME SessionInv, Handles
    PROVE  SessionInv'
  <1> USE SessionAssumption
  <1>1. /\ QueueTypes /\ NameTypes /\ NumberTypes /\ pppd \in BOOLEAN
        /\ HelloAlone /\ Listens /\ TrustByPhase
        /\ EchoPending /\ EchoAbortOnlyIfSilent
    BY TypeParts DEF SessionInv
  <1>2. Trusted /\ Trusted'
    BY <1>1, TrustKept DEF Handles, TrustByPhase
  <1>3. /\ txq' \in Seq(Ops) /\ c2s' \in Seq(Msgs)
        /\ srv' \in {"up", "silent"} /\ (srv' = "up" => srv = "up")
        /\ \A x : Has(txq, x) => Has(txq', x) \/ Has(txq', "spent")
        /\ \A x : Has(c2s, x) => Has(c2s', x)
        /\ Has(txq', "hello") => Has(txq, "hello")
    <2>1. CASE NoSend
      BY <1>1, <2>1 DEF NoSend, QueueTypes, NameTypes
    <2>2. CASE \E m \in Msgs \ {"hello"}, status \in Statuses : Sends(m, status)
      BY <1>1, <2>2, SendsFacts DEF QueueTypes, NameTypes
    <2> QED  BY <2>1, <2>2 DEF Handles
  <1>4. /\ s2c' \in Seq(SrvMsgs)
        /\ Has(s2c, "EchoRep") => Has(s2c', "EchoRep") \/ echo' = 0
    <2>1. CASE s2c' = s2c
      BY <1>1, <2>1 DEF QueueTypes
    <2>2. CASE s2c # << >> /\ s2c' = Tail(s2c) /\ (Head(s2c) = "EchoRep" => echo' = 0)
      <3>1. s2c \in Seq(SrvMsgs)
        BY <1>1 DEF QueueTypes
      <3> QED  BY <2>2, <3>1, HasTail
    <2> QED  BY <2>1, <2>2 DEF Handles
  <1>5. QueueTypes' /\ pppd' \in BOOLEAN
    BY <1>1, <1>3, <1>4 DEF QueueTypes, Handles
  <1>6. NameTypes'
    BY <1>1, <1>3 DEF Handles, Kept, NameTypes, Phases
  <1>7. NumberTypes'
    BY <1>1 DEF Handles, NumberTypes
  <1>8. EchoPending'
    <2>1. echo \in Nat
      BY <1>1 DEF NumberTypes
    <2>2. echo' > 0 => echo > 0 /\ echo' # 0
      BY <2>1 DEF Handles
    <2> QED  BY <1>1, <1>3, <1>4, <2>2 DEF EchoPending, Handles
  <1>9. EchoAbortOnlyIfSilent'
    BY <1>1, <1>3 DEF Handles, EchoAbortOnlyIfSilent, NameTypes
  <1>10. HelloAlone' /\ Listens' /\ TrustByPhase' /\ (Starting' => echo' = 0)
    BY <1>1, <1>2, <1>3 DEF Handles, HelloAlone, Listens, TrustByPhase, Starting, Calling
  <1> QED  BY <1>5, <1>6, <1>7, <1>8, <1>9, <1>10, TypeParts DEF SessionInv

\* The steps that end a session, or go from TCP to TLS.
LEMMA AreEnds ==
    ASSUME SessionInv,
           ConnectsAtOnce \/ ConnectComplete \/ HttpTimeout \/ RecvFails
    PROVE  Ends
  <1>1. NameTypes
    BY TypeParts DEF SessionInv
  <1> USE DEF Ends, Kept, Goes, Fails, FailCodes, Causes
  <1>2. CASE ConnectsAtOnce
    BY <1>1, <1>2 DEF ConnectsAtOnce, NameTypes
  <1>3. CASE ConnectComplete
    BY <1>1, <1>3 DEF ConnectComplete, NameTypes
  <1>4. CASE HttpTimeout
    BY <1>4 DEF HttpTimeout
  <1>5. CASE RecvFails
    BY <1>5 DEF RecvFails
  <1> QED  BY <1>2, <1>3, <1>4, <1>5

\* The handlers of received messages, and PPP's own frames.
LEMMA AreHandles ==
    ASSUME SessionInv,
           \/ ConnectAckRcvd \/ ConnectNakRcvd \/ AbortRcvd \/ DisconnectRcvd
           \/ DisconnectAckRcvd \/ UnreadableRcvd \/ EchoRequestRcvd
           \/ EchoReplyRcvd \/ PppRcvd \/ PppUp \/ PppSends
    PROVE  Handles
  <1>0. /\ count \in [ppp : Nat, srvppp : Nat, srvecho : Nat]
        /\ pppd \in BOOLEAN
    BY TypeParts DEF SessionInv, NumberTypes
  <1> USE DEF Handles, Kept, Calling, Takes, Fails, Goes, FailCodes, Causes, Msgs
  <1>1. CASE ConnectAckRcvd
    BY <1>0, <1>1 DEF ConnectAckRcvd
  <1>2. CASE ConnectNakRcvd
    BY <1>0, <1>2 DEF ConnectNakRcvd
  <1>3. CASE AbortRcvd
    BY <1>0, <1>3 DEF AbortRcvd
  <1>4. CASE DisconnectRcvd
    BY <1>0, <1>4 DEF DisconnectRcvd
  <1>5. CASE DisconnectAckRcvd
    BY <1>0, <1>5 DEF DisconnectAckRcvd
  <1>6. CASE UnreadableRcvd
    BY <1>0, <1>6 DEF UnreadableRcvd
  <1>7. CASE EchoRequestRcvd
    BY <1>0, <1>7 DEF EchoRequestRcvd
  <1>8. CASE EchoReplyRcvd
    BY <1>0, <1>8 DEF EchoReplyRcvd, EchoAfterReply
  <1>9. CASE PppRcvd
    BY <1>0, <1>9 DEF PppRcvd
  <1>10. CASE PppUp
    <2>1. /\ Calling /\ Kept /\ s2c # << >> /\ s2c' = Tail(s2c) /\ Head(s2c) # "EchoRep"
          /\ echo' = echo /\ pppd' = pppd /\ call' = call /\ count' = count
      BY <1>10 DEF PppUp
    <2>2. CASE Fails("sstp_control", "binding") /\ NoSend
      BY <1>0, <2>1, <2>2
    <2>3. CASE \E status \in Statuses :
                 /\ Sends("Connected", status)
                 /\ CASE status = "okay" -> Goes("up", "sstp")
                      [] status = "inprog" -> Fails("sstp_control", "inprog")
                      [] OTHER -> Fails("sstp_control", "send")
      <3>1. PICK status \in Statuses :
              /\ Sends("Connected", status)
              /\ Goes("up", "sstp") \/ Fails("sstp_control", "inprog") \/ Fails("sstp_control", "send")
        BY <2>3 DEF Statuses
      <3> QED  BY <1>0, <2>1, <3>1
    <2> QED  BY <1>10, <2>2, <2>3 DEF PppUp
  <1>11. CASE PppSends
    BY <1>0, <1>11 DEF PppSends
  <1> QED
    BY <1>1, <1>2, <1>3, <1>4, <1>5, <1>6, <1>7, <1>8, <1>9, <1>10, <1>11

\* The HTTP request is sent once system trust, if asked for, is given.
LEMMA HandshakeKeeps ==
    ASSUME SessionInv, HandshakeComplete
    PROVE  SessionInv'
  <1> USE SessionAssumption
  <1>1. /\ QueueTypes /\ NameTypes /\ NumberTypes /\ pppd \in BOOLEAN
        /\ HelloAlone /\ Listens /\ TrustByPhase /\ echo = 0
        /\ EchoPending /\ EchoAbortOnlyIfSilent
    BY TypeParts DEF SessionInv, HandshakeComplete, Starting
  <1>2. /\ phase = "tls" /\ Kept /\ echo' = echo /\ pppd' = pppd /\ s2c' = s2c
        /\ call' = call /\ count' = count /\ txq = << >>
    BY <1>1 DEF HandshakeComplete, Kept, HelloAlone
  <1>3. CASE NoSend /\ (Fails("tls_handshake", "net") \/ Fails("tls_cert", "cert"))
    <2>1. Ends
      BY <1>2, <1>3 DEF Ends, NoSend, Fails, FailCodes, Causes
    <2> QED  BY <2>1, EndsKeeps
  <1>4. CASE \E status \in Statuses :
               /\ srv = "up" /\ SystemTrusts /\ Sends("hello", status)
               /\ \/ status = "okay" /\ Goes("http", "http")
                  \/ status = "inprog" /\ Goes("hello", "off")
                  \/ status = "fail" /\ Fails("http_upgrade", "send")
    <2>1. PICK status \in Statuses :
               /\ srv = "up" /\ SystemTrusts /\ Sends("hello", status)
               /\ \/ status = "okay" /\ Goes("http", "http")
                  \/ status = "inprog" /\ Goes("hello", "off")
                  \/ status = "fail" /\ Fails("http_upgrade", "send")
      BY <1>4
    <2>2. "hello" \in Msgs
      BY DEF Msgs
    <2>3. /\ txq' \in Seq(Ops) /\ c2s' \in Seq(Msgs)
          /\ srv' \in {"up", "silent"}
          /\ Only(c2s, "hello") => Only(c2s', "hello")
          /\ status = "inprog" => txq' = Append(txq, "hello")
          /\ status # "inprog" => txq' = txq
      BY <1>1, <2>1, <2>2, SendsFacts DEF QueueTypes, NameTypes
    <2>4. /\ phase' \in {"http", "hello", "failed"}
          /\ phase' = "http" => recv' = "http" /\ txq' = << >>
          /\ phase' = "hello" => txq' = <<"hello">>
          /\ recv' \in {"off", "http"} /\ code' \in FailCodes
          /\ why' \in Causes /\ (why' = "echo" => why = "echo")
      BY <1>1, <1>2, <2>1, <2>3 DEF Goes, Fails, NameTypes, FailCodes, Causes
    <2>5. (Trusted' <=> Trusted) /\ (SystemTrusts' <=> SystemTrusts)
      BY <1>2, TrustKept
    <2>6. QueueTypes' /\ pppd' \in BOOLEAN
      BY <1>1, <1>2, <2>3 DEF QueueTypes
    <2>7. NameTypes'
      BY <1>1, <1>2, <2>3, <2>4 DEF NameTypes, Kept, Phases
    <2>8. NumberTypes' /\ EchoPending' /\ echo' = 0
      BY <1>1, <1>2 DEF NumberTypes, EchoPending
    <2>9. Only(txq', "hello")
      <3>1. txq' \in {<< >>, <<"hello">>}
        BY <1>2, <2>3 DEF Statuses
      <3>2. Only(<<"hello">>, "hello")
        BY DEF Only
      <3> QED  BY <3>1, <3>2, HasEmpty
    <2>10. HelloAlone' /\ Listens' /\ TrustByPhase'
      BY <1>1, <2>1, <2>3, <2>4, <2>5, <2>9 DEF HelloAlone, Listens, TrustByPhase, Calling
    <2>11. EchoAbortOnlyIfSilent'
      BY <1>1, <2>1, <2>4 DEF EchoAbortOnlyIfSilent
    <2> QED  BY <2>6, <2>7, <2>8, <2>10, <2>11, TypeParts DEF SessionInv
  <1> QED  BY <1>3, <1>4 DEF HandshakeComplete, Statuses

\* The Connect-Request goes out once the certificate has been looked at again.
LEMMA HttpRcvdKeeps ==
    ASSUME SessionInv, HttpRcvd
    PROVE  SessionInv'
  <1> USE SessionAssumption
  <1>1. /\ QueueTypes /\ NameTypes /\ NumberTypes /\ pppd \in BOOLEAN
        /\ HelloAlone /\ Listens /\ TrustByPhase /\ echo = 0
        /\ EchoPending /\ EchoAbortOnlyIfSilent /\ TypeOK
    BY TypeParts DEF SessionInv, HttpRcvd, Starting
  <1>2. /\ phase = "http" /\ Kept /\ echo' = echo /\ pppd' = pppd
        /\ s2c # << >> /\ s2c' = Tail(s2c)
        /\ call' = call /\ count' = count /\ txq = << >>
    BY <1>1 DEF HttpRcvd, Kept, HelloAlone
  <1>3. s2c' \in Seq(SrvMsgs)
    BY <1>1, <1>2, HasTail DEF QueueTypes
  <1>4. NumberTypes' /\ EchoPending' /\ echo' = 0
    BY <1>1, <1>2 DEF NumberTypes, EchoPending
  <1>5. (Trusted' <=> Trusted) /\ (SystemTrusts' <=> SystemTrusts)
    BY <1>2, TrustKept
  <1>6. CASE NoSend /\ (Fails("http_upgrade", "http") \/ Fails("tls_cert", "cert"))
    <2>1. QueueTypes' /\ pppd' \in BOOLEAN
      BY <1>1, <1>2, <1>3, <1>6 DEF QueueTypes, NoSend
    <2>2. NameTypes'
      BY <1>1, <1>2, <1>6 DEF NameTypes, Kept, Fails, NoSend, Phases, FailCodes, Causes
    <2>3. HelloAlone' /\ Listens' /\ TrustByPhase' /\ EchoAbortOnlyIfSilent'
      BY <1>1, <1>5, <1>6 DEF HelloAlone, Listens, TrustByPhase, Calling, Fails, NoSend,
         EchoAbortOnlyIfSilent
    <2> QED  BY <1>4, <2>1, <2>2, <2>3, TypeParts DEF SessionInv
  <1>7. CASE \E status \in Statuses :
               /\ PostHttpAccepts /\ Sends("ConnectReq", status)
               /\ \/ Goes("control", "sstp")
                  \/ Fails("sstp_control", "inprog")
                  \/ Fails("sstp_control", "send")
    <2>1. PICK status \in Statuses :
               /\ PostHttpAccepts /\ Sends("ConnectReq", status)
               /\ \/ Goes("control", "sstp")
                  \/ Fails("sstp_control", "inprog")
                  \/ Fails("sstp_control", "send")
      BY <1>7
    <2>2. Trusted
      BY <1>1, <1>2, <2>1, ChecksSuffice DEF TrustByPhase
    <2>3. "ConnectReq" \in Msgs /\ "ConnectReq" # "hello"
      BY DEF Msgs
    <2>4. /\ txq' \in Seq(Ops) /\ c2s' \in Seq(Msgs)
          /\ srv' \in {"up", "silent"} /\ (srv' = "up" => srv = "up")
          /\ Has(txq', "hello") => Has(txq, "hello")
      BY <1>1, <2>1, <2>3, SendsFacts DEF QueueTypes, NameTypes
    <2>5. ~Has(txq', "hello")
      BY <1>2, <2>4, HasEmpty
    <2>6. QueueTypes' /\ pppd' \in BOOLEAN
      BY <1>1, <1>2, <1>3, <2>4 DEF QueueTypes
    <2>7. NameTypes'
      BY <1>1, <1>2, <2>1, <2>4 DEF NameTypes, Kept, Fails, Goes, Phases, FailCodes, Causes
    <2>8. HelloAlone' /\ Listens' /\ TrustByPhase'
      BY <1>5, <2>1, <2>2, <2>5 DEF HelloAlone, Listens, TrustByPhase, Calling, Fails, Goes
    <2>9. EchoAbortOnlyIfSilent'
      BY <1>1, <2>1, <2>4 DEF EchoAbortOnlyIfSilent, Fails, Goes, NameTypes
    <2> QED  BY <1>4, <2>6, <2>7, <2>8, <2>9, TypeParts DEF SessionInv
  <1> QED  BY <1>6, <1>7 DEF HttpRcvd, Statuses

\* Sixty seconds of silence: with the limit passed and the server answering,
\* an Echo-Request or its answer would still be on its way.
LEMMA RecvTimeoutKeeps ==
    ASSUME SessionInv, RecvTimeout
    PROVE  SessionInv'
  <1> USE SessionAssumption
  <1>1. /\ QueueTypes /\ NameTypes /\ NumberTypes /\ pppd \in BOOLEAN
        /\ HelloAlone /\ Listens /\ TrustByPhase
        /\ EchoPending /\ EchoAbortOnlyIfSilent
    BY TypeParts DEF SessionInv
  <1>2. /\ Calling /\ Quiet /\ Kept /\ pppd' = pppd /\ s2c' = s2c
        /\ call' = call /\ count' = count /\ recv = "sstp"
    BY DEF RecvTimeout, Kept, Calling
  <1>3. Trusted /\ Trusted'
    BY <1>1, <1>2, TrustKept DEF TrustByPhase
  <1>4. CASE TooManyEchoes
    <2>1. Fails("sstp_control", "echo") /\ NoSend /\ echo' = echo
      BY <1>4 DEF RecvTimeout
    <2>2. srv = "silent"
      <3>1. echo > 0
        BY <1>1, <1>4 DEF NumberTypes, TooManyEchoes
      <3>2. ASSUME srv = "up" PROVE FALSE
        <4>1. s2c = << >> /\ c2s = << >> /\ txq = << >>
          BY <1>2, <3>2 DEF Quiet
        <4> QED  BY <1>1, <1>2, <3>1, <3>2, <4>1, HasEmpty DEF EchoPending
      <3> QED  BY <1>1, <3>2 DEF NameTypes
    <2>3. QueueTypes' /\ pppd' \in BOOLEAN
      BY <1>1, <1>2, <2>1 DEF QueueTypes, NoSend
    <2>4. NameTypes'
      BY <1>1, <1>2, <2>1 DEF NameTypes, Kept, Fails, NoSend, Phases, FailCodes, Causes
    <2>5. NumberTypes' /\ EchoPending'
      BY <1>1, <1>2, <2>1 DEF NumberTypes, EchoPending, NoSend, Fails, Calling
    <2>6. /\ HelloAlone' /\ Listens' /\ TrustByPhase' /\ (Starting' => echo' = 0)
          /\ EchoAbortOnlyIfSilent'
      BY <1>3, <2>1, <2>2 DEF HelloAlone, Listens, TrustByPhase, Calling, Starting, Fails,
         NoSend, EchoAbortOnlyIfSilent
    <2> QED  BY <2>3, <2>4, <2>5, <2>6, TypeParts DEF SessionInv
  <1>5. CASE ~TooManyEchoes
    <2>1. PICK status \in Statuses : Sends("EchoReq", status)
      BY <1>5 DEF RecvTimeout
    <2>2. /\ echo' = echo + 1 /\ recv' = "sstp" /\ phase' = phase /\ code' = code
          /\ why' = why
      BY <1>5 DEF RecvTimeout, RecvAfterTimeout
    <2>3. "EchoReq" \in Msgs /\ "EchoReq" # "hello"
      BY DEF Msgs
    <2>4. /\ txq' \in Seq(Ops) /\ c2s' \in Seq(Msgs)
          /\ srv' \in {"up", "silent"} /\ (srv' = "up" => srv = "up")
          /\ Has(txq', "hello") => Has(txq, "hello")
          /\ srv' = "up" => \/ Has(txq', "EchoReq") \/ Has(c2s', "EchoReq")
                            \/ Has(txq', "spent")
      BY <1>1, <2>1, <2>3, SendsFacts DEF QueueTypes, NameTypes
    <2>5. QueueTypes' /\ pppd' \in BOOLEAN
      BY <1>1, <1>2, <2>4 DEF QueueTypes
    <2>6. NameTypes'
      BY <1>1, <1>2, <2>2, <2>4 DEF NameTypes, Kept
    <2>7. NumberTypes'
      BY <1>1, <1>2, <1>5, <2>2 DEF NumberTypes, TooManyEchoes
    <2>8. EchoPending'
      BY <2>4 DEF EchoPending
    <2>9. HelloAlone' /\ Listens' /\ TrustByPhase' /\ (Starting' => echo' = 0)
      BY <1>1, <1>2, <1>3, <2>2, <2>4 DEF HelloAlone, Listens, TrustByPhase, Calling, Starting
    <2>10. EchoAbortOnlyIfSilent'
      BY <1>1, <2>2, <2>4 DEF EchoAbortOnlyIfSilent, NameTypes
    <2> QED  BY <2>5, <2>6, <2>7, <2>8, <2>9, <2>10, TypeParts DEF SessionInv
  <1> QED  BY <1>4, <1>5

\* The socket takes a queued message: the HTTP request is the only one there.
LEMMA WritableKeeps ==
    ASSUME SessionInv, Writable
    PROVE  SessionInv'
  <1> USE SessionAssumption
  <1>1. /\ QueueTypes /\ NameTypes /\ NumberTypes /\ pppd \in BOOLEAN
        /\ HelloAlone /\ Listens /\ TrustByPhase /\ (Starting => echo = 0)
        /\ EchoPending /\ EchoAbortOnlyIfSilent
    BY TypeParts DEF SessionInv
  <1>2. /\ Alive /\ txq # << >> /\ txq' = Tail(txq) /\ c2s' = Append(c2s, Head(txq))
        /\ Head(txq) # "spent"
        /\ Kept /\ echo' = echo /\ pppd' = pppd /\ s2c' = s2c /\ srv' = srv
        /\ call' = call /\ count' = count
        /\ IF Head(txq) = "hello" THEN Goes("http", "http")
                                  ELSE UNCHANGED <<phase, code, why, recv>>
    BY DEF Writable, Kept
  <1>3. /\ Tail(txq) \in Seq(Ops) /\ Head(txq) \in Msgs
        /\ \A m : Has(txq, m) <=> Head(txq) = m \/ Has(Tail(txq), m)
        /\ \A m : Only(txq, m) => Head(txq) = m /\ Only(Tail(txq), m)
    BY <1>1, <1>2, HasTail DEF QueueTypes, Ops
  <1>4. /\ c2s' \in Seq(Msgs) /\ Has(c2s', Head(txq))
        /\ \A m : Has(c2s, m) => Has(c2s', m)
        /\ \A m : Only(c2s, m) /\ Head(txq) = m => Only(c2s', m)
    BY <1>1, <1>2, <1>3, HasAppend DEF QueueTypes
  <1>5. (Trusted' <=> Trusted) /\ (SystemTrusts' <=> SystemTrusts)
    BY <1>2, TrustKept
  <1>6. QueueTypes' /\ pppd' \in BOOLEAN
    BY <1>1, <1>2, <1>3, <1>4 DEF QueueTypes
  <1>7. NumberTypes'
    BY <1>1, <1>2 DEF NumberTypes
  <1>8. EchoPending'
    <2>1. Calling' => Calling
      BY <1>2 DEF Calling, Goes
    <2> QED  BY <1>1, <1>2, <1>3, <1>4, <2>1 DEF EchoPending
  <1>9. CASE phase = "hello"
    <2>1. txq = <<"hello">>
      BY <1>1, <1>9 DEF HelloAlone
    <2>2. Head(txq) = "hello" /\ Tail(txq) = << >>
      BY <2>1
    <2>3. Goes("http", "http") /\ txq' = << >>
      BY <1>2, <2>2
    <2>4. NameTypes'
      BY <1>1, <1>2, <2>3 DEF NameTypes, Kept, Goes, Phases
    <2>5. HelloAlone' /\ Listens' /\ (Starting' => echo' = 0) /\ EchoAbortOnlyIfSilent'
      BY <1>1, <1>2, <1>9, <2>3 DEF HelloAlone, Listens, Starting, Calling, Goes,
         EchoAbortOnlyIfSilent
    <2>6. TrustByPhase'
      BY <1>1, <1>2, <1>3, <1>4, <1>5, <1>9, <2>3 DEF TrustByPhase, Calling, Goes
    <2> QED  BY <1>6, <1>7, <1>8, <2>4, <2>5, <2>6, TypeParts DEF SessionInv
  <1>10. CASE phase # "hello"
    <2>1. Calling
      BY <1>1, <1>2, <1>10 DEF HelloAlone, Alive, NameTypes, Phases, Calling
    <2>2. ~Has(txq, "hello") /\ Head(txq) # "hello" /\ ~Has(txq', "hello")
      BY <1>1, <1>2, <1>3, <2>1 DEF HelloAlone
    <2>3. phase' = phase /\ code' = code /\ why' = why /\ recv' = recv
      BY <1>2, <2>2
    <2>4. NameTypes'
      BY <1>1, <1>2, <2>3 DEF NameTypes, Kept
    <2>5. /\ HelloAlone' /\ Listens' /\ (Starting' => echo' = 0) /\ EchoAbortOnlyIfSilent'
          /\ TrustByPhase'
      BY <1>1, <1>2, <1>5, <2>1, <2>2, <2>3 DEF HelloAlone, Listens, Starting, Calling,
         EchoAbortOnlyIfSilent, TrustByPhase
    <2> QED  BY <1>6, <1>7, <1>8, <2>4, <2>5, TypeParts DEF SessionInv
  <1> QED  BY <1>9, <1>10

\* A failed write, or one with nothing to write: it ends the session unless it
\* was a PPP frame's.
LEMMA WriteFailsKeeps ==
    ASSUME SessionInv, WriteFails \/ WritesNothing
    PROVE  SessionInv'
  <1> USE SessionAssumption
  <1>1. /\ QueueTypes /\ NameTypes /\ NumberTypes /\ pppd \in BOOLEAN
        /\ HelloAlone /\ Listens /\ TrustByPhase /\ (Starting => echo = 0)
        /\ EchoPending /\ EchoAbortOnlyIfSilent
    BY TypeParts DEF SessionInv
  <1>2. /\ Alive /\ txq # << >> /\ txq' = Tail(txq) /\ c2s' = c2s
        /\ Kept /\ echo' = echo /\ pppd' = pppd /\ s2c' = s2c /\ srv' \in {srv, "silent"}
        /\ call' = call /\ count' = count
        /\ \/ Head(txq) = "hello" /\ Fails("http_upgrade", "send")
           \/ Head(txq) = "ppp" /\ UNCHANGED <<phase, code, why, recv>>
           \/ Fails("sstp_control", "send")
    BY DEF WriteFails, WritesNothing, Kept
  <1>3. /\ Tail(txq) \in Seq(Ops)
        /\ \A m : Has(txq, m) <=> Head(txq) = m \/ Has(Tail(txq), m)
        /\ \A m : Only(txq, m) => Head(txq) = m /\ Only(Tail(txq), m)
    BY <1>1, <1>2, HasTail DEF QueueTypes
  <1>4. (Trusted' <=> Trusted) /\ (SystemTrusts' <=> SystemTrusts)
    BY <1>2, TrustKept
  <1>5. QueueTypes' /\ pppd' \in BOOLEAN
    BY <1>1, <1>2, <1>3 DEF QueueTypes
  <1>6. NumberTypes' /\ EchoPending'
    BY <1>1, <1>2, <1>3 DEF NumberTypes, EchoPending, Fails, Calling
  <1>7. NameTypes' /\ EchoAbortOnlyIfSilent'
    BY <1>1, <1>2 DEF NameTypes, Kept, Fails, Phases, FailCodes, Causes, EchoAbortOnlyIfSilent
  <1>8. CASE phase' = "failed"
    <2>1. HelloAlone' /\ Listens' /\ (Starting' => echo' = 0) /\ TrustByPhase'
      BY <1>1, <1>2, <1>3, <1>4, <1>8 DEF HelloAlone, Listens, Starting, Calling, TrustByPhase
    <2> QED  BY <1>5, <1>6, <1>7, <2>1, TypeParts DEF SessionInv
  <1>9. CASE Head(txq) = "ppp" /\ UNCHANGED <<phase, code, why, recv>>
    <2>1. phase # "hello"
      <3>1. ASSUME phase = "hello" PROVE Head(txq) = "hello"
        <4>1. txq = <<"hello">>
          BY <1>1, <3>1 DEF HelloAlone
        <4> QED  BY <4>1
      <3> QED  BY <1>9, <3>1
    <2>2. Calling
      BY <1>1, <1>2, <2>1 DEF HelloAlone, Alive, NameTypes, Phases, Calling
    <2>3. HelloAlone' /\ Listens' /\ (Starting' => echo' = 0) /\ TrustByPhase'
      BY <1>1, <1>2, <1>3, <1>4, <1>9, <2>2 DEF HelloAlone, Listens, Starting, Calling, TrustByPhase
    <2> QED  BY <1>5, <1>6, <1>7, <2>3, TypeParts DEF SessionInv
  <1> QED  BY <1>2, <1>8, <1>9 DEF Fails

\* The server's steps: an Echo-Request it takes is answered.
LEMMA ServerKeeps ==
    ASSUME SessionInv, SrvAnswers \/ SrvPpp \/ SrvEcho \/ SrvEnds \/ SrvSilent
    PROVE  SessionInv'
  <1> USE SessionAssumption
  <1>1. /\ QueueTypes /\ NameTypes /\ NumberTypes /\ pppd \in BOOLEAN
        /\ HelloAlone /\ Listens /\ TrustByPhase /\ (Starting => echo = 0)
        /\ EchoPending /\ EchoAbortOnlyIfSilent
    BY TypeParts DEF SessionInv
  <1>2. /\ tls_mode' = tls_mode /\ cert' = cert /\ phase' = phase /\ code' = code
        /\ why' = why /\ recv' = recv /\ txq' = txq /\ echo' = echo /\ pppd' = pppd
    BY DEF SrvAnswers, SrvPpp, SrvEcho, SrvEnds, SrvSilent, clientVars
  <1>3. /\ count' \in [ppp : Nat, srvppp : Nat, srvecho : Nat]
    <2>1. count \in [ppp : Nat, srvppp : Nat, srvecho : Nat]
      BY <1>1 DEF NumberTypes
    <2>2. \/ count' = count
          \/ count' = [count EXCEPT !.srvppp = @ + 1]
          \/ count' = [count EXCEPT !.srvecho = @ + 1]
      BY DEF SrvAnswers, SrvPpp, SrvEcho, SrvEnds, SrvSilent
    <2> QED  BY <2>1, <2>2
  <1>4. srv' \in {srv, "silent"}
    BY DEF SrvAnswers, SrvPpp, SrvEcho, SrvEnds, SrvSilent
  <1>5. call' \in {"none", "acked", "refused", "closed"}
    BY <1>1 DEF SrvAnswers, SrvPpp, SrvEcho, SrvEnds, SrvSilent, NameTypes
  <1>6. \/ s2c' = s2c
        \/ \E m \in SrvMsgs : s2c' = Append(s2c, m)
    BY DEF SrvAnswers, SrvPpp, SrvEcho, SrvEnds, SrvSilent, SrvSends, SrvMsgs
  <1>7. /\ s2c' \in Seq(SrvMsgs)
        /\ Has(s2c, "EchoRep") => Has(s2c', "EchoRep")
    <2>1. CASE s2c' = s2c
      BY <1>1, <2>1 DEF QueueTypes
    <2>2. CASE \E m \in SrvMsgs : s2c' = Append(s2c, m)
      <3>1. PICK m \in SrvMsgs : s2c' = Append(s2c, m)
        BY <2>2
      <3> QED  BY <1>1, <3>1, HasAppend DEF QueueTypes
    <2> QED  BY <1>6, <2>1, <2>2
  <1>8. /\ c2s' \in Seq(Msgs)
        /\ Only(c2s, "hello") => Only(c2s', "hello")
        /\ srv' = "up" /\ Has(c2s, "EchoReq") => Has(c2s', "EchoReq") \/ Has(s2c', "EchoRep")
    <2>1. CASE SrvAnswers
      <3>1. c2s # << >> /\ c2s' = Tail(c2s) /\ c2s \in Seq(Msgs)
        BY <1>1, <2>1 DEF SrvAnswers, QueueTypes
      <3>2. /\ Tail(c2s) \in Seq(Msgs)
            /\ \A m : Has(c2s, m) <=> Head(c2s) = m \/ Has(Tail(c2s), m)
            /\ \A m : Only(c2s, m) => Head(c2s) = m /\ Only(Tail(c2s), m)
        BY <3>1, HasTail
      <3>3. Head(c2s) = "EchoReq" => s2c' = Append(s2c, "EchoRep")
        BY <2>1 DEF SrvAnswers, SrvSends
      <3>4. "EchoRep" \in SrvMsgs /\ s2c \in Seq(SrvMsgs)
        BY <1>1 DEF SrvMsgs, QueueTypes
      <3>5. Head(c2s) = "EchoReq" => Has(s2c', "EchoRep")
        <4>1. Has(Append(s2c, "EchoRep"), "EchoRep")
          BY <3>4, HasAppend
        <4> QED  BY <3>3, <4>1
      <3> QED  BY <3>1, <3>2, <3>5
    <2>2. CASE c2s' = c2s
      BY <1>1, <2>2 DEF QueueTypes
    <2> QED  BY <2>1, <2>2 DEF SrvPpp, SrvEcho, SrvEnds, SrvSilent
  <1>9. (Trusted' <=> Trusted) /\ (SystemTrusts' <=> SystemTrusts)
    BY <1>2, TrustKept DEF Kept
  <1>10. QueueTypes' /\ pppd' \in BOOLEAN
    BY <1>1, <1>2, <1>7, <1>8 DEF QueueTypes
  <1>11. NameTypes' /\ EchoAbortOnlyIfSilent'
    BY <1>1, <1>2, <1>4, <1>5 DEF NameTypes, EchoAbortOnlyIfSilent
  <1>12. NumberTypes'
    BY <1>1, <1>2, <1>3 DEF NumberTypes
  <1>13. EchoPending'
    BY <1>1, <1>2, <1>4, <1>7, <1>8 DEF EchoPending, Calling
  <1>14. HelloAlone' /\ Listens' /\ (Starting' => echo' = 0) /\ TrustByPhase'
    BY <1>1, <1>2, <1>8, <1>9 DEF HelloAlone, Listens, Starting, Calling, TrustByPhase
  <1> QED  BY <1>10, <1>11, <1>12, <1>13, <1>14, TypeParts DEF SessionInv

\* Every step keeps the invariant.
LEMMA NextKeeps ==
    ASSUME SessionInv, [Next]_vars
    PROVE  SessionInv'
  <1>1. CASE ConnectsAtOnce \/ ConnectComplete \/ HttpTimeout \/ RecvFails
    BY <1>1, AreEnds, EndsKeeps
  <1>2. CASE \/ ConnectAckRcvd \/ ConnectNakRcvd \/ AbortRcvd \/ DisconnectRcvd
             \/ DisconnectAckRcvd \/ UnreadableRcvd \/ EchoRequestRcvd
             \/ EchoReplyRcvd \/ PppRcvd \/ PppUp \/ PppSends
    BY <1>2, AreHandles, HandlesKeeps
  <1>3. CASE HandshakeComplete
    BY <1>3, HandshakeKeeps
  <1>4. CASE HttpRcvd
    BY <1>4, HttpRcvdKeeps
  <1>5. CASE RecvTimeout
    BY <1>5, RecvTimeoutKeeps
  <1>6. CASE Writable
    BY <1>6, WritableKeeps
  <1>7. CASE WriteFails \/ WritesNothing
    BY <1>7, WriteFailsKeeps
  <1>8. CASE SrvAnswers \/ SrvPpp \/ SrvEcho \/ SrvEnds \/ SrvSilent
    BY <1>8, ServerKeeps
  <1>9. CASE UNCHANGED vars
    BY <1>9 DEF SessionInv, vars, clientVars, TypeOK, HelloAlone, Listens, TrustByPhase,
       Starting, Calling, EchoPending, EchoAbortOnlyIfSilent, Trusted, SystemTrusts
  <1> QED
    BY <1>1, <1>2, <1>3, <1>4, <1>5, <1>6, <1>7, <1>8, <1>9
       DEF Next, Receives, Timeouts, Connects

\* SessionInv holds throughout a session.
THEOREM SessionInvariant == Spec => []SessionInv
  <1>1. Init => SessionInv
    BY InitSession
  <1>2. SessionInv /\ [Next]_vars => SessionInv'
    BY NextKeeps
  <1> QED  BY <1>1, <1>2, PTL DEF Spec

\* Every variable keeps its type; the echo counter never passes MaxEcho + 1.
THEOREM TypeCorrect == Spec => []TypeOK
  <1>1. SessionInv => TypeOK
    BY DEF SessionInv
  <1> QED  BY <1>1, SessionInvariant, PTL

\* In every phase the session is either writing its HTTP request or has the
\* reader armed that the phase needs.
THEOREM Listening == Spec => []NeverDeaf
  <1>1. SessionInv => NeverDeaf
    <2> SUFFICES ASSUME SessionInv PROVE NeverDeaf
      OBVIOUS
    <2>1. phase = "hello" => \E i \in DOMAIN txq : txq[i] = "hello"
      <3>1. phase = "hello" => txq = <<"hello">>
        BY DEF SessionInv, HelloAlone
      <3>2. 1 \in DOMAIN <<"hello">> /\ <<"hello">>[1] = "hello"
        OBVIOUS
      <3> QED  BY <3>1, <3>2
    <2> QED  BY <2>1 DEF SessionInv, Listens, Calling, NeverDeaf
  <1> QED  BY <1>1, SessionInvariant, PTL

\* Only the HTTP request goes to a server the profile does not trust.
THEOREM TrustFirst == Spec => []TrustBeforeControl
  <1>1. SessionInv => TrustBeforeControl
    BY DEF SessionInv, TrustByPhase, Calling, Only, TrustBeforeControl
  <1> QED  BY <1>1, SessionInvariant, PTL

\* The echo counter ends only sessions whose server has fallen silent.
THEOREM EchoAccusesSilence == Spec => []EchoAbortOnlyIfSilent
  <1>1. SessionInv => EchoAbortOnlyIfSilent
    BY DEF SessionInv
  <1> QED  BY <1>1, SessionInvariant, PTL

=============================================================================
