---------------------------- MODULE SstpSession ----------------------------
(***************************************************************************)
(* One SSTP connection from TCP connect to the established call: the       *)
(* callbacks of sstp/sstp-ios.c (ios_connected, ios_http_done,             *)
(* ios_state_cb, ios_pppd_cb), the HTTP upgrade (sstp/sstp-http.c), the    *)
(* control state machine (sstp/sstp-state.c) and the way they arm the      *)
(* stream's connect, send and receive events (sstp/sstp-stream.c).         *)
(*                                                                         *)
(* All of it runs in the libevent loop of the worker thread: one callback  *)
(* is one action.  sstp_ios_fail_ex leaves the loop by longjmp, so nothing *)
(* written after a call that fails is executed.                            *)
(*                                                                         *)
(* PPP itself is IosPppd; here it is the frames it sends and the events it *)
(* raises.  The server is external: it may refuse, disconnect, abort, send *)
(* what cannot be parsed, or fall silent.                                  *)
(***************************************************************************)
EXTENDS Integers, Sequences

CONSTANTS
    TlsModes,    \* trust modes a profile may select
    MaxEcho,     \* unanswered Echo-Requests tolerated (4 in the code)
    MaxFrames,   \* bound: PPP frames of each side
    MaxSrvEcho   \* bound: Echo-Requests of the server

ASSUME SessionAssumption ==
    /\ TlsModes \subseteq {"system", "custom_ca", "pinned", "insecure"}
    /\ MaxEcho \in Nat /\ MaxFrames \in Nat /\ MaxSrvEcho \in Nat

VARIABLES
    tls_mode, cert,   \* the profile's trust mode; what is true of the server
    phase, code, why, \* progress; the code given to fail_ex, and what led to it
    recv,             \* the reader whose receive event is armed
    txq,              \* operations the stream still has to write
    echo,             \* struct sstp_state: unanswered Echo-Requests
    pppd,             \* client.pppd exists and forwards data
    c2s, s2c,         \* messages on their way
    srv, call,        \* is the server answering; its side of the call
    count             \* bounded counters

clientVars == <<tls_mode, phase, code, why, recv, txq, echo, pppd>>
vars == <<clientVars, cert, c2s, s2c, srv, call, count>>

-----------------------------------------------------------------------------
Phases == {"tcp", "tls", "hello", "http", "control", "ppp", "up", "failed",
           "stalled"}
FailCodes == {"none", "tcp_timeout", "tls_handshake", "tls_cert",
              "http_upgrade", "sstp_control", "network_lost", "auth_rejected",
              "mppe_failed", "crypto_binding"}
Causes == {"none", "net", "cert", "http", "inprog", "send", "binding", "peer",
           "echo", "ppp"}
Msgs == {"hello", "ConnectReq", "Connected", "EchoReq", "EchoRep", "Disconnect",
         "DisconnectAck", "ppp"}
\* A send operation whose message another one has written.
Ops == Msgs \cup {"spent"}
\* The attributes of "BadAck" and "BadDisconnect" cannot be parsed; so it is
\* with "Unreadable", a Connect-Nak or an Abort, or a message of unknown type.
SrvMsgs == {"http200", "httpErr", "ConnectAck", "ConnectNak", "Abort", "EchoReq",
            "EchoRep", "Disconnect", "DisconnectAck", "ppp", "BadAck",
            "BadDisconnect", "Unreadable"}
\* What the verifiers find: the OpenSSL chain (a leaf refused for another reason
\* than being self-signed goes the same way), the host name and whether it is an
\* IP address, the pinned hash of the leaf, and the SecTrust verdict.
Certs == [chain : {"ok", "self_signed", "above"}, name : BOOLEAN,
          literal : BOOLEAN, pin : BOOLEAN, system : BOOLEAN]

Alive == phase \notin {"failed", "stalled"}

\* sstp_ios_fail_ex: the first failure ends the loop.
Fails(c, w) == phase' = "failed" /\ code' = c /\ why' = w /\ recv' = "off"
Goes(p, r) == phase' = p /\ recv' = r /\ UNCHANGED <<code, why>>

\* sstp-state.c builds every control message in one buffer, tx_buf.  The first
\* operation that waits with it writes what is there by then, or what SSL_write
\* holds of it from before; the others find no bytes left to write.
Shares(op) == op \notin {"hello", "ppp"}
Queues(m) ==
    LET waiting == {i \in DOMAIN txq : Shares(txq[i])}
    IN  \/ /\ ~Shares(m) \/ waiting = {}
           /\ txq' = Append(txq, m)
        \/ /\ Shares(m)
           /\ \E i \in waiting :
                /\ \A j \in waiting : i <= j
                /\ \E written \in {m, txq[i]} \ {"spent"} :
                     txq' = Append([txq EXCEPT ![i] = written], "spent")

\* sstp_stream_send: SSTP_INPROG behind an operation under way or when the
\* socket is full, else the whole message is written, or the connection is
\* broken and the server not heard of again.
Sends(m, status) ==
    \/ /\ status = "okay" /\ txq = << >>
       /\ c2s' = Append(c2s, m) /\ UNCHANGED <<txq, srv>>
    \/ /\ status = "inprog"
       /\ Queues(m) /\ UNCHANGED <<c2s, srv>>
    \/ /\ status = "fail" /\ txq = << >>
       /\ srv' = "silent" /\ UNCHANGED <<txq, c2s>>
NoSend == UNCHANGED <<txq, c2s, srv>>
Statuses == {"okay", "inprog", "fail"}

-----------------------------------------------------------------------------
(* Trust.                                                                  *)

\* ios_verify_callback during the handshake, with SSL_set1_host unless the host
\* is an IP address: the system mode defers, the pinned mode looks at the leaf's
\* hash alone.
HandshakeAccepts ==
    CASE tls_mode \in {"system", "insecure"} -> TRUE
      [] tls_mode = "pinned" -> cert.pin /\ cert.chain # "above"
      [] OTHER -> cert.chain = "ok" /\ (cert.name \/ cert.literal)

\* ios_evaluate_system_trust after the handshake.
SystemTrusts == tls_mode = "system" => cert.system

\* Variant: the handshake's verdict is taken for the whole of it.
HandshakeSuffices == TRUE
\* ios_http_done: OpenSSL's verdict, the name and the pin once more.
PostHttpAccepts ==
    tls_mode \in {"custom_ca", "pinned"} =>
        /\ cert.chain = "ok" /\ cert.name
        /\ tls_mode = "pinned" => cert.pin

-----------------------------------------------------------------------------
(* Connecting.                                                             *)

\* connect() succeeded at once: start_ex goes on, but no event is armed.
ConnectsAtOnce ==
    /\ phase = "tcp"
    /\ Goes("stalled", "off")
    /\ UNCHANGED <<tls_mode, cert, txq, echo, pppd, c2s, s2c, srv, call, count>>

\* sstp_connect_complete: the connect timed out, SSL_new failed, or TLS starts.
ConnectComplete ==
    /\ phase = "tcp"
    /\ \/ Fails("tcp_timeout", "net")
       \/ Fails("tls_handshake", "net")
       \/ srv = "up" /\ Goes("tls", "off")
    /\ UNCHANGED <<tls_mode, cert, txq, echo, pppd, c2s, s2c, srv, call, count>>

\* sstp_ssl_handshake_cont ends: error or timeout, certificate refused, or
\* ios_connected evaluates system trust and sends the HTTP request; written at
\* once, the receiver is armed (sstp_http_send_complete).
HandshakeComplete ==
    /\ phase = "tls"
    /\ \/ /\ \/ Fails("tls_handshake", "net")
             \/ ~HandshakeAccepts /\ Fails("tls_cert", "cert")
             \/ HandshakeAccepts /\ ~SystemTrusts /\ Fails("tls_cert", "cert")
          /\ NoSend
       \/ /\ srv = "up" /\ HandshakeAccepts /\ SystemTrusts
          /\ \E status \in Statuses :
               /\ Sends("hello", status)
               /\ CASE status = "okay" -> Goes("http", "http")
                    [] status = "inprog" -> Goes("hello", "off")
                    [] OTHER -> Fails("http_upgrade", "send")
    /\ UNCHANGED <<tls_mode, cert, echo, pppd, s2c, call, count>>

\* sstp_recv_hello_complete and ios_http_done: wrong answer, certificate
\* refused, or the state machine is created (its receiver armed) and
\* sstp_state_start sends the Connect-Request.  Anything but a complete write
\* aborts the call.
HttpRcvd ==
    /\ phase = "http" /\ s2c # << >>
    /\ s2c' = Tail(s2c)
    /\ \/ /\ \/ Head(s2c) # "http200" /\ Fails("http_upgrade", "http")
             \/ /\ Head(s2c) = "http200" /\ ~PostHttpAccepts
                /\ Fails("tls_cert", "cert")
          /\ NoSend
       \/ /\ Head(s2c) = "http200" /\ PostHttpAccepts
          /\ \E status \in Statuses :
               /\ Sends("ConnectReq", status)
               /\ CASE status = "okay" -> Goes("control", "sstp")
                    [] status = "inprog" -> Fails("sstp_control", "inprog")
                    [] OTHER -> Fails("sstp_control", "send")
    /\ UNCHANGED <<tls_mode, cert, echo, pppd, call, count>>

-----------------------------------------------------------------------------
(* The control state machine.                                              *)

\* sstp_state_recv with a packet; every handler ends by arming the receiver
\* again (sstp_stream_req_recv), unless the call failed.
Takes(m) ==
    /\ phase \in {"control", "ppp", "up"} /\ recv = "sstp"
    /\ s2c # << >> /\ Head(s2c) = m
    /\ s2c' = Tail(s2c)
    /\ UNCHANGED <<tls_mode, cert, call>>

\* sstp_state_connect_ack and SSTP_CALL_CONNECT: PPP starts with LCP.
ConnectAckRcvd ==
    /\ Takes("ConnectAck")
    /\ pppd' = TRUE
    /\ Goes("ppp", "sstp")
    /\ \E status \in Statuses : Sends("ppp", status)
    /\ UNCHANGED <<echo, count>>

\* The result of sending Disconnect is not looked at: the session waits for
\* the answer.
ConnectNakRcvd ==
    /\ Takes("ConnectNak")
    /\ \E status \in Statuses : Sends("Disconnect", status)
    /\ UNCHANGED <<phase, code, why, recv, echo, pppd, count>>

AbortRcvd ==
    /\ Takes("Abort")
    /\ Fails("sstp_control", "peer")
    /\ NoSend
    /\ UNCHANGED <<echo, pppd, count>>

DisconnectRcvd ==
    /\ Takes("Disconnect")
    /\ \E status \in Statuses : Sends("DisconnectAck", status)
    /\ Fails("sstp_control", "peer")
    /\ UNCHANGED <<echo, pppd, count>>

DisconnectAckRcvd ==
    /\ Takes("DisconnectAck")
    /\ Fails("sstp_control", "peer")
    /\ NoSend
    /\ UNCHANGED <<echo, pppd, count>>

\* Unparsable attributes: sstp_state_connect_ack aborts, a disconnect is not
\* acknowledged, and anything else is passed over.
UnreadableRcvd ==
    /\ \/ /\ Takes("BadAck") \/ Takes("BadDisconnect")
          /\ Fails("sstp_control", "peer")
       \/ Takes("Unreadable") /\ UNCHANGED <<phase, code, why, recv>>
    /\ NoSend
    /\ UNCHANGED <<echo, pppd, count>>

EchoRequestRcvd ==
    /\ Takes("EchoReq")
    /\ \E status \in Statuses : Sends("EchoRep", status)
    /\ UNCHANGED <<phase, code, why, recv, echo, pppd, count>>

\* Variant: an Echo-Reply leaves the counter alone.
EchoKept == echo
\* The counter after an Echo-Reply.
EchoAfterReply == 0

EchoReplyRcvd ==
    /\ Takes("EchoRep")
    /\ echo' = EchoAfterReply
    /\ NoSend
    /\ UNCHANGED <<phase, code, why, recv, pppd, count>>

\* A PPP frame: sstp_state_handle_data forwards it to ppp_dispatch, which may
\* go on, or end the session.
PppRcvd ==
    /\ Takes("ppp") /\ pppd
    /\ \/ UNCHANGED <<phase, code, why, recv>>
       \/ Fails("network_lost", "ppp")
       \/ Fails("auth_rejected", "ppp")
       \/ Fails("mppe_failed", "ppp")
    /\ NoSend
    /\ UNCHANGED <<echo, pppd, count>>

\* SSTP_PPP_UP: sstp_state_accept computes the crypto binding and sends
\* Call-Connected.  Failing to compute it, or a write that is not complete at
\* once, calls SSTP_CALL_ABORT, which never returns here.
PppUp ==
    /\ Takes("ppp") /\ pppd /\ phase = "ppp"
    /\ \/ Fails("sstp_control", "binding") /\ NoSend
       \/ \E status \in Statuses :
            /\ Sends("Connected", status)
            /\ CASE status = "okay" -> Goes("up", "sstp")
                 [] status = "inprog" -> Fails("sstp_control", "inprog")
                 [] OTHER -> Fails("sstp_control", "send")
    /\ UNCHANGED <<echo, pppd, count>>

\* Frames ios-pppd.c sends on its own account; their status is ignored.
PppSends ==
    /\ phase \in {"ppp", "up"} /\ count.ppp < MaxFrames
    /\ \E status \in Statuses : Sends("ppp", status)
    /\ count' = [count EXCEPT !.ppp = @ + 1]
    /\ UNCHANGED <<tls_mode, cert, phase, code, why, recv, echo, pppd, s2c, call>>

\* Sixty seconds without a packet.  A server that answers does so in less.
Quiet == s2c = << >> /\ (srv = "up" => c2s = << >> /\ txq = << >>)

HttpTimeout ==
    /\ phase = "http" /\ recv = "http" /\ Quiet
    /\ Fails("http_upgrade", "net")
    /\ UNCHANGED <<tls_mode, cert, txq, echo, pppd, c2s, s2c, srv, call, count>>

\* Variant: the receiver is not armed again after a timeout.
DeafAfterTimeout == "off"
\* sstp_state_recv arms the receiver again.
RecvAfterTimeout == "sstp"

\* Variant: one Echo-Request too many.
EchoLimitLate == echo > MaxEcho + 1
\* `if (ctx->echo > 4)'.
TooManyEchoes == echo > MaxEcho

\* sstp_state_recv's SSTP_TIMEOUT: too many unanswered Echo-Requests abort,
\* else one more is sent (and counted whether or not it could be).
RecvTimeout ==
    /\ phase \in {"control", "ppp", "up"} /\ recv = "sstp" /\ Quiet
    /\ IF TooManyEchoes
         THEN Fails("sstp_control", "echo") /\ NoSend /\ UNCHANGED echo
         ELSE /\ \E status \in Statuses : Sends("EchoReq", status)
              /\ echo' = echo + 1
              /\ recv' = RecvAfterTimeout
              /\ UNCHANGED <<phase, code, why>>
    /\ UNCHANGED <<tls_mode, cert, pppd, s2c, call, count>>

\* The connection breaks: the reader's callback gets SSTP_FAIL.
RecvFails ==
    /\ recv # "off"
    /\ IF recv = "http" THEN Fails("http_upgrade", "net")
                        ELSE Fails("sstp_control", "net")
    /\ UNCHANGED <<tls_mode, cert, txq, echo, pppd, c2s, s2c, srv, call, count>>

\* sstp_send_cont: the socket takes the next operation; the HTTP request's
\* completion arms the receiver, the others have nothing to do.
Writable ==
    /\ Alive /\ txq # << >> /\ Head(txq) # "spent"
    /\ txq' = Tail(txq)
    /\ c2s' = Append(c2s, Head(txq))
    /\ IF Head(txq) = "hello" THEN Goes("http", "http")
                              ELSE UNCHANGED <<phase, code, why, recv>>
    /\ UNCHANGED <<tls_mode, cert, echo, pppd, s2c, srv, call, count>>

\* tx_buf is written already: SSL_write of no bytes is an error, and
\* sstp_state_send_complete ends the session.
WritesNothing ==
    /\ Alive /\ txq # << >> /\ Head(txq) = "spent"
    /\ txq' = Tail(txq)
    /\ Fails("sstp_control", "send")
    /\ UNCHANGED <<tls_mode, cert, echo, pppd, c2s, s2c, srv, call, count>>

\* The write fails: the connection is broken, or SSL_write refuses another
\* buffer than the one it holds.  sstp_http_send_complete and
\* sstp_state_send_complete end the session, ppp_send_complete does not.
WriteFails ==
    /\ Alive /\ txq # << >>
    /\ txq' = Tail(txq)
    /\ CASE Head(txq) = "hello" -> Fails("http_upgrade", "send")
         [] Head(txq) = "ppp" -> UNCHANGED <<phase, code, why, recv>>
         [] OTHER -> Fails("sstp_control", "send")
    /\ srv' \in {srv, "silent"}
    /\ UNCHANGED <<tls_mode, cert, echo, pppd, c2s, s2c, call, count>>

-----------------------------------------------------------------------------
(* The server (external).                                                  *)

SrvSends(m) == srv = "up" /\ s2c' = Append(s2c, m)

\* It answers requests in order.
SrvAnswers ==
    /\ srv = "up" /\ c2s # << >>
    /\ c2s' = Tail(c2s)
    /\ CASE Head(c2s) = "hello" ->
              \E m \in {"http200", "httpErr"} : SrvSends(m) /\ UNCHANGED call
         [] Head(c2s) = "ConnectReq" ->
              \/ SrvSends("ConnectAck") /\ call' = "acked"
              \/ SrvSends("ConnectNak") /\ call' = "refused"
              \/ SrvSends("BadAck") /\ UNCHANGED call
              \/ SrvSends("Unreadable") /\ UNCHANGED call
         [] Head(c2s) = "EchoReq" -> SrvSends("EchoRep") /\ UNCHANGED call
         [] Head(c2s) = "Disconnect" ->
              SrvSends("DisconnectAck") /\ call' = "closed"
         [] OTHER -> UNCHANGED <<s2c, call>>
    /\ UNCHANGED <<clientVars, cert, srv, count>>

SrvPpp ==
    /\ call = "acked" /\ count.srvppp < MaxFrames
    /\ SrvSends("ppp")
    /\ count' = [count EXCEPT !.srvppp = @ + 1]
    /\ UNCHANGED <<clientVars, cert, c2s, srv, call>>

SrvEcho ==
    /\ call = "acked" /\ count.srvecho < MaxSrvEcho
    /\ SrvSends("EchoReq")
    /\ count' = [count EXCEPT !.srvecho = @ + 1]
    /\ UNCHANGED <<clientVars, cert, c2s, srv, call>>

SrvEnds ==
    /\ call = "acked"
    /\ \E m \in {"Abort", "Disconnect", "BadDisconnect"} : SrvSends(m)
    /\ call' = "closed"
    /\ UNCHANGED <<clientVars, cert, c2s, srv, count>>

\* The server or the network goes quiet for good.
SrvSilent ==
    /\ srv = "up"
    /\ srv' = "silent"
    /\ UNCHANGED <<clientVars, cert, c2s, s2c, call, count>>

-----------------------------------------------------------------------------
Init ==
    /\ tls_mode \in TlsModes /\ cert \in Certs
    /\ phase = "tcp" /\ code = "none" /\ why = "none" /\ recv = "off"
    /\ txq = << >> /\ echo = 0 /\ pppd = FALSE
    /\ c2s = << >> /\ s2c = << >>
    /\ srv = "up" /\ call = "none"
    /\ count = [ppp |-> 0, srvppp |-> 0, srvecho |-> 0]

Receives ==
    \/ HttpRcvd \/ ConnectAckRcvd \/ ConnectNakRcvd \/ AbortRcvd
    \/ DisconnectRcvd \/ DisconnectAckRcvd \/ UnreadableRcvd
    \/ EchoRequestRcvd \/ EchoReplyRcvd \/ PppRcvd \/ PppUp
Timeouts == HttpTimeout \/ RecvTimeout
Connects == ConnectComplete \/ HandshakeComplete

Next ==
    \/ ConnectsAtOnce \/ Connects \/ Receives \/ PppSends \/ Timeouts
    \/ RecvFails \/ Writable \/ WritesNothing \/ WriteFails
    \/ SrvAnswers \/ SrvPpp \/ SrvEcho \/ SrvEnds \/ SrvSilent

Spec == Init /\ [][Next]_vars

\* The event loop runs, its timers fire, the kernel takes what fits its
\* buffer, and a server that is not silent answers.
FairSpec ==
    /\ Spec
    /\ WF_vars(Connects) /\ WF_vars(Receives) /\ WF_vars(Timeouts)
    /\ WF_vars(Writable \/ WritesNothing) /\ WF_vars(SrvAnswers)

-----------------------------------------------------------------------------
(* Properties.                                                             *)

\* Every variable keeps its type, and the Echo-Requests their limit.
TypeOK ==
    /\ tls_mode \in TlsModes /\ cert \in Certs
    /\ phase \in Phases /\ code \in FailCodes /\ why \in Causes
    /\ recv \in {"off", "http", "sstp"}
    /\ txq \in Seq(Ops) /\ c2s \in Seq(Msgs) /\ s2c \in Seq(SrvMsgs)
    /\ echo \in 0 .. MaxEcho + 1 /\ pppd \in BOOLEAN
    /\ srv \in {"up", "silent"}
    /\ call \in {"none", "acked", "refused", "closed"}
    /\ count \in [ppp : Nat, srvppp : Nat, srvecho : Nat]

\* A connection is never deaf: once the HTTP request is out, the reader of the
\* current phase is armed, and before that the request is still being written.
NeverDeaf ==
    /\ phase = "hello" => \E i \in DOMAIN txq : txq[i] = "hello"
    /\ phase = "http" => recv = "http"
    /\ phase \in {"control", "ppp", "up"} => recv = "sstp"

\* What the profile's trust mode asks of the server's certificate
\* (docs/sstp-engine.md): SecTrust's verdict, a chain to the given CA and the
\* host's name, or the pin.
Trusted ==
    CASE tls_mode = "system" -> cert.system
      [] tls_mode = "custom_ca" -> cert.chain = "ok" /\ cert.name
      [] tls_mode = "pinned" -> cert.pin
      [] OTHER -> TRUE

\* The certificate is looked at in three places (ios_verify_callback,
\* ios_evaluate_system_trust, ios_http_done), none of which decides alone in
\* every mode and for every host.  No SSTP control message, and so no
\* credentials, goes out before all that the mode asks for is established.
\* (ios_http_done asks for chain and name in the pinned mode too, and so refuses
\* the self-signed server whose pin is right that the documents let in: see the
\* README.)
TrustBeforeControl ==
    \/ Trusted
    \/ /\ phase \notin {"control", "ppp", "up"}
       /\ \A i \in DOMAIN c2s : c2s[i] = "hello"

\* The echo counter ends a session only when the server has fallen silent.
EchoAbortOnlyIfSilent == why = "echo" => srv = "silent"

\* A silent server is noticed in every phase, and a refused call ends.  (Not
\* claimed is the session whose connect() succeeded at once, "stalled": it has no
\* event armed, and a nonblocking TCP socket does not get there.)
SilenceNoticed ==
    srv = "silent" \/ call \in {"refused", "closed"} ~> ~Alive

\* A failed crypto binding is reported as such.
BindingFailureNamed == why = "binding" => code = "crypto_binding"

=============================================================================
