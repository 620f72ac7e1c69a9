------------------------------ MODULE SstpRecv ------------------------------
(***************************************************************************)
(* The receive side of sstp/sstp-stream.c under sstp_state_recv: SSTP      *)
(* packets out of a stream of TLS records.                                 *)
(*                                                                         *)
(* The server puts the bytes of its packets into records as it likes.      *)
(* SSL_read returns bytes of one record at a time; what it has decrypted   *)
(* and not returned is out of the event loop's sight, which watches the    *)
(* socket.  A byte is known by its packet and its place in it, and has a   *)
(* value only where the code looks at it: the two bytes of the length.     *)
(* The model ends with the first packet that is handed on wrong (lost).    *)
(* A Connect-Ack, after which reading pauses, is in module SstpSession.    *)
(***************************************************************************)
EXTENDS Integers, Sequences

CONSTANTS
    Base,           \* values of a byte, 256 in the code
    Lens,           \* lengths of the server's packets, header included
    EchoLen,        \* length of an Echo-Reply
    EchoLimit,      \* requests a silent session is allowed, 4 in the code
    MaxPackets,     \* bound: packets of the server
    MaxBytes,       \* bound: bytes OpenSSL has not decrypted
    MaxRecords,     \* bound: records in the network and the socket
    MaxAsked        \* bound: Echo-Requests that wait at the server

ASSUME RecvAssumption ==
    /\ Base \in Nat \ {0}
    /\ Lens \subseteq 4 .. Base * Base - 1 /\ EchoLen \in 4 .. Base * Base - 1
    /\ EchoLimit \in Nat \ {0} /\ MaxPackets \in Nat
    /\ MaxBytes \in Nat /\ MaxRecords \in Nat /\ MaxAsked \in Nat

VARIABLES
    \* the server and the network
    stream,         \* bytes the server has sent and SSL_read not returned
    unsent,         \* how many of them are in no record yet
    net,            \* where in stream the records not yet decrypted end
    made,           \* packets sent, without Echo-Replies
    asked,          \* Echo-Requests without an answer
    \* the client
    rec,            \* bytes of stream OpenSSL has decrypted and not returned
    buf,            \* rx_buf up to its offset
    length,         \* the bytes of rx_buf that hold the length
    armed,          \* ev_recv is pending
    reading,        \* sstp_stream_recv_sstp is in its loop
    echo,           \* ctx->echo
    over,           \* why the session ended
    \* observations
    got,            \* packets handed on
    first,          \* nothing was handed on yet
    late,           \* a timeout came before an answer did
    cut,            \* a timeout dropped a part of a packet
    split,          \* bytes of the header that came in a record of their own
    lost            \* something else than a packet was handed on

serverVars == <<stream, unsent, made, asked>>
clientVars == <<rec, buf, length, echo>>
obsVars == <<got, first, late, cut, split, lost>>
vars == <<serverVars, net, clientVars, armed, reading, over, obsVars>>

-----------------------------------------------------------------------------
HeaderLen == 4
EchoReply == 0
Packet(p, n) == [i \in 1 .. n |-> [packet |-> p, at |-> i, of |-> n]]
Whole(s) == s = Packet(s[1].packet, s[1].of)

\* The length's bytes after s was read into a buffer that is filled up to off:
\* a byte at the place of a length byte that is not one is taken for zero.
LengthByte(b) == CASE b.at = 3 -> b.of \div Base
                   [] b.at = 4 -> b.of % Base
                   [] OTHER -> 0
LengthAfter(old, off, s) ==
    [i \in {3, 4} |-> IF i - off \in DOMAIN s THEN LengthByte(s[i - off]) ELSE old[i]]
sstp_pkt_len(l) == l[3] * Base + l[4]

Live == over = "no" /\ ~lost

-----------------------------------------------------------------------------
(* The server and the network (external).                                  *)

ServerSends(n) ==
    /\ Live /\ made < MaxPackets /\ Len(stream) - rec + n <= MaxBytes
    /\ made' = made + 1
    /\ stream' = stream \o Packet(made + 1, n)
    /\ unsent' = unsent + n
    /\ UNCHANGED <<net, asked, clientVars, armed, reading, over, obsVars>>

ServerAnswers ==
    /\ Live /\ asked > 0 /\ Len(stream) - rec + EchoLen <= MaxBytes
    /\ asked' = asked - 1
    /\ stream' = stream \o Packet(EchoReply, EchoLen)
    /\ unsent' = unsent + EchoLen
    /\ UNCHANGED <<net, made, clientVars, armed, reading, over, obsVars>>

\* A record of n bytes.
ServerWrites(n) ==
    /\ Live /\ n \in 1 .. unsent /\ Len(net) < MaxRecords
    /\ net' = Append(net, Len(stream) - unsent + n)
    /\ unsent' = unsent - n
    /\ UNCHANGED <<stream, made, asked, clientVars, armed, reading, over,
                   obsVars>>

-----------------------------------------------------------------------------
(* The client.                                                             *)

\* ev_recv fires for a readable socket: sstp_recv_cont calls
\* sstp_stream_recv_sstp.
Readable ==
    /\ Live /\ armed /\ net # << >>
    /\ armed' = FALSE /\ reading' = TRUE
    /\ UNCHANGED <<serverVars, net, clientVars, over, obsVars>>

\* Variant: as much as the buffer holds.
WantMax == Base * Base
\* How much SSL_read is asked for: the header first, then the packet.
Want == (IF Len(buf) >= HeaderLen THEN sstp_pkt_len(length) ELSE HeaderLen)
        - Len(buf)

\* Variant: an Echo-Reply is ignored.
EchoKept(s) == echo
\* sstp_state_handle_packet: what becomes of ctx->echo.
EchoAfter(s) == IF Whole(s) /\ s[1].packet = EchoReply THEN 0 ELSE echo

\* Variant: the event is not added again.
NotRearmed == FALSE
\* sstp_stream_req_recv at the end of sstp_state_recv.
Rearmed == TRUE

\* sstp_state_recv with SSTP_OKAY and s in the buffer: the packet is handled,
\* the buffer reset and the read event added again.
Handle(s) ==
    /\ echo' = EchoAfter(s)
    /\ buf' = << >> /\ reading' = FALSE /\ armed' = Rearmed
    /\ first' = (first /\ ~Whole(s))
    /\ lost' = ~(Whole(s) /\ s[1].packet \in {EchoReply, got + 1})
    /\ got' = IF Whole(s) /\ s[1].packet = got + 1 THEN got + 1 ELSE got

\* One turn of the loop that gets bytes: from the record at hand, or from the
\* next one.
ReadTurn ==
    /\ Live /\ reading /\ (rec > 0 \/ net # << >>)
    /\ LET size == IF rec > 0 THEN rec ELSE Head(net)
           later == IF rec > 0 THEN net ELSE Tail(net)
           n == IF Want < size THEN Want ELSE size
           s == buf \o SubSeq(stream, 1, n)
       IN  /\ rec' = size - n
           /\ net' = [i \in DOMAIN later |-> later[i] - n]
           /\ stream' = SubSeq(stream, n + 1, Len(stream))
           /\ length' = LengthAfter(length, Len(buf), SubSeq(stream, 1, n))
           /\ IF Len(s) < sstp_pkt_len(length')
                THEN /\ buf' = s
                     /\ UNCHANGED <<echo, reading, armed, first, lost, got>>
                ELSE Handle(s)
           /\ split' = IF Len(s) < HeaderLen THEN Len(s)
                       ELSE IF buf = << >> \/ (buf' = << >> /\ ~lost') THEN 0
                       ELSE split
    /\ UNCHANGED <<unsent, made, asked, over, late, cut>>

\* The turn that would block: sstp_operation_add_read, and the buffer is kept.
ReadBlocks ==
    /\ Live /\ reading /\ rec = 0 /\ net = << >>
    /\ reading' = FALSE /\ armed' = TRUE
    /\ UNCHANGED <<serverVars, net, clientVars, over, obsVars>>

\* Any other error: sstp_state_recv with SSTP_FAIL, which ends the session.
ReadFails ==
    /\ Live /\ reading
    /\ reading' = FALSE /\ over' = "failed"
    /\ UNCHANGED <<serverVars, net, clientVars, armed, obsVars>>

\* Variant: a timeout only resets the buffer.
NoRequest == UNCHANGED <<echo, asked>>
\* sstp_state_echo_request.
sstp_state_echo_request == echo' = echo + 1 /\ asked' = asked + 1

\* Variant: one request more.
Patient == echo >= EchoLimit + 2
\* The check that ends a silent session.
Silent == echo > EchoLimit

\* An answer of the server is owed or on its way to the socket's reader.
AnswerDue == asked > 0 \/ unsent > 0 \/ net # << >>

\* ev_recv's sixty seconds are over, whatever the socket has by then:
\* sstp_state_recv with SSTP_TIMEOUT.
Timeout ==
    /\ Live /\ armed
    /\ \/ /\ Silent
          /\ over' = "silent" /\ armed' = FALSE
          /\ UNCHANGED <<echo, asked, buf, cut>>
       \/ /\ ~Silent /\ asked < MaxAsked
          /\ sstp_state_echo_request
          /\ buf' = << >> /\ cut' = (cut \/ buf # << >>)
          /\ UNCHANGED <<over, armed>>
    /\ late' = (late \/ AnswerDue)
    /\ UNCHANGED <<stream, unsent, made, net, rec, length, reading, got, first,
                   split, lost>>

-----------------------------------------------------------------------------
Init ==
    /\ stream = << >> /\ unsent = 0 /\ net = << >> /\ made = 0 /\ asked = 0
    /\ rec = 0 /\ buf = << >> /\ length = [i \in {3, 4} |-> 0]
    /\ armed = TRUE /\ reading = FALSE /\ echo = 0 /\ over = "no"
    /\ got = 0 /\ first = TRUE /\ late = FALSE /\ cut = FALSE /\ split = 0 /\ lost = FALSE

Server ==
    \/ \E n \in Lens : ServerSends(n)
    \/ ServerAnswers
Writes == \E n \in 1 .. unsent : ServerWrites(n)
Client == Readable \/ ReadTurn \/ ReadBlocks \/ ReadFails

Next == Server \/ Writes \/ Client \/ Timeout

Spec == Init /\ [][Next]_vars

\* The loop runs, its event has a timeout, and TCP carries what the server
\* writes.  The server need neither send nor answer, as long as fewer than
\* MaxAsked requests wait.
FairSpec ==
    /\ Spec
    /\ WF_vars(Client) /\ WF_vars(Timeout) /\ WF_vars(Writes)
    /\ WF_vars(asked = MaxAsked /\ ServerAnswers)

-----------------------------------------------------------------------------
(* Properties.                                                             *)

\* Every variable keeps its type, and the records follow one another in the
\* stream up to the bytes that are in no record yet.
TypeOK ==
    /\ \A i \in DOMAIN stream :
          /\ stream[i].packet \in 0 .. MaxPackets
          /\ stream[i].of \in Lens \cup {EchoLen}
          /\ stream[i].at \in 1 .. stream[i].of
    /\ rec \in Nat /\ unsent \in Nat
    /\ \A i \in DOMAIN net : net[i] > rec
    /\ \A i, j \in DOMAIN net : i < j => net[i] < net[j]
    /\ (IF net = << >> THEN rec ELSE net[Len(net)]) + unsent = Len(stream)
    /\ made \in 0 .. MaxPackets /\ asked \in 0 .. MaxAsked
    /\ length \in [{3, 4} -> 0 .. Base - 1]
    /\ armed \in BOOLEAN /\ reading \in BOOLEAN /\ ~(armed /\ reading)
    /\ echo \in 0 .. EchoLimit + 1 /\ over \in {"no", "silent", "failed"}
    /\ got \in 0 .. made /\ first \in BOOLEAN /\ late \in BOOLEAN /\ cut \in BOOLEAN
    /\ split \in 0 .. 3 /\ lost \in BOOLEAN

\* Whatever records the packets come in, what is handed on is the next whole
\* packet.  Two exceptions: a timeout in the middle of a packet forgets its
\* first part, and a record that ends inside a header makes the loop compare
\* the offset with a length that is not there yet, which is harmless as long
\* as the length of the packet before is still in the buffer.
Framed == lost => cut \/ split = 3 \/ (split > 0 /\ first)

\* A session is given up as silent only if the server was late: answers that
\* came in time and wait in OpenSSL behind other packets, where no event tells
\* of them, never add up to an abort.
NoFalseAbort == over = "silent" => late

\* Every packet is handed on, also the second one of a record, which no socket
\* event announces; or the session ends.  (Timeouts may drop it in parts.)
PacketsArrive ==
    \A p \in 1 .. MaxPackets :
        made >= p ~> (got >= p \/ over # "no" \/ cut \/ lost)

=============================================================================
