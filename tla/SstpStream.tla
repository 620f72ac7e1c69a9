---------------------------- MODULE SstpStream ----------------------------
(***************************************************************************)
(* The send side of sstp/sstp-stream.c: the list of send operations, the   *)
(* write event, and SSL_write's rule that a write which would block must   *)
(* be repeated with the same buffer before any other.                      *)
(*                                                                         *)
(* It has two users on the event loop.  sstp-state.c sends every control   *)
(* message from one buffer, tx_buf; ios-pppd.c gives each frame a buffer   *)
(* of its own and hands the stream one frame at a time.  The loop of       *)
(* sstp_send_cont and the recursion of ppp_flush_start are stepped through *)
(* (resuming, flushing), and no other callback runs before they end.       *)
(***************************************************************************)
EXTENDS Integers, Sequences

CONSTANTS
    MaxCtl,     \* bound: control messages
    MaxPpp      \* bound: PPP frames

ASSUME StreamAssumption == MaxCtl \in Nat /\ MaxPpp \in Nat

VARIABLES
    send,       \* stream->send: the buffers of the queued operations
    armed,      \* ev_send is pending
    resuming,   \* sstp_send_cont is in its loop
    flushing,   \* ppp_flush_start has been called
    held,       \* what SSL_write insists on: [buf, msg], or Nothing
    tx_buf,     \* the control buffer: its message, and whether it is all sent
    pppq,       \* tx_head: frames waiting in ios-pppd.c
    inflight,   \* tx_inflight: the frame the stream has, 0 for none
    wire,       \* PPP frames written
    ctlWire,    \* control messages written
    failure,    \* why an SSL_write first failed
    dead,       \* the connection is broken
    aborted,    \* SSTP_CALL_ABORT ended the session
    count       \* bounded counters

pppVars == <<pppq, inflight>>
sslVars == <<held, tx_buf, wire, ctlWire, failure, dead>>
vars == <<send, armed, resuming, flushing, sslVars, pppVars, aborted, count>>

-----------------------------------------------------------------------------
\* Buffers: 0 is tx_buf, a PPP frame's number is its buffer.  As messages the
\* PPP frames are 1, 2, ... and the control messages -1, -2, ...
Ctl == 0
Nothing == [buf |-> -1, msg |-> 0]
Message(buf, txb) == IF buf = Ctl THEN txb.msg ELSE buf

\* What SSL_write of buffer buf may answer (external): another buffer than the
\* one it holds, or no bytes at all, is an error.
SslAnswers(buf, txb) ==
    IF dead THEN {"net"}
    ELSE IF held # Nothing /\ held.buf # buf THEN {"retry"}
    ELSE IF buf = Ctl /\ txb.sent THEN {"empty"}
    ELSE {"okay", "block", "net"}
Answers == {"okay", "block", "net", "retry", "empty"}

\* Variant: the offset stays where it was.
NotAdvanced(txb) == txb
\* The control buffer's offset after a write: there is nothing left to send.
Advanced(txb) == [txb EXCEPT !.sent = TRUE]

\* SSL_write and its answer; a held record goes out as it was first encrypted,
\* whatever the buffer holds by then.
SSL_write(buf, txb, answer) ==
    /\ answer \in SslAnswers(buf, txb)
    /\ LET msg == IF held # Nothing THEN held.msg ELSE Message(buf, txb)
       IN  /\ wire' = IF answer = "okay" /\ msg > 0
                        THEN Append(wire, msg) ELSE wire
           /\ ctlWire' = IF answer = "okay" /\ msg < 0
                           THEN Append(ctlWire, msg) ELSE ctlWire
    /\ held' = CASE answer \in {"okay", "net"} -> Nothing
                 [] answer = "block" /\ held = Nothing ->
                      [buf |-> buf, msg |-> Message(buf, txb)]
                 [] OTHER -> held
    /\ tx_buf' = IF answer = "okay" /\ buf = Ctl THEN Advanced(txb) ELSE txb
    /\ failure' = IF failure = "none" /\ answer \notin {"okay", "block"}
                    THEN answer ELSE failure
    /\ dead' = (dead \/ answer = "net")

\* Variant: the new operation waits for an event somebody else armed.
add_write_unarmed(q, buf) == send' = Append(q, buf) /\ UNCHANGED armed
\* Variant: with the event pending the operation is not queued.
add_write_once(q, buf) ==
    /\ send' = IF armed THEN q ELSE Append(q, buf)
    /\ armed' = TRUE
\* sstp_operation_add_write: append, and arm the event unless it is pending.
add_write(q, buf) == send' = Append(q, buf) /\ armed' = TRUE

\* sstp_stream_send with operations q queued: behind a pending event the
\* buffer is queued ("block"), else it is written.
stream_send(q, buf, txb, answer) ==
    IF armed
      THEN /\ answer = "block"
           /\ add_write(q, buf)
           /\ tx_buf' = txb
           /\ UNCHANGED <<held, wire, ctlWire, failure, dead>>
      ELSE /\ SSL_write(buf, txb, answer)
           /\ IF answer = "block" THEN add_write(q, buf)
                                  ELSE send' = q /\ UNCHANGED armed

-----------------------------------------------------------------------------
Idle == ~aborted /\ ~resuming /\ ~flushing

\* An Echo-Request, Echo-Reply or Disconnect of sstp-state.c, built in tx_buf
\* over whatever it held; the result of sending it is not looked at.
CtlSend(answer) ==
    /\ Idle /\ count.ctl < MaxCtl
    /\ count' = [count EXCEPT !.ctl = @ + 1]
    /\ stream_send(send, Ctl, [msg |-> -(count.ctl + 1), sent |-> FALSE], answer)
    /\ UNCHANGED <<resuming, flushing, pppVars, aborted>>

\* Variant: a frame is put in front of the queue.
PutFirst(q, frame) == <<frame>> \o q
\* The tail of ios-pppd.c's transmit list.
PutLast(q, frame) == Append(q, frame)

\* ppp_enqueue_raw.
PppSend ==
    /\ Idle /\ count.ppp < MaxPpp
    /\ count' = [count EXCEPT !.ppp = @ + 1]
    /\ pppq' = PutLast(pppq, count.ppp + 1)
    /\ flushing' = TRUE
    /\ UNCHANGED <<send, armed, resuming, sslVars, inflight, aborted>>

\* Variant: a frame is handed over while another is in flight.
FlushWhileBusy == pppq # << >>
\* ppp_flush_start's early return.
CanFlush == inflight = 0 /\ pppq # << >>

\* ppp_flush_start: the first waiting frame goes to the stream.  One written
\* at once makes way for the next; one that failed is dropped.
PppFlush(answer) ==
    /\ flushing /\ CanFlush
    /\ stream_send(send, Head(pppq), tx_buf, answer)
    /\ pppq' = Tail(pppq)
    /\ inflight' = IF answer = "block" THEN Head(pppq) ELSE 0
    /\ flushing' = (answer = "okay")
    /\ UNCHANGED <<resuming, aborted, count>>

PppFlushReturns ==
    /\ flushing /\ ~CanFlush
    /\ flushing' = FALSE
    /\ UNCHANGED <<send, armed, resuming, sslVars, pppVars, aborted, count>>

\* ev_send fires, the socket being writable or the operation's timeout over:
\* sstp_send_cont enters its loop either way.
SendContStart ==
    /\ Idle /\ armed
    /\ armed' = FALSE /\ resuming' = TRUE
    /\ UNCHANGED <<send, flushing, sslVars, pppVars, aborted, count>>

\* Variant: the completion of a frame does not hand over the next one.
CompleteSilent(buf) == FALSE
\* ppp_send_complete calls ppp_flush_start.
CompleteFlushes(buf) == buf # Ctl

\* One turn of the loop: the head is sent again, and is back at the tail if it
\* is still in progress, which ends the loop; else its owner is told.
\* ppp_send_complete ignores the status, sstp_state_send_complete aborts the
\* call if it is not SSTP_OKAY.
SendContTurn(answer) ==
    /\ resuming /\ ~flushing /\ ~aborted /\ send # << >>
    /\ LET buf == Head(send) IN
         /\ stream_send(Tail(send), buf, tx_buf, answer)
         /\ resuming' = (answer # "block")
         /\ flushing' = (answer # "block" /\ CompleteFlushes(buf))
         /\ inflight' = IF buf # Ctl /\ answer # "block" THEN 0 ELSE inflight
         /\ aborted' = (buf = Ctl /\ answer \notin {"okay", "block"})
    /\ UNCHANGED <<pppq, count>>

SendContDone ==
    /\ resuming /\ ~flushing /\ ~aborted /\ send = << >>
    /\ resuming' = FALSE
    /\ UNCHANGED <<send, armed, flushing, sslVars, pppVars, aborted, count>>

-----------------------------------------------------------------------------
Init ==
    /\ send = << >> /\ armed = FALSE /\ resuming = FALSE /\ flushing = FALSE
    /\ held = Nothing /\ tx_buf = [msg |-> 0, sent |-> TRUE]
    /\ pppq = << >> /\ inflight = 0
    /\ wire = << >> /\ ctlWire = << >> /\ failure = "none" /\ dead = FALSE /\ aborted = FALSE
    /\ count = [ctl |-> 0, ppp |-> 0]

\* A callback that runs goes on to its end.
Continues ==
    \/ \E answer \in Answers : PppFlush(answer) \/ SendContTurn(answer)
    \/ PppFlushReturns \/ SendContDone

Next ==
    \/ \E answer \in Answers : CtlSend(answer)
    \/ PppSend \/ SendContStart \/ Continues

Spec == Init /\ [][Next]_vars

\* Callbacks end, the write event fires (it has a timeout), and a socket that
\* is tried again and again takes the record at last.
FairSpec ==
    /\ Spec
    /\ WF_vars(Continues) /\ WF_vars(SendContStart)
    /\ SF_vars(SendContTurn("okay"))

-----------------------------------------------------------------------------
(* Properties.                                                             *)

\* Every variable keeps its type, and the list of operations its bound: the
\* control messages and one frame.
TypeOK ==
    /\ send \in Seq(0 .. MaxPpp) /\ Len(send) <= MaxCtl + 1
    /\ armed \in BOOLEAN /\ resuming \in BOOLEAN /\ flushing \in BOOLEAN
    /\ held \in {Nothing} \cup [buf : 0 .. MaxPpp, msg : -MaxCtl .. MaxPpp]
    /\ tx_buf \in [msg : -MaxCtl .. 0, sent : BOOLEAN]
    /\ pppq \in Seq(1 .. MaxPpp) /\ inflight \in 0 .. MaxPpp
    /\ wire \in Seq(1 .. MaxPpp) /\ ctlWire \in Seq(-MaxCtl .. -1)
    /\ failure \in {"none", "net", "retry", "empty"}
    /\ dead \in BOOLEAN /\ aborted \in BOOLEAN
    /\ count \in [ctl : 0 .. MaxCtl, ppp : 0 .. MaxPpp]

\* Queued operations always have an event that will resume them: whenever
\* sstp_send_cont is not in its loop, ev_send is pending.
WakeupArmed == send # << >> /\ ~resuming => armed

\* ios-pppd.c frees a frame only when the stream is done with it: a frame's
\* buffer in the list is the frame in flight, and is there once.
QueuedOwned ==
    \A i \in DOMAIN send :
        send[i] # Ctl => /\ send[i] = inflight
                         /\ \A j \in DOMAIN send : send[j] = send[i] => j = i

\* The peer's MPPE counter relies on the order of frames: they reach the wire
\* in the order ios-pppd.c was given them, none twice.
PppInOrder == \A i, j \in DOMAIN wire : i < j => wire[i] < wire[j]

\* Control messages share one buffer: one that overwrote another still in the
\* list is not written for both, and none is written late.
CtlInOrder == \A i, j \in DOMAIN ctlWire : i < j => ctlWire[i] > ctlWire[j]

\* A record SSL_write holds back is always still in the list, so that it can
\* be repeated.
HeldQueued == held # Nothing => \E i \in DOMAIN send : send[i] = held.buf

\* The two queues, ios-pppd.c's and the stream's, with the frame handed from
\* one to the other, are one FIFO that loses frames only after a write failed
\* and, as long as none did, writes every frame at last.
Link == INSTANCE FrameLink WITH
            Frames  <- 1 .. MaxPpp,
            waiting <- IF inflight = 0 THEN pppq ELSE <<inflight>> \o pppq,
            broken  <- failure # "none"
LinkImplemented == Link!Spec

\* No SSL_write is tried before the one SSL_write holds back is complete.
WriteAfterComplete == failure # "retry"

=============================================================================
