------------------------------- MODULE Inject -------------------------------
(***************************************************************************)
(* IP packets on their way from the packet flow's thread to the event loop *)
(* of a session: sstp_ios_session_write_ip and ios_inject_cb of            *)
(* sstp/sstp-ios.c, the two ends of a nonblocking stream socket pair.      *)
(*                                                                         *)
(* A packet is two writes, a length and the packet itself, and two reads.  *)
(* Each system call is an action: the threads interleave between them.     *)
(* Bytes are named by the packet they belong to and their place in it, the *)
(* header being places 1 .. Hdr.                                           *)
(***************************************************************************)
EXTENDS Integers, Sequences

CONSTANTS
    Hdr,        \* bytes of a header (4 in the code)
    WriterMax,  \* the longest packet write_ip accepts (2000 in the code)
    ReaderMax,  \* ios_inject_cb's buffer (2048 in the code)
    Cap,        \* the socket buffer
    MaxPkts     \* bound: packets offered

ASSUME InjectAssumption ==
    /\ Hdr \in Nat \ {0} /\ Cap \in Nat /\ MaxPkts \in Nat
    /\ WriterMax \in Nat \ {0} /\ ReaderMax \in Nat
    /\ WriterMax <= ReaderMax

VARIABLES
    pipe,       \* bytes in the socket pair
    offered,    \* lengths of the packets given to write_ip so far
    writing,    \* write_ip is between its two writes
    accepted,   \* packets for which write_ip returned 0
    reading,    \* ios_inject_cb: "no", or the read its loop is at
    want,       \* the length it decoded
    given,      \* what sstp_pppd_send_ip was given
    broken      \* a read or write moved fewer bytes than asked for

vars == <<pipe, offered, writing, accepted, reading, want, given, broken>>

-----------------------------------------------------------------------------
Byte(p, i) == [pkt |-> p, at |-> i]
Header(p) == [i \in 1 .. Hdr |-> Byte(p, i)]
Payload(p) == [i \in 1 .. offered[p] |-> Byte(p, Hdr + i)]
This == Len(offered)

\* How much of it a nonblocking write takes (external).
Fits(bytes) == IF Len(bytes) <= Cap - Len(pipe) THEN Len(bytes)
                                               ELSE Cap - Len(pipe)
Writes(bytes) ==
    /\ pipe' = pipe \o SubSeq(bytes, 1, Fits(bytes))
    /\ broken' = (broken \/ Fits(bytes) < Len(bytes))

\* write_ip's check of the length, and its first write.
WriteHeader ==
    /\ ~writing /\ Len(offered) < MaxPkts
    /\ \E len \in 1 .. WriterMax + 1 :
         /\ offered' = Append(offered, len)
         /\ IF len > WriterMax
              THEN UNCHANGED <<pipe, writing, broken>>
              ELSE LET h == [i \in 1 .. Hdr |-> Byte(Len(offered) + 1, i)]
                   IN  Writes(h) /\ writing' = (Fits(h) = Hdr)
    /\ UNCHANGED <<accepted, reading, want, given>>

\* The second write.
WritePayload ==
    /\ writing
    /\ writing' = FALSE
    /\ Writes(Payload(This))
    /\ accepted' = IF Fits(Payload(This)) = offered[This]
                     THEN Append(accepted, This) ELSE accepted
    /\ UNCHANGED <<offered, reading, want, given>>

-----------------------------------------------------------------------------
\* A read of at most n bytes.
Avail(n) == IF Len(pipe) < n THEN Len(pipe) ELSE n
Reads(n) == pipe' = SubSeq(pipe, Avail(n) + 1, Len(pipe))

\* libevent calls ios_inject_cb while there is something to read.
InjectStart ==
    /\ reading = "no" /\ pipe # << >>
    /\ reading' = "header"
    /\ UNCHANGED <<pipe, offered, writing, accepted, want, given, broken>>

\* The lengths four bytes may stand for: a packet's, if they are its header,
\* and whatever the data says if they are not.
Lengths(bytes) ==
    LET p == bytes[1].pkt IN
    IF bytes = Header(p) THEN {offered[p]} ELSE 0 .. ReaderMax + 1

\* Variants: the reader's buffer is shorter than what write_ip accepts; the
\* length is not checked against the buffer.
ShortBuffer(len) == len = 0 \/ len >= WriterMax
NoLimit(len) == len = 0
\* `len == 0 || len > sizeof(packet)': the loop goes on with the next header.
Skipped(len) == len = 0 \/ len > ReaderMax

\* The header: nothing there ends the loop, and so does a short read.
InjectHeader ==
    /\ reading = "header"
    /\ Reads(Hdr)
    /\ IF Len(pipe) >= Hdr
         THEN \E len \in Lengths(SubSeq(pipe, 1, Hdr)) :
                /\ reading' = IF Skipped(len) THEN "header" ELSE "payload"
                /\ want' = IF Skipped(len) THEN 0 ELSE len
                /\ UNCHANGED broken
         ELSE /\ reading' = "no"
              /\ broken' = (broken \/ pipe # << >>)
              /\ UNCHANGED want
    /\ UNCHANGED <<offered, writing, accepted, given>>

\* The packet: read whole it goes to PPP, else the loop ends and what was read
\* is lost.
InjectPayload ==
    /\ reading = "payload"
    /\ Reads(want)
    /\ broken' = (broken \/ Avail(want) < want)
    /\ IF Avail(want) = want
         THEN /\ given' = Append(given, SubSeq(pipe, 1, Avail(want)))
              /\ reading' = "header"
         ELSE reading' = "no" /\ UNCHANGED given
    /\ want' = 0
    /\ UNCHANGED <<offered, writing, accepted>>

-----------------------------------------------------------------------------
Init ==
    /\ pipe = << >> /\ offered = << >> /\ writing = FALSE /\ accepted = << >>
    /\ reading = "no" /\ want = 0 /\ given = << >> /\ broken = FALSE

Callback == InjectStart \/ InjectHeader \/ InjectPayload

Next == WriteHeader \/ WritePayload \/ Callback

Spec == Init /\ [][Next]_vars

\* The event loop serves the socket, and write_ip finishes.
FairSpec == Spec /\ WF_vars(Callback) /\ WF_vars(WritePayload)

-----------------------------------------------------------------------------
(* Properties.                                                             *)

\* Every variable keeps its type, and the socket buffer its capacity.
TypeOK ==
    /\ \A i \in DOMAIN pipe : pipe[i].pkt \in DOMAIN offered
    /\ Len(pipe) <= Cap
    /\ offered \in Seq(1 .. WriterMax + 1) /\ Len(offered) <= MaxPkts
    /\ accepted \in Seq(DOMAIN offered)
    /\ writing \in BOOLEAN /\ broken \in BOOLEAN
    /\ reading \in {"no", "header", "payload"}
    /\ want \in 0 .. ReaderMax
    /\ reading = "payload" => want # 0

\* While no read or write came up short, PPP was given the packets write_ip
\* was given, whole and in their order, and none that it refused.
InOrderUnlessBroken ==
    ~broken =>
        /\ \A i \in DOMAIN given :
             /\ given[i] # << >>
             /\ given[i] = Payload(given[i][1].pkt)
             /\ Len(given[i]) <= WriterMax
        /\ \A i, j \in DOMAIN given :
             i < j => given[i][1].pkt < given[j][1].pkt

\* A packet for which write_ip returned 0 is given to PPP, unless a read or
\* write came up short.
AcceptedGiven ==
    \A n \in 1 .. MaxPkts :
        Len(accepted) >= n ~> (Len(given) >= n \/ broken)

=============================================================================
