------------------------------ MODULE IosPppd ------------------------------
(***************************************************************************)
(* The in-process PPP client of sstp/ios-pppd.c together with the PPP      *)
(* event handler ios_pppd_cb of sstp/sstp-ios.c: LCP, MS-CHAPv2, CCP/MPPE  *)
(* and IPCP negotiation, the transmit queue, and MPPE-framed IP traffic.   *)
(*                                                                         *)
(* Every handler runs to completion on the libevent thread, so one handler *)
(* is one action.  A handler may send several frames: they are queued in   *)
(* order and flushed into the stream by Transmit.                          *)
(*                                                                         *)
(* The server is external: an RFC 1661 peer behind a FIFO TLS stream that  *)
(* may delay, renegotiate LCP, repeat a Challenge or send one again later, *)
(* refuse MPPE, start IPCP before CCP, terminate, or vanish.  The stream   *)
(* (module SstpStream) may refuse a frame and go on.                       *)
(***************************************************************************)
EXTENDS Integers, Sequences, FiniteSets

CONSTANTS
    CcMod,        \* modulus of the MPPE coherency count (0x1000 in the code)
    Assigned,     \* the IPv4 address the server assigns; 0 is "none yet"
    PeerAddr,     \* the server's own address
    CcpPolicies,  \* how a server may answer the client's CCP request
    DnsPolicies,  \* whether a server may grant the DNS options: TRUE, FALSE
    MaxIp,        \* bound: IP packets sent in each direction
    MaxNaks,      \* bound: LCP Configure-Naks of the server
    MaxRetx,      \* bound: Challenges the server repeats
    MaxCcpRetx,   \* bound: CCP Configure-Requests the server repeats
    MaxEcho,      \* bound: LCP Echo-Requests of the server
    MaxUnusual,   \* bound: Naks, repetitions, echoes and upsets together
    MaxSent       \* bound: these and the IP packets together

ASSUME ConstantsAssumption ==
    /\ CcMod \in Nat \ {0, 1}
    /\ Assigned \in Nat \ {0}
    /\ PeerAddr \in Nat \ {0}
    /\ CcpPolicies \subseteq {"grant", "reject", "protrej", "nak"}
    /\ DnsPolicies \subseteq BOOLEAN
    /\ MaxIp \in Nat /\ MaxNaks \in Nat /\ MaxRetx \in Nat
    /\ MaxCcpRetx \in Nat /\ MaxEcho \in Nat
    /\ MaxUnusual \in Nat /\ MaxSent \in Nat

VARIABLES
    \* struct sstp_pppd, and the session's ready/failed marks
    started, lcp_opened, auth_done, ccp_done, ip_configured, up_notified,
    local_ip, peer_ip,
    mppe,                 \* the MPPE keys, counts and switch
    txq, tx_inflight,     \* tx_head..tx_tail, and the item the stream holds
    ready, failed,
    \* the stream: bytes on their way in each direction
    stream_ok, c2s, s2c,
    \* the server
    p_policy, p_lcp, p_ccp, p_ipcp, p_await, p_chal, p_master, p_mppe,
    \* bounded counters, and the packets a receiver could not read
    sent, bad

linkVars == <<started, lcp_opened>>
upVars   == <<ip_configured, up_notified, local_ip, ready>>
txVars   == <<txq, tx_inflight, c2s>>
peerVars == <<p_policy, p_lcp, p_ccp, p_ipcp, p_await, p_chal, p_master, p_mppe>>
clientVars == <<linkVars, auth_done, ccp_done, upVars, peer_ip, mppe, failed>>
vars == <<clientVars, txVars, stream_ok, s2c, peerVars, sent, bad>>

-----------------------------------------------------------------------------
(* Frames.  `val' is the CHAP identifier, the address option of an IPCP    *)
(* frame or the coherency count of an MPPE frame; `key' is the session key *)
(* an MPPE frame is encrypted with.                                        *)

Protos == {"LCP", "CHAP", "CCP", "IPCP", "IP", "MPPE"}
Codes  == {"ConfReq", "ConfAck", "ConfNak", "ConfRej", "TermReq", "TermAck",
           "EchoReq", "EchoRep", "ProtRej", "Challenge", "Response",
           "Success", "Failure", "Data"}
(* A session key is named by its master key and the rekeyings since        *)
(* mppe_init_keys; master keys are named by the CHAP exchange they come    *)
(* from, 0 being "no key".                                                 *)
Keys   == [m : Nat, n : Nat]
NoKey  == [m |-> 0, n |-> 0]
Frames == {f \in [proto : Protos, code : Codes, val : Nat, key : Keys] :
             f.proto = "MPPE" => f.val \in 0 .. CcMod - 1}
NoItem == [proto |-> "none", code |-> "Data", val |-> 0, key |-> NoKey]

Ctl(p, c, v) == [proto |-> p, code |-> c, val |-> v, key |-> NoKey]
IpFrame == Ctl("IP", "Data", 0)

tx_busy == tx_inflight # NoItem

(* Bounds.  An echo, which only adds traffic, counts for two.              *)
Unusual == sent.nak + sent.retx + sent.ccp + 2 * sent.echo
           + sent.reneg + sent.rechal + sent.refused
RoomForPacket == Unusual + sent.ip + sent.peer_ip < MaxSent
RoomFor(n) == /\ Unusual + n <= MaxUnusual
              /\ Unusual + n + sent.ip + sent.peer_ip <= MaxSent

-----------------------------------------------------------------------------
(* The transmit queue.                                                     *)

\* The stream refuses (SSTP_FAIL) the frames of q it is tried with: each is
\* freed, and those behind wait for the next attempt.
Refused(q, attempts) ==
    /\ txq' = SubSeq(q, attempts + 1, Len(q))
    /\ tx_inflight' = NoItem
    /\ UNCHANGED c2s

\* ppp_flush_start on queue q with `wire' already written: the stream writes
\* some frames at once (SSTP_OKAY) and may keep one (SSTP_INPROG).  Once broken
\* it refuses every frame, one per attempt.
Flush(wire, q, attempts) ==
    IF stream_ok
      THEN \E k \in 0 .. Len(q) :
             /\ c2s' = wire \o SubSeq(q, 1, k)
             /\ tx_inflight' = IF k < Len(q) THEN q[k + 1] ELSE NoItem
             /\ txq' = SubSeq(q, k + 2, Len(q))
      ELSE Refused(q, attempts)

\* ppp_send_frame / ppp_enqueue_raw of each frame of fs in turn.
Transmit(fs) ==
    IF tx_busy
      THEN txq' = txq \o fs /\ UNCHANGED <<tx_inflight, c2s>>
      ELSE Flush(c2s, txq \o fs, Len(fs))

\* Variant: the completion does not restart the queue.
SendCompleteNoFlush ==
    /\ failed = "none" /\ tx_busy
    /\ c2s' = IF stream_ok THEN Append(c2s, tx_inflight) ELSE c2s
    /\ tx_inflight' = NoItem
    /\ UNCHANGED <<clientVars, txq, stream_ok, s2c, peerVars, sent, bad>>

\* ppp_send_complete: the stream finished (or lost) the frame it held; the
\* status is ignored, the item freed and the queue restarted.
SendComplete ==
    /\ failed = "none" /\ tx_busy
    /\ Flush(Append(c2s, tx_inflight), txq, 1)
    /\ UNCHANGED <<clientVars, stream_ok, s2c, peerVars, sent, bad>>

\* The connection is whole, but sstp_send_cont tries the frame while SSL_write
\* insists on a control message (SstpStream's answer "retry"): the frame fails,
\* and so does the next one, which ppp_send_complete hands over at once.
SendRefused ==
    /\ failed = "none" /\ tx_busy /\ stream_ok /\ RoomFor(1)
    /\ Refused(txq, 1)
    /\ sent' = [sent EXCEPT !.refused = @ + 1]
    /\ UNCHANGED <<clientVars, stream_ok, s2c, peerVars, bad>>

-----------------------------------------------------------------------------
(* MPPE: 128-bit stateless keys.                                           *)

MppeStates == [enabled : BOOLEAN, master : Nat,
               skey : Keys, scount : 0 .. CcMod - 1,
               rkey : Keys, rcount : 0 .. CcMod - 1]

MppeOff == [enabled |-> FALSE, master |-> 0, skey |-> NoKey, scount |-> 0,
            rkey |-> NoKey, rcount |-> 0]

\* A rekeying hashes the master key with the session key: with another master
\* key than the session key comes from, the result (m = 0) is nobody's.
mppe_rekey(master, k, times) ==
    [m |-> IF k.m = master THEN k.m ELSE 0, n |-> k.n + times]

\* Variant: the count is not masked to 12 bits.
CcountUnmasked(c) == c
\* `& 0x0fff'.
Ccount(c) == c % CcMod

\* mppe_init_keys: nothing while the master keys are unknown; else restart
\* both directions one step before count 0 and switch MPPE on.
mppe_init_keys(x) ==
    IF x.master = 0 THEN x
    ELSE LET k == [m |-> x.master, n |-> 1]
         IN  [x EXCEPT !.enabled = TRUE, !.skey = k, !.rkey = k,
                       !.scount = CcMod - 1, !.rcount = CcMod - 1]

\* Variant: only the first exchange sets the master keys.
KeepFirstKeys(x, id) == IF x.master = 0 THEN [x EXCEPT !.master = id] ELSE x
\* The master keys of the CHAP exchange with this identifier.
sstp_pppd_set_mppe_keys(x, id) == [x EXCEPT !.master = id]

\* The sending half of ppp_send_ip_plain_or_mppe: advance, rekey, encrypt.
MppeAdvance(x) == [x EXCEPT !.scount = Ccount(x.scount + 1),
                            !.skey = mppe_rekey(x.master, x.skey, 1)]
MppeFrame(x) == [proto |-> "MPPE", code |-> "Data",
                 val |-> x.scount, key |-> x.skey]

\* handle_mppe's catch-up loop, and whether the packet then decrypts: RC4 is
\* keyed by a rekeying, so a packet that needs none finds a used key stream.
MppeSkips(x, f) == Ccount(f.val - x.rcount)
MppeCatchUp(x, f) == [x EXCEPT !.rcount = f.val,
                               !.rkey = IF MppeSkips(x, f) = 0 THEN x.rkey
                                        ELSE mppe_rekey(x.master, x.rkey,
                                                        MppeSkips(x, f))]
MppeReadable(x, f) == MppeSkips(x, f) > 0 /\ MppeCatchUp(x, f).rkey = f.key

-----------------------------------------------------------------------------
(* The client's handlers.                                                  *)

LcpConfReq == Ctl("LCP", "ConfReq", 0)
CcpConfReq == Ctl("CCP", "ConfReq", 0)
IpcpConfReq(ip) == Ctl("IPCP", "ConfReq", ip)

\* Variant: the link counts as up before IPCP acknowledged the address.
ReadyWithoutIpcp(ipc, lip, ccp) == ~up_notified /\ lip # 0 /\ ccp
\* maybe_notify_up's condition on the state the handler leaves.
ReadyForUp(ipc, lip, ccp) == ~up_notified /\ ipc /\ lip # 0 /\ ccp

\* maybe_notify_up and the SSTP_PPP_UP case of ios_pppd_cb: sstp_state_accept
\* sends Call-Connected, or fails: it then calls SSTP_CALL_ABORT, and
\* ios_state_cb ends the session.
NotifyUp(due) ==
    IF due
      THEN /\ up_notified' = TRUE
           /\ failed' \in {"none", "sstp_control"}
           /\ ready' = (failed' = "none")
      ELSE UNCHANGED <<up_notified, ready, failed>>

\* Variant: ccp_finished does not start IPCP.
CcpFinishedSilent == << >>
\* ccp_finished sends the first IPCP request when CCP ends after CHAP.
CcpFinishedFrames ==
    IF ~ccp_done /\ auth_done THEN <<IpcpConfReq(local_ip)>> ELSE << >>

\* sstp_pppd_start: SSTP_PPP_START resumes receiving, then the LCP request.
Start ==
    /\ failed = "none" /\ ~started
    /\ started' = TRUE
    /\ Transmit(<<LcpConfReq>>)
    /\ UNCHANGED <<lcp_opened, auth_done, ccp_done, upVars, peer_ip, mppe,
                   failed, stream_ok, s2c, peerVars, sent, bad>>

\* ppp_dispatch takes the next frame of protocol p and code in cs.
Dispatch(p, cs) ==
    /\ failed = "none" /\ started /\ s2c # << >>
    /\ Head(s2c).proto = p /\ Head(s2c).code \in cs
    /\ s2c' = Tail(s2c)
    /\ UNCHANGED <<started, stream_ok, peerVars>>

LcpConfReqRcvd ==
    /\ Dispatch("LCP", {"ConfReq"})
    /\ Transmit(<<Ctl("LCP", "ConfAck", 0)>>
                \o IF lcp_opened THEN << >> ELSE <<LcpConfReq>>)
    /\ UNCHANGED <<lcp_opened, auth_done, ccp_done, upVars, peer_ip, mppe,
                   failed, sent, bad>>

LcpConfAckRcvd ==
    /\ Dispatch("LCP", {"ConfAck"})
    /\ lcp_opened' = TRUE
    /\ UNCHANGED <<auth_done, ccp_done, upVars, peer_ip, mppe, failed,
                   txVars, sent, bad>>

\* The request is repeated unchanged whatever the server objected to.
LcpConfNakRcvd ==
    /\ Dispatch("LCP", {"ConfNak", "ConfRej"})
    /\ Transmit(<<LcpConfReq>>)
    /\ UNCHANGED <<lcp_opened, auth_done, ccp_done, upVars, peer_ip, mppe,
                   failed, sent, bad>>

\* SSTP_PPP_DOWN ends the session with network_lost.
LcpTermReqRcvd ==
    /\ Dispatch("LCP", {"TermReq"})
    /\ Transmit(<<Ctl("LCP", "TermAck", 0)>>)
    /\ failed' = "network_lost"
    /\ UNCHANGED <<lcp_opened, auth_done, ccp_done, upVars, peer_ip, mppe,
                   sent, bad>>

LcpEchoReqRcvd ==
    /\ Dispatch("LCP", {"EchoReq"})
    /\ Transmit(<<Ctl("LCP", "EchoRep", 0)>>)
    /\ UNCHANGED <<lcp_opened, auth_done, ccp_done, upVars, peer_ip, mppe,
                   failed, sent, bad>>

\* handle_lcp's default case; Protocol-Reject is among the codes ignored.
LcpOtherRcvd ==
    /\ Dispatch("LCP", Codes \ {"ConfReq", "ConfAck", "ConfNak", "ConfRej",
                                "TermReq", "EchoReq"})
    /\ UNCHANGED <<lcp_opened, auth_done, ccp_done, upVars, peer_ip, mppe,
                   failed, txVars, sent, bad>>

\* handle_chap answers, then SSTP_PPP_AUTH derives the keys of this exchange
\* and sets them (sstp_pppd_set_mppe_keys), or fails the session.
ChapChallengeRcvd ==
    /\ Dispatch("CHAP", {"Challenge"})
    /\ Transmit(<<Ctl("CHAP", "Response", Head(s2c).val)>>)
    /\ failed' \in {"none", "mppe_failed"}
    /\ mppe' = IF failed' = "none"
                 THEN sstp_pppd_set_mppe_keys(mppe, Head(s2c).val) ELSE mppe
    /\ UNCHANGED <<lcp_opened, auth_done, ccp_done, upVars, peer_ip, sent, bad>>

ChapSuccessRcvd ==
    /\ Dispatch("CHAP", {"Success"})
    /\ auth_done' = TRUE
    /\ Transmit(<<CcpConfReq>>)
    /\ UNCHANGED <<lcp_opened, ccp_done, upVars, peer_ip, mppe, failed, sent, bad>>

ChapFailureRcvd ==
    /\ Dispatch("CHAP", {"Failure"})
    /\ failed' = "auth_rejected"
    /\ UNCHANGED <<lcp_opened, auth_done, ccp_done, upVars, peer_ip, mppe,
                   txVars, sent, bad>>

\* handle_ccp: both a request and an acknowledgement restart the keys.
CcpConfReqRcvd ==
    /\ Dispatch("CCP", {"ConfReq"})
    /\ Transmit(<<Ctl("CCP", "ConfAck", 0)>> \o CcpFinishedFrames)
    /\ mppe' = mppe_init_keys(mppe)
    /\ ccp_done' = TRUE
    /\ NotifyUp(ReadyForUp(ip_configured, local_ip, TRUE))
    /\ UNCHANGED <<lcp_opened, auth_done, ip_configured, local_ip, peer_ip,
                   sent, bad>>

CcpConfAckRcvd ==
    /\ Dispatch("CCP", {"ConfAck"})
    /\ Transmit(CcpFinishedFrames)
    /\ mppe' = mppe_init_keys(mppe)
    /\ ccp_done' = TRUE
    /\ NotifyUp(ReadyForUp(ip_configured, local_ip, TRUE))
    /\ UNCHANGED <<lcp_opened, auth_done, ip_configured, local_ip, peer_ip,
                   sent, bad>>

CcpConfRejRcvd ==
    /\ Dispatch("CCP", {"ConfRej", "ConfNak"})
    /\ Transmit(CcpFinishedFrames)
    /\ mppe' = [mppe EXCEPT !.enabled = FALSE]
    /\ ccp_done' = TRUE
    /\ NotifyUp(ReadyForUp(ip_configured, local_ip, TRUE))
    /\ UNCHANGED <<lcp_opened, auth_done, ip_configured, local_ip, peer_ip,
                   sent, bad>>

\* Variant: any IPCP frame gives MPPE up.
IpcpAlwaysEarly == auth_done
\* handle_ipcp's preamble: IPCP before CCP ended gives CCP up, without MPPE.
IpcpEarly == ~ccp_done /\ auth_done
IpcpPreamble ==
    /\ ccp_done' = (ccp_done \/ IpcpEarly)
    /\ mppe' = IF IpcpEarly THEN [mppe EXCEPT !.enabled = FALSE] ELSE mppe

IpcpConfReqRcvd ==
    /\ Dispatch("IPCP", {"ConfReq"})
    /\ IpcpPreamble
    /\ peer_ip' = Head(s2c).val
    /\ Transmit(CcpFinishedFrames \o <<Ctl("IPCP", "ConfAck", Head(s2c).val)>>)
    /\ NotifyUp(IpcpEarly /\ ReadyForUp(ip_configured, local_ip, TRUE))
    /\ UNCHANGED <<lcp_opened, auth_done, ip_configured, local_ip, sent, bad>>

IpcpConfAckRcvd ==
    /\ Dispatch("IPCP", {"ConfAck"})
    /\ IpcpPreamble
    /\ local_ip' = Head(s2c).val
    /\ ip_configured' = (ip_configured \/ local_ip' # 0)
    /\ Transmit(CcpFinishedFrames)
    /\ NotifyUp(\/ IpcpEarly /\ ReadyForUp(ip_configured, local_ip, TRUE)
                \/ ReadyForUp(local_ip' # 0, local_ip', ccp_done'))
    /\ UNCHANGED <<lcp_opened, auth_done, peer_ip, sent, bad>>

\* The offered address is taken and requested.
IpcpConfNakRcvd ==
    /\ Dispatch("IPCP", {"ConfNak"})
    /\ IpcpPreamble
    /\ local_ip' = Head(s2c).val
    /\ Transmit(CcpFinishedFrames \o <<IpcpConfReq(Head(s2c).val)>>)
    /\ NotifyUp(IpcpEarly /\ ReadyForUp(ip_configured, local_ip, TRUE))
    /\ UNCHANGED <<lcp_opened, auth_done, ip_configured, peer_ip, sent, bad>>

\* handle_ipcp's default case: a Configure-Reject is not answered.
IpcpOtherRcvd ==
    /\ Dispatch("IPCP", Codes \ {"ConfReq", "ConfAck", "ConfNak"})
    /\ IpcpPreamble
    /\ Transmit(CcpFinishedFrames)
    /\ NotifyUp(IpcpEarly /\ ReadyForUp(ip_configured, local_ip, TRUE))
    /\ UNCHANGED <<lcp_opened, auth_done, ip_configured, local_ip, peer_ip,
                   sent, bad>>

\* handle_mppe: dropped while MPPE is off, else decrypted and delivered.
MppeRcvd ==
    /\ Dispatch("MPPE", {"Data"})
    /\ mppe' = IF mppe.enabled THEN MppeCatchUp(mppe, Head(s2c)) ELSE mppe
    /\ bad' = IF mppe.enabled /\ MppeReadable(mppe, Head(s2c))
                THEN bad ELSE bad \cup {"client"}
    /\ UNCHANGED <<lcp_opened, auth_done, ccp_done, upVars, peer_ip, failed,
                   txVars, sent>>

\* ppp_dispatch's PPP_PROTO_IP case: delivered whatever the state.
IpRcvd ==
    /\ Dispatch("IP", {"Data"})
    /\ UNCHANGED <<lcp_opened, auth_done, ccp_done, upVars, peer_ip, mppe,
                   failed, txVars, sent, bad>>

\* sstp_pppd_send_ip, called by ios_inject_cb for a packet that write_ip
\* accepted because the session was ready.
SendIp ==
    /\ failed = "none" /\ ready /\ sent.ip < MaxIp /\ RoomForPacket
    /\ sent' = [sent EXCEPT !.ip = @ + 1]
    /\ IF mppe.enabled
         THEN mppe' = MppeAdvance(mppe) /\ Transmit(<<MppeFrame(mppe')>>)
         ELSE Transmit(<<IpFrame>>) /\ UNCHANGED mppe
    /\ UNCHANGED <<linkVars, auth_done, ccp_done, upVars, peer_ip, failed,
                   stream_ok, s2c, peerVars, bad>>

ClientReceives ==
    \/ LcpConfReqRcvd \/ LcpConfAckRcvd \/ LcpConfNakRcvd \/ LcpTermReqRcvd
    \/ LcpEchoReqRcvd \/ LcpOtherRcvd
    \/ ChapChallengeRcvd \/ ChapSuccessRcvd \/ ChapFailureRcvd
    \/ CcpConfReqRcvd \/ CcpConfAckRcvd \/ CcpConfRejRcvd
    \/ IpcpConfReqRcvd \/ IpcpConfAckRcvd \/ IpcpConfNakRcvd
    \/ IpcpOtherRcvd \/ MppeRcvd \/ IpRcvd

-----------------------------------------------------------------------------
(* The server (external).  Each protocol is a set of marks: "req" its      *)
(* Configure-Request is sent, "rx" that request was acknowledged, "tx" it  *)
(* acknowledged the client's.                                              *)

Marks == {"req", "rx", "tx", "term"}
Opened(fsm) == {"rx", "tx"} \subseteq fsm

PeerSends(fs) == stream_ok /\ s2c' = s2c \o fs

\* The server opens LCP, and later its network protocols, when it likes.
PeerLcpOpen ==
    /\ p_lcp = {}
    /\ PeerSends(<<LcpConfReq>>)
    /\ p_lcp' = {"req"}
    /\ UNCHANGED <<clientVars, txVars, stream_ok, p_policy, p_ccp, p_ipcp,
                   p_await, p_chal, p_master, p_mppe, sent, bad>>

\* A Challenge opens the authentication phase; an unanswered one may be
\* repeated under a new identifier.
PeerChallenge ==
    /\ Opened(p_lcp) /\ p_master = 0
    /\ p_await => sent.retx < MaxRetx /\ RoomFor(1)
    /\ PeerSends(<<Ctl("CHAP", "Challenge", p_chal + 1)>>)
    /\ p_chal' = p_chal + 1
    /\ p_await' = TRUE
    /\ sent' = IF p_await THEN [sent EXCEPT !.retx = @ + 1] ELSE sent
    /\ UNCHANGED <<clientVars, txVars, stream_ok, p_policy, p_lcp, p_ccp,
                   p_ipcp, p_master, p_mppe, bad>>

\* RFC 1661: the server may negotiate an open LCP again, which restarts
\* authentication.
PeerLcpReopen ==
    /\ Opened(p_lcp) /\ RoomFor(1)
    /\ PeerSends(<<LcpConfReq>>)
    /\ p_lcp' = {"req"} /\ p_ccp' = {} /\ p_ipcp' = {}
    /\ p_await' = FALSE /\ p_master' = 0
    /\ sent' = [sent EXCEPT !.reneg = @ + 1]
    /\ UNCHANGED <<clientVars, txVars, stream_ok, p_policy, p_chal, p_mppe, bad>>

\* RFC 1994: an authenticated client may be challenged again at any time.
PeerRechallenge ==
    /\ Opened(p_lcp) /\ p_master # 0 /\ ~p_await /\ RoomFor(1)
    /\ PeerSends(<<Ctl("CHAP", "Challenge", p_chal + 1)>>)
    /\ p_chal' = p_chal + 1
    /\ p_await' = TRUE
    /\ sent' = [sent EXCEPT !.rechal = @ + 1]
    /\ UNCHANGED <<clientVars, txVars, stream_ok, p_policy, p_lcp, p_ccp,
                   p_ipcp, p_master, p_mppe, bad>>

PeerCcpOpen ==
    /\ Opened(p_lcp) /\ p_master # 0 /\ p_ccp = {}
    /\ p_policy.ccp \in {"grant", "nak"}
    /\ PeerSends(<<CcpConfReq>>)
    /\ p_ccp' = {"req"}
    /\ UNCHANGED <<clientVars, txVars, stream_ok, p_policy, p_lcp, p_ipcp,
                   p_await, p_chal, p_master, p_mppe, sent, bad>>

\* RFC 1661's restart timer: until CCP is open the request is repeated, which
\* forgets an acknowledgement already received (TO+ in Ack-Rcvd).
PeerCcpRepeat ==
    /\ Opened(p_lcp) /\ "req" \in p_ccp /\ ~Opened(p_ccp)
    /\ sent.ccp < MaxCcpRetx /\ RoomFor(1)
    /\ PeerSends(<<CcpConfReq>>)
    /\ p_ccp' = p_ccp \ {"rx"}
    /\ sent' = [sent EXCEPT !.ccp = @ + 1]
    /\ UNCHANGED <<clientVars, txVars, stream_ok, p_policy, p_lcp, p_ipcp,
                   p_await, p_chal, p_master, p_mppe, bad>>

PeerIpcpOpen ==
    /\ Opened(p_lcp) /\ p_master # 0 /\ p_ipcp = {}
    /\ PeerSends(<<IpcpConfReq(PeerAddr)>>)
    /\ p_ipcp' = {"req"}
    /\ UNCHANGED <<clientVars, txVars, stream_ok, p_policy, p_lcp, p_ccp,
                   p_await, p_chal, p_master, p_mppe, sent, bad>>

PeerEcho ==
    /\ Opened(p_lcp) /\ sent.echo < MaxEcho /\ RoomFor(2)
    /\ PeerSends(<<Ctl("LCP", "EchoReq", 0)>>)
    /\ sent' = [sent EXCEPT !.echo = @ + 1]
    /\ UNCHANGED <<clientVars, txVars, stream_ok, peerVars, bad>>

PeerTerminate ==
    /\ Opened(p_lcp)
    /\ PeerSends(<<Ctl("LCP", "TermReq", 0)>>)
    /\ p_lcp' = {"term"}
    /\ UNCHANGED <<clientVars, txVars, stream_ok, p_policy, p_ccp, p_ipcp,
                   p_await, p_chal, p_master, p_mppe, sent, bad>>

PeerSendIp ==
    /\ Opened(p_lcp) /\ Opened(p_ipcp)
    /\ sent.peer_ip < MaxIp /\ RoomForPacket
    /\ sent' = [sent EXCEPT !.peer_ip = @ + 1]
    /\ IF Opened(p_ccp)
         THEN p_mppe' = MppeAdvance(p_mppe) /\ PeerSends(<<MppeFrame(p_mppe')>>)
         ELSE PeerSends(<<IpFrame>>) /\ UNCHANGED p_mppe
    /\ UNCHANGED <<clientVars, txVars, stream_ok, p_policy, p_lcp, p_ccp,
                   p_ipcp, p_await, p_chal, p_master, bad>>

PeerTakes(ps) ==
    /\ stream_ok /\ c2s # << >> /\ Head(c2s).proto \in ps
    /\ c2s' = Tail(c2s)
    /\ UNCHANGED <<clientVars, txq, tx_inflight, stream_ok, p_policy>>

\* RFC 1661: a Configure-Request in the Opened state takes the link down and
\* negotiates again, which restarts authentication.
PeerLcpConfReq ==
    /\ PeerTakes({"LCP"}) /\ Head(c2s).code = "ConfReq" /\ "term" \notin p_lcp
    /\ \/ /\ sent.nak < MaxNaks /\ RoomFor(1) /\ "tx" \notin p_lcp
          /\ s2c' = s2c \o (IF "req" \in p_lcp THEN << >> ELSE <<LcpConfReq>>)
                        \o <<Ctl("LCP", "ConfNak", 0)>>
          /\ p_lcp' = p_lcp \cup {"req"}
          /\ sent' = [sent EXCEPT !.nak = @ + 1]
          /\ UNCHANGED <<p_await, p_master, p_ccp, p_ipcp>>
       \/ /\ s2c' = s2c \o (IF "req" \in p_lcp /\ ~Opened(p_lcp)
                              THEN << >> ELSE <<LcpConfReq>>)
                        \o <<Ctl("LCP", "ConfAck", 0)>>
          /\ p_lcp' = IF Opened(p_lcp) THEN {"req", "tx"}
                                       ELSE p_lcp \cup {"req", "tx"}
          /\ IF Opened(p_lcp)
               THEN /\ p_await' = FALSE /\ p_master' = 0
                    /\ p_ccp' = {} /\ p_ipcp' = {}
               ELSE UNCHANGED <<p_await, p_master, p_ccp, p_ipcp>>
          /\ UNCHANGED sent
    /\ UNCHANGED <<p_chal, p_mppe, bad>>

PeerLcpOther ==
    /\ PeerTakes({"LCP"})
    /\ Head(c2s).code # "ConfReq" \/ "term" \in p_lcp
    /\ p_lcp' = IF Head(c2s).code = "ConfAck" /\ "req" \in p_lcp
                  THEN p_lcp \cup {"rx"} ELSE p_lcp
    /\ UNCHANGED <<s2c, p_ccp, p_ipcp, p_await, p_chal, p_master, p_mppe,
                   sent, bad>>

\* The answer to the current Challenge is judged; every other is ignored.
PeerChap ==
    /\ PeerTakes({"CHAP"})
    /\ IF Opened(p_lcp) /\ p_await /\ Head(c2s).val = p_chal
         THEN /\ p_await' = FALSE
              /\ \/ /\ s2c' = Append(s2c, Ctl("CHAP", "Success", 0))
                    /\ p_master' = p_chal
                 \/ /\ s2c' = Append(s2c, Ctl("CHAP", "Failure", 0))
                    /\ p_master' = 0
         ELSE UNCHANGED <<s2c, p_await, p_master>>
    /\ UNCHANGED <<p_lcp, p_ccp, p_ipcp, p_chal, p_mppe, sent, bad>>

\* MPPE starts when CCP opens: its keys come from the accepted exchange.
PeerCcpSet(fsm) ==
    /\ p_ccp' = fsm
    /\ p_mppe' = IF Opened(fsm) /\ ~Opened(p_ccp)
                   THEN mppe_init_keys([p_mppe EXCEPT !.master = p_master])
                   ELSE p_mppe

PeerCcp ==
    /\ PeerTakes({"CCP"})
    /\ IF ~Opened(p_lcp) \/ p_master = 0
         THEN UNCHANGED <<s2c, p_ccp, p_mppe>>
         ELSE LET anew == Opened(p_ccp)
                  req == IF "req" \in p_ccp /\ ~anew THEN << >>
                                                     ELSE <<CcpConfReq>>
              IN IF Head(c2s).code = "ConfAck"
                   THEN PeerCcpSet(p_ccp \cup {"rx"}) /\ UNCHANGED s2c
                   ELSE CASE p_policy.ccp = "grant" ->
                               /\ PeerCcpSet((IF anew THEN {} ELSE p_ccp)
                                             \cup {"req", "tx"})
                               /\ s2c' = s2c \o req \o <<Ctl("CCP", "ConfAck", 0)>>
                          [] p_policy.ccp = "nak" ->
                               /\ PeerCcpSet(p_ccp \cup {"req"})
                               /\ s2c' = s2c \o req \o <<Ctl("CCP", "ConfNak", 0)>>
                          [] p_policy.ccp = "reject" ->
                               /\ s2c' = Append(s2c, Ctl("CCP", "ConfRej", 0))
                               /\ UNCHANGED <<p_ccp, p_mppe>>
                          [] OTHER ->
                               /\ s2c' = Append(s2c, Ctl("LCP", "ProtRej", 0))
                               /\ UNCHANGED <<p_ccp, p_mppe>>
    /\ UNCHANGED <<p_lcp, p_ipcp, p_await, p_chal, p_master, sent, bad>>

PeerIpcp ==
    /\ PeerTakes({"IPCP"})
    /\ IF ~Opened(p_lcp) \/ p_master = 0
         THEN UNCHANGED <<s2c, p_ipcp>>
         ELSE LET f == Head(c2s)
                  req == IF "req" \in p_ipcp THEN << >>
                                             ELSE <<IpcpConfReq(PeerAddr)>>
              IN CASE f.code = "ConfAck" ->
                        p_ipcp' = p_ipcp \cup {"rx"} /\ UNCHANGED s2c
                   [] f.code # "ConfAck" /\ ~p_policy.dns ->
                        /\ p_ipcp' = p_ipcp \cup {"req"}
                        /\ s2c' = s2c \o req \o <<Ctl("IPCP", "ConfRej", 0)>>
                   [] f.code # "ConfAck" /\ p_policy.dns /\ f.val = Assigned ->
                        /\ p_ipcp' = p_ipcp \cup {"req", "tx"}
                        /\ s2c' = s2c \o req \o <<Ctl("IPCP", "ConfAck", f.val)>>
                   [] OTHER ->
                        /\ p_ipcp' = p_ipcp \cup {"req"}
                        /\ s2c' = s2c \o req
                                      \o <<Ctl("IPCP", "ConfNak", Assigned)>>
    /\ UNCHANGED <<p_lcp, p_ccp, p_await, p_chal, p_master, p_mppe, sent, bad>>

\* A packet is lost to the server when MPPE does not decrypt it, when it is
\* encrypted though CCP is not open, or plain though it is.
PeerData ==
    /\ PeerTakes({"IP", "MPPE"})
    /\ LET f == Head(c2s)
           enc == f.proto = "MPPE"
       IN /\ p_mppe' = IF enc /\ Opened(p_ccp) THEN MppeCatchUp(p_mppe, f)
                                               ELSE p_mppe
          /\ bad' = IF \/ "term" \in p_lcp
                       \/ ~enc /\ ~Opened(p_ccp)
                       \/ enc /\ Opened(p_ccp) /\ MppeReadable(p_mppe, f)
                      THEN bad ELSE bad \cup {"server"}
    /\ UNCHANGED <<s2c, p_lcp, p_ccp, p_ipcp, p_await, p_chal, p_master, sent>>

PeerReceives == PeerLcpConfReq \/ PeerLcpOther \/ PeerChap \/ PeerCcp
                \/ PeerIpcp \/ PeerData

\* The connection breaks: nothing more arrives in either direction.
StreamError ==
    /\ stream_ok
    /\ stream_ok' = FALSE /\ c2s' = << >> /\ s2c' = << >>
    /\ UNCHANGED <<clientVars, txq, tx_inflight, peerVars, sent, bad>>

-----------------------------------------------------------------------------
Init ==
    /\ started = FALSE /\ lcp_opened = FALSE /\ auth_done = FALSE
    /\ ccp_done = FALSE /\ ip_configured = FALSE /\ up_notified = FALSE
    /\ local_ip = 0 /\ peer_ip = 0 /\ mppe = MppeOff
    /\ txq = << >> /\ tx_inflight = NoItem
    /\ ready = FALSE /\ failed = "none"
    /\ stream_ok = TRUE /\ c2s = << >> /\ s2c = << >>
    /\ p_policy \in [ccp : CcpPolicies, dns : DnsPolicies]
    /\ p_lcp = {} /\ p_ccp = {} /\ p_ipcp = {}
    /\ p_await = FALSE /\ p_chal = 0 /\ p_master = 0 /\ p_mppe = MppeOff
    /\ sent = [ip |-> 0, peer_ip |-> 0, nak |-> 0, retx |-> 0, ccp |-> 0,
              echo |-> 0, reneg |-> 0, rechal |-> 0, refused |-> 0]
    /\ bad = {}

PeerOpens == PeerLcpOpen \/ PeerChallenge \/ PeerCcpOpen \/ PeerIpcpOpen

Next ==
    \/ Start \/ ClientReceives \/ SendComplete \/ SendIp
    \/ PeerOpens \/ PeerReceives \/ PeerCcpRepeat \/ PeerEcho
    \/ PeerTerminate \/ PeerSendIp
    \/ SendRefused \/ PeerLcpReopen \/ PeerRechallenge
    \/ StreamError

Spec == Init /\ [][Next]_vars

\* The event loop runs while it has events, the stream finishes what it
\* accepted, and the server negotiates.
FairSpec ==
    /\ Spec
    /\ WF_vars(Start) /\ WF_vars(ClientReceives) /\ WF_vars(SendComplete)
    /\ WF_vars(PeerLcpOpen) /\ WF_vars(PeerChallenge) /\ WF_vars(PeerIpcpOpen)
    /\ WF_vars(PeerReceives)

-----------------------------------------------------------------------------
(* Properties.                                                             *)

SentCounts == [ip : Nat, peer_ip : Nat, nak : Nat, retx : Nat, ccp : Nat,
               echo : Nat, reneg : Nat, rechal : Nat, refused : Nat]

\* Every field of struct sstp_pppd, both directions of the stream and the
\* server's marks keep their range, the coherency counts their 12 bits.
TypeOK ==
    /\ started \in BOOLEAN /\ lcp_opened \in BOOLEAN /\ auth_done \in BOOLEAN
    /\ ccp_done \in BOOLEAN /\ ip_configured \in BOOLEAN
    /\ up_notified \in BOOLEAN /\ ready \in BOOLEAN /\ stream_ok \in BOOLEAN
    /\ p_await \in BOOLEAN
    /\ local_ip \in Nat /\ peer_ip \in Nat
    /\ mppe \in MppeStates /\ p_mppe \in MppeStates
    /\ txq \in Seq(Frames) /\ tx_inflight \in Frames \cup {NoItem}
    /\ c2s \in Seq(Frames) /\ s2c \in Seq(Frames)
    /\ failed \in {"none", "network_lost", "auth_rejected", "mppe_failed",
                   "sstp_control"}
    /\ p_policy \in [ccp : CcpPolicies, dns : DnsPolicies]
    /\ p_lcp \subseteq Marks /\ p_ccp \subseteq Marks /\ p_ipcp \subseteq Marks
    /\ p_chal \in Nat /\ p_master \in Nat
    /\ sent \in SentCounts
    /\ bad \subseteq {"client", "server"}

\* Nothing unusual has happened yet: no frame was refused, and the server
\* neither renegotiated LCP nor challenged an authenticated client.
Undisturbed == sent.reneg = 0 /\ sent.rechal = 0 /\ sent.refused = 0

\* No lost wake-up in the transmit queue: while the stream works and has taken
\* every frame, frames wait only behind one the stream still holds, so a
\* completion will send them.  (After a refused frame they do wait, with
\* nothing in flight, for the next ppp_enqueue_raw.)
TxNotStalled == stream_ok /\ ~tx_busy /\ sent.refused = 0 => txq = << >>

\* When the server has accepted an MS-CHAPv2 exchange and waits for no other,
\* the client's MPPE master keys (unless deriving them failed) are those of
\* that very exchange, however many Challenges were repeated, sent again after
\* an accepted one, or restarted by a renegotiation of LCP.
KeysAgree ==
    failed = "none" /\ p_master # 0 /\ ~p_await => mppe.master = p_master

\* The session is reported up (on_ready) only after authentication, the end
\* of CCP, and with the address the server acknowledged as its own choice; the
\* server, unless it has begun anew, still holds the exchange and the
\* acknowledgement for valid.
UpAgreed ==
    up_notified =>
        /\ auth_done /\ ccp_done /\ ip_configured /\ local_ip = Assigned
        /\ Undisturbed => p_master # 0 /\ "tx" \in p_ipcp

\* Every IP packet is readable where it arrives: encrypted exactly when CCP
\* is open there, with the key and coherency count the receiver expects, even
\* when a repeated CCP request restarts the keys (mppe_init_keys).  Excepted is
\* the server that naks the client's request and repeats its own: handle_ccp
\* then switches MPPE on although it counted CCP as done without; and what
\* handle_lcp and handle_chap do not restart: MPPE goes on with CCP after a
\* renegotiation, and with new master keys after a late Challenge.
MppeInSync ==
    Undisturbed /\ (p_policy.ccp = "nak" => sent.ccp = 0) => bad = {}

\* Where negotiation may hang: the server refused the DNS options (handle_ipcp
\* ignores a Configure-Reject), it negotiated LCP again (handle_lcp does not
\* send its request again), or a frame was lost (nothing is sent again).
MayHang == ~p_policy.dns \/ sent.reneg > 0 \/ sent.refused > 0

\* Negotiation ends: the link is up, or the session failed, or the connection
\* broke; or it hangs in one of the three known ways, and then the server never
\* comes to acknowledge the client's address.  PPP has no timer that ends it.
NegotiationEnds ==
    \/ <>(up_notified \/ failed # "none" \/ ~stream_ok)
    \/ <>[](MayHang /\ "tx" \notin p_ipcp)

=============================================================================
