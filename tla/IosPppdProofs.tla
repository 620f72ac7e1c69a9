--------------------------- MODULE IosPppdProofs ---------------------------
(***************************************************************************)
(* Proofs about the PPP client of IosPppd: the type invariant, the         *)
(* transmit queue's freedom from lost wake-ups, the agreement of both ends *)
(* on the MPPE master keys, and that on_ready is called only for a link    *)
(* both ends agree on.                                                     *)
(*                                                                         *)
(* The last part follows the order of frames in the stream.  The server's  *)
(* Configure-Naks precede its Configure-Ack of LCP, and its Challenges     *)
(* follow it; so handle_lcp sends no LCP request once handle_chap has sent *)
(* a Response, and the server does not take an accepted authentication     *)
(* back unless it negotiates LCP again.  The CHAP Success precedes every   *)
(* IPCP frame, so the address is acknowledged only to an authenticated     *)
(* client.  UpInv says so while the link is Undisturbed, BaseInv what is   *)
(* left of it afterwards.                                                  *)
(***************************************************************************)
EXTENDS IosPppd, SequenceTheorems, TLAPS

-----------------------------------------------------------------------------
(* The transmit queue, for any set S of frames.                            *)

\* ppp_flush_start moves frames of S and keeps the queue from stalling.
LEMMA FlushIn ==
    ASSUME NEW S, NoItem \notin S, c2s \in Seq(S),
           NEW wire \in Seq(S), NEW q \in Seq(S), NEW n \in Nat,
           Flush(wire, q, n)
    PROVE  /\ c2s' \in Seq(S) /\ txq' \in Seq(S)
           /\ tx_inflight' \in S \cup {NoItem}
           /\ stream_ok /\ tx_inflight' = NoItem => txq' = << >>
<1>1. \A i \in 1 .. Len(q) : q[i] \in S
  BY ElementOfSeq
<1>2. \A a \in 1 .. Len(q) + 2, b \in 0 .. Len(q) : SubSeq(q, a, b) \in Seq(S)
  <2> SUFFICES ASSUME NEW a \in 1 .. Len(q) + 2, NEW b \in 0 .. Len(q)
               PROVE  SubSeq(q, a, b) \in Seq(S)
    OBVIOUS
  <2>1. \A i \in a .. b : q[i] \in S
    BY <1>1
  <2> QED
    BY <2>1, SubSeqProperties
<1>3. CASE ~stream_ok
  <2>1. txq' = SubSeq(q, n + 1, Len(q)) /\ tx_inflight' = NoItem /\ c2s' = c2s
    BY <1>3 DEF Flush, Refused
  <2>2. \A i \in n + 1 .. Len(q) : q[i] \in S
    BY <1>1
  <2>3. SubSeq(q, n + 1, Len(q)) \in Seq(S)
    BY <2>2, SubSeqProperties
  <2> QED
    BY <1>3, <2>1, <2>3
<1>4. CASE stream_ok
  <2>1. PICK k \in 0 .. Len(q) :
          /\ c2s' = wire \o SubSeq(q, 1, k)
          /\ tx_inflight' = IF k < Len(q) THEN q[k + 1] ELSE NoItem
          /\ txq' = SubSeq(q, k + 2, Len(q))
    BY <1>4 DEF Flush
  <2>2. c2s' \in Seq(S)
    BY <2>1, <1>2, ConcatProperties
  <2>3. txq' \in Seq(S)
    BY <2>1, <1>2
  <2>4. tx_inflight' \in S \cup {NoItem}
    BY <2>1, <1>1
  <2>5. ASSUME tx_inflight' = NoItem PROVE txq' = << >>
    <3>1. ~(k < Len(q))
      BY <2>1, <2>5, <1>1
    <3>2. Len(q) < k + 2
      BY <3>1
    <3> QED
      BY <2>1, <3>2, SubSeqEmpty
  <2> QED
    BY <2>2, <2>3, <2>4, <2>5
<1> QED
  BY <1>3, <1>4

\* Sending frames of S keeps both the queue and the wire within S.
LEMMA TransmitIn ==
    ASSUME NEW S, NoItem \notin S, c2s \in Seq(S), txq \in Seq(S),
           tx_inflight \in S \cup {NoItem},
           NEW fs \in Seq(S), Transmit(fs), TxNotStalled
    PROVE  /\ c2s' \in Seq(S) /\ txq' \in Seq(S)
           /\ tx_inflight' \in S \cup {NoItem}
           /\ stream_ok' = stream_ok => TxNotStalled'
<1>1. CASE tx_busy
  <2>1. txq' = txq \o fs /\ tx_inflight' = tx_inflight /\ c2s' = c2s
    BY <1>1 DEF Transmit
  <2> QED
    BY <1>1, <2>1, ConcatProperties DEF TxNotStalled, tx_busy
<1>2. CASE ~tx_busy
  <2>1. txq \o fs \in Seq(S) /\ Len(fs) \in Nat
    BY ConcatProperties, LenProperties
  <2>2. Flush(c2s, txq \o fs, Len(fs))
    BY <1>2 DEF Transmit
  <2> QED
    BY <2>1, <2>2, FlushIn DEF TxNotStalled, tx_busy
<1> QED
  BY <1>1, <1>2

-----------------------------------------------------------------------------
(* Types of the frames and of the MPPE state.                              *)

\* An empty transmit slot is told apart from every frame.
LEMMA NoItemNotFrame == NoItem \notin Frames
BY DEF NoItem, Frames, Protos

\* A control frame is a frame.
LEMMA CtlFrame ==
    ASSUME NEW p \in Protos \ {"MPPE"}, NEW c \in Codes, NEW v \in Nat
    PROVE  Ctl(p, c, v) \in Frames
BY DEF Ctl, Frames, Keys, NoKey

\* One element makes a sequence over its set.
LEMMA OneIn ==
    ASSUME NEW S, NEW x \in S
    PROVE  <<x>> \in Seq(S)
OBVIOUS

\* The empty sequence is one over any set.
LEMMA NoneIn ==
    ASSUME NEW S
    PROVE  << >> \in Seq(S)
OBVIOUS

\* The coherency count stays in its 12 bits.
LEMMA CcountRange ==
    ASSUME NEW c \in Int
    PROVE  Ccount(c) \in 0 .. CcMod - 1
BY ConstantsAssumption DEF Ccount

\* Restarting, advancing and catching up keep the MPPE state's type.
LEMMA MppeTypes ==
    ASSUME NEW x \in MppeStates
    PROVE  /\ mppe_init_keys(x) \in MppeStates
           /\ MppeAdvance(x) \in MppeStates
           /\ MppeFrame(x) \in Frames
           /\ \A f \in Frames :
                f.proto = "MPPE" => MppeCatchUp(x, f) \in MppeStates
           /\ \A v \in Nat : [x EXCEPT !.master = v] \in MppeStates
           /\ [x EXCEPT !.enabled = FALSE] \in MppeStates
<1>1. CcMod - 1 \in 0 .. CcMod - 1 /\ CcMod \in Nat
  BY ConstantsAssumption
<1>2. x.scount \in 0 .. CcMod - 1 /\ x.rcount \in 0 .. CcMod - 1
  BY DEF MppeStates
<1>3. mppe_init_keys(x) \in MppeStates
  BY <1>1 DEF mppe_init_keys, MppeStates, Keys
<1>4. MppeAdvance(x) \in MppeStates
  <2>1. Ccount(x.scount + 1) \in 0 .. CcMod - 1
    BY <1>2, CcountRange
  <2>2. mppe_rekey(x.master, x.skey, 1) \in Keys
    BY DEF mppe_rekey, MppeStates, Keys
  <2> QED
    BY <2>1, <2>2 DEF MppeAdvance, MppeStates
<1>5. MppeFrame(x) \in Frames
  BY <1>1, <1>2 DEF MppeFrame, MppeStates, Frames, Protos, Codes
<1>6. ASSUME NEW f \in Frames, f.proto = "MPPE"
      PROVE  MppeCatchUp(x, f) \in MppeStates
  <2>1. f.val \in 0 .. CcMod - 1
    BY <1>6 DEF Frames
  <2>2. MppeSkips(x, f) \in Nat
    BY <1>1, <1>2, <2>1, CcountRange DEF MppeSkips
  <2>3. /\ x.rkey \in Keys
        /\ mppe_rekey(x.master, x.rkey, MppeSkips(x, f)) \in Keys
    BY <2>2 DEF mppe_rekey, MppeStates, Keys
  <2> QED
    BY <2>1, <2>3 DEF MppeCatchUp, MppeStates
<1>7. /\ \A v \in Nat : [x EXCEPT !.master = v] \in MppeStates
      /\ [x EXCEPT !.enabled = FALSE] \in MppeStates
  BY DEF MppeStates
<1> QED
  BY <1>3, <1>4, <1>5, <1>6, <1>7

-----------------------------------------------------------------------------
(* Theorem 1: the types, with the transmit queue's invariant.              *)

\* What every received frame gives.
LEMMA DispatchType ==
    ASSUME TypeOK, NEW p, NEW cs, Dispatch(p, cs)
    PROVE  /\ Head(s2c) \in Frames /\ s2c' \in Seq(Frames)
           /\ Head(s2c).val \in Nat /\ Head(s2c).proto = p
           /\ stream_ok' = stream_ok
<1>1. s2c \in Seq(Frames) /\ s2c # << >> /\ s2c' = Tail(s2c)
  BY DEF TypeOK, Dispatch
<1>2. Head(s2c) \in Frames /\ s2c' \in Seq(Frames)
  BY <1>1, HeadTailProperties
<1> QED
  BY <1>2 DEF Dispatch, Frames

\* Sending frames preserves the types and the queue's invariant.
LEMMA TransmitType ==
    ASSUME TypeOK, TxNotStalled, NEW fs \in Seq(Frames), Transmit(fs),
           stream_ok' = stream_ok
    PROVE  /\ c2s' \in Seq(Frames) /\ txq' \in Seq(Frames)
           /\ tx_inflight' \in Frames \cup {NoItem}
           /\ TxNotStalled'
BY TransmitIn, NoItemNotFrame DEF TypeOK

\* The frames ccp_finished sends.
LEMMA CcpFinishedType ==
    ASSUME TypeOK
    PROVE  CcpFinishedFrames \in Seq(Frames)
<1>1. IpcpConfReq(local_ip) \in Frames
  BY CtlFrame DEF IpcpConfReq, TypeOK, Protos, Codes
<1> QED
  BY <1>1, OneIn, NoneIn DEF CcpFinishedFrames

\* Reporting the tunnel up keeps the session's marks typed.
LEMMA NotifyUpType ==
    ASSUME TypeOK, NEW due, NotifyUp(due)
    PROVE  /\ up_notified' \in BOOLEAN /\ ready' \in BOOLEAN
           /\ failed' \in {"none", "network_lost", "auth_rejected",
                           "mppe_failed", "sstp_control"}
BY DEF NotifyUp, TypeOK

\* Every step of the client preserves the types and the queue's invariant.
LEMMA ClientStepType ==
    ASSUME TypeOK, TxNotStalled, Start \/ ClientReceives \/ SendComplete \/ SendIp
    PROVE  TypeOK' /\ TxNotStalled'
<1>1. ASSUME Start PROVE TypeOK' /\ TxNotStalled'
  <2>1. <<LcpConfReq>> \in Seq(Frames)
    BY CtlFrame, OneIn, NoneIn DEF Protos, Codes, LcpConfReq, CcpConfReq, IpcpConfReq
  <2>2. /\ c2s' \in Seq(Frames) /\ txq' \in Seq(Frames)
        /\ tx_inflight' \in Frames \cup {NoItem} /\ TxNotStalled'
    BY <1>1, <2>1, TransmitType DEF Start
  <2> QED
    BY <1>1, <2>2
    DEF Start, TypeOK, Dispatch, clientVars, upVars, linkVars, txVars, peerVars
<1>2. ASSUME LcpConfReqRcvd PROVE TypeOK' /\ TxNotStalled'
  <2>1. /\ Head(s2c) \in Frames /\ s2c' \in Seq(Frames)
        /\ Head(s2c).val \in Nat /\ stream_ok' = stream_ok
    BY <1>2, DispatchType DEF LcpConfReqRcvd
  <2>2. <<Ctl("LCP", "ConfAck", 0)>>
               \o (IF lcp_opened THEN << >> ELSE <<LcpConfReq>>) \in Seq(Frames)
    BY <2>1, CtlFrame, OneIn, NoneIn, ConcatProperties DEF Protos, Codes, LcpConfReq, CcpConfReq, IpcpConfReq
  <2>3. /\ c2s' \in Seq(Frames) /\ txq' \in Seq(Frames)
        /\ tx_inflight' \in Frames \cup {NoItem} /\ TxNotStalled'
    BY <1>2, <2>1, <2>2, TransmitType DEF LcpConfReqRcvd
  <2> QED
    BY <1>2, <2>1, <2>3
    DEF LcpConfReqRcvd, TypeOK, Dispatch, clientVars, upVars, linkVars, txVars, peerVars
<1>3. ASSUME LcpConfAckRcvd PROVE TypeOK' /\ TxNotStalled'
  <2>1. /\ Head(s2c) \in Frames /\ s2c' \in Seq(Frames)
        /\ Head(s2c).val \in Nat /\ stream_ok' = stream_ok
    BY <1>3, DispatchType DEF LcpConfAckRcvd
  <2> QED
    BY <1>3, <2>1
    DEF LcpConfAckRcvd, TypeOK, Dispatch, clientVars, upVars, linkVars, txVars, peerVars, TxNotStalled, tx_busy
<1>4. ASSUME LcpConfNakRcvd PROVE TypeOK' /\ TxNotStalled'
  <2>1. /\ Head(s2c) \in Frames /\ s2c' \in Seq(Frames)
        /\ Head(s2c).val \in Nat /\ stream_ok' = stream_ok
    BY <1>4, DispatchType DEF LcpConfNakRcvd
  <2>2. <<LcpConfReq>> \in Seq(Frames)
    BY <2>1, CtlFrame, OneIn, NoneIn DEF Protos, Codes, LcpConfReq, CcpConfReq, IpcpConfReq
  <2>3. /\ c2s' \in Seq(Frames) /\ txq' \in Seq(Frames)
        /\ tx_inflight' \in Frames \cup {NoItem} /\ TxNotStalled'
    BY <1>4, <2>1, <2>2, TransmitType DEF LcpConfNakRcvd
  <2> QED
    BY <1>4, <2>1, <2>3
    DEF LcpConfNakRcvd, TypeOK, Dispatch, clientVars, upVars, linkVars, txVars, peerVars
<1>5. ASSUME LcpTermReqRcvd PROVE TypeOK' /\ TxNotStalled'
  <2>1. /\ Head(s2c) \in Frames /\ s2c' \in Seq(Frames)
        /\ Head(s2c).val \in Nat /\ stream_ok' = stream_ok
    BY <1>5, DispatchType DEF LcpTermReqRcvd
  <2>2. <<Ctl("LCP", "TermAck", 0)>> \in Seq(Frames)
    BY <2>1, CtlFrame, OneIn, NoneIn DEF Protos, Codes, LcpConfReq, CcpConfReq, IpcpConfReq
  <2>3. /\ c2s' \in Seq(Frames) /\ txq' \in Seq(Frames)
        /\ tx_inflight' \in Frames \cup {NoItem} /\ TxNotStalled'
    BY <1>5, <2>1, <2>2, TransmitType DEF LcpTermReqRcvd
  <2> QED
    BY <1>5, <2>1, <2>3
    DEF LcpTermReqRcvd, TypeOK, Dispatch, clientVars, upVars, linkVars, txVars, peerVars
<1>6. ASSUME LcpEchoReqRcvd PROVE TypeOK' /\ TxNotStalled'
  <2>1. /\ Head(s2c) \in Frames /\ s2c' \in Seq(Frames)
        /\ Head(s2c).val \in Nat /\ stream_ok' = stream_ok
    BY <1>6, DispatchType DEF LcpEchoReqRcvd
  <2>2. <<Ctl("LCP", "EchoRep", 0)>> \in Seq(Frames)
    BY <2>1, CtlFrame, OneIn, NoneIn DEF Protos, Codes, LcpConfReq, CcpConfReq, IpcpConfReq
  <2>3. /\ c2s' \in Seq(Frames) /\ txq' \in Seq(Frames)
        /\ tx_inflight' \in Frames \cup {NoItem} /\ TxNotStalled'
    BY <1>6, <2>1, <2>2, TransmitType DEF LcpEchoReqRcvd
  <2> QED
    BY <1>6, <2>1, <2>3
    DEF LcpEchoReqRcvd, TypeOK, Dispatch, clientVars, upVars, linkVars, txVars, peerVars
<1>7. ASSUME LcpOtherRcvd PROVE TypeOK' /\ TxNotStalled'
  <2>1. /\ Head(s2c) \in Frames /\ s2c' \in Seq(Frames)
        /\ Head(s2c).val \in Nat /\ stream_ok' = stream_ok
    BY <1>7, DispatchType DEF LcpOtherRcvd
  <2> QED
    BY <1>7, <2>1
    DEF LcpOtherRcvd, TypeOK, Dispatch, clientVars, upVars, linkVars, txVars, peerVars, TxNotStalled, tx_busy
<1>8. ASSUME ChapChallengeRcvd PROVE TypeOK' /\ TxNotStalled'
  <2>1. /\ Head(s2c) \in Frames /\ s2c' \in Seq(Frames)
        /\ Head(s2c).val \in Nat /\ stream_ok' = stream_ok
    BY <1>8, DispatchType DEF ChapChallengeRcvd
  <2>2. <<Ctl("CHAP", "Response", Head(s2c).val)>> \in Seq(Frames)
    BY <2>1, CtlFrame, OneIn, NoneIn DEF Protos, Codes, LcpConfReq, CcpConfReq, IpcpConfReq
  <2>3. /\ c2s' \in Seq(Frames) /\ txq' \in Seq(Frames)
        /\ tx_inflight' \in Frames \cup {NoItem} /\ TxNotStalled'
    BY <1>8, <2>1, <2>2, TransmitType DEF ChapChallengeRcvd
  <2> QED
    BY <1>8, <2>1, <2>3, MppeTypes
    DEF ChapChallengeRcvd, TypeOK, Dispatch, clientVars, upVars, linkVars, txVars, peerVars, sstp_pppd_set_mppe_keys
<1>9. ASSUME ChapSuccessRcvd PROVE TypeOK' /\ TxNotStalled'
  <2>1. /\ Head(s2c) \in Frames /\ s2c' \in Seq(Frames)
        /\ Head(s2c).val \in Nat /\ stream_ok' = stream_ok
    BY <1>9, DispatchType DEF ChapSuccessRcvd
  <2>2. <<CcpConfReq>> \in Seq(Frames)
    BY <2>1, CtlFrame, OneIn, NoneIn DEF Protos, Codes, LcpConfReq, CcpConfReq, IpcpConfReq
  <2>3. /\ c2s' \in Seq(Frames) /\ txq' \in Seq(Frames)
        /\ tx_inflight' \in Frames \cup {NoItem} /\ TxNotStalled'
    BY <1>9, <2>1, <2>2, TransmitType DEF ChapSuccessRcvd
  <2> QED
    BY <1>9, <2>1, <2>3
    DEF ChapSuccessRcvd, TypeOK, Dispatch, clientVars, upVars, linkVars, txVars, peerVars
<1>10. ASSUME ChapFailureRcvd PROVE TypeOK' /\ TxNotStalled'
  <2>1. /\ Head(s2c) \in Frames /\ s2c' \in Seq(Frames)
        /\ Head(s2c).val \in Nat /\ stream_ok' = stream_ok
    BY <1>10, DispatchType DEF ChapFailureRcvd
  <2> QED
    BY <1>10, <2>1
    DEF ChapFailureRcvd, TypeOK, Dispatch, clientVars, upVars, linkVars, txVars, peerVars, TxNotStalled, tx_busy
<1>11. ASSUME CcpConfReqRcvd PROVE TypeOK' /\ TxNotStalled'
  <2>1. /\ Head(s2c) \in Frames /\ s2c' \in Seq(Frames)
        /\ Head(s2c).val \in Nat /\ stream_ok' = stream_ok
    BY <1>11, DispatchType DEF CcpConfReqRcvd
  <2>2. <<Ctl("CCP", "ConfAck", 0)>> \o CcpFinishedFrames \in Seq(Frames)
    BY <2>1, CtlFrame, OneIn, NoneIn, ConcatProperties, CcpFinishedType DEF Protos, Codes, LcpConfReq, CcpConfReq, IpcpConfReq
  <2>3. /\ c2s' \in Seq(Frames) /\ txq' \in Seq(Frames)
        /\ tx_inflight' \in Frames \cup {NoItem} /\ TxNotStalled'
    BY <1>11, <2>1, <2>2, TransmitType DEF CcpConfReqRcvd
  <2> QED
    BY <1>11, <2>1, <2>3, MppeTypes, NotifyUpType
    DEF CcpConfReqRcvd, TypeOK, Dispatch, clientVars, upVars, linkVars, txVars, peerVars
<1>12. ASSUME CcpConfAckRcvd PROVE TypeOK' /\ TxNotStalled'
  <2>1. /\ Head(s2c) \in Frames /\ s2c' \in Seq(Frames)
        /\ Head(s2c).val \in Nat /\ stream_ok' = stream_ok
    BY <1>12, DispatchType DEF CcpConfAckRcvd
  <2>2. CcpFinishedFrames \in Seq(Frames)
    BY CcpFinishedType
  <2>3. /\ c2s' \in Seq(Frames) /\ txq' \in Seq(Frames)
        /\ tx_inflight' \in Frames \cup {NoItem} /\ TxNotStalled'
    BY <1>12, <2>1, <2>2, TransmitType DEF CcpConfAckRcvd
  <2> QED
    BY <1>12, <2>1, <2>3, MppeTypes, NotifyUpType
    DEF CcpConfAckRcvd, TypeOK, Dispatch, clientVars, upVars, linkVars, txVars, peerVars
<1>13. ASSUME CcpConfRejRcvd PROVE TypeOK' /\ TxNotStalled'
  <2>1. /\ Head(s2c) \in Frames /\ s2c' \in Seq(Frames)
        /\ Head(s2c).val \in Nat /\ stream_ok' = stream_ok
    BY <1>13, DispatchType DEF CcpConfRejRcvd
  <2>2. CcpFinishedFrames \in Seq(Frames)
    BY CcpFinishedType
  <2>3. /\ c2s' \in Seq(Frames) /\ txq' \in Seq(Frames)
        /\ tx_inflight' \in Frames \cup {NoItem} /\ TxNotStalled'
    BY <1>13, <2>1, <2>2, TransmitType DEF CcpConfRejRcvd
  <2> QED
    BY <1>13, <2>1, <2>3, MppeTypes, NotifyUpType
    DEF CcpConfRejRcvd, TypeOK, Dispatch, clientVars, upVars, linkVars, txVars, peerVars
<1>14. ASSUME IpcpConfReqRcvd PROVE TypeOK' /\ TxNotStalled'
  <2>1. /\ Head(s2c) \in Frames /\ s2c' \in Seq(Frames)
        /\ Head(s2c).val \in Nat /\ stream_ok' = stream_ok
    BY <1>14, DispatchType DEF IpcpConfReqRcvd
  <2>2. CcpFinishedFrames \o <<Ctl("IPCP", "ConfAck", Head(s2c).val)>> \in Seq(Frames)
    BY <2>1, CtlFrame, OneIn, NoneIn, ConcatProperties, CcpFinishedType DEF Protos, Codes, LcpConfReq, CcpConfReq, IpcpConfReq
  <2>3. /\ c2s' \in Seq(Frames) /\ txq' \in Seq(Frames)
        /\ tx_inflight' \in Frames \cup {NoItem} /\ TxNotStalled'
    BY <1>14, <2>1, <2>2, TransmitType DEF IpcpConfReqRcvd
  <2> QED
    BY <1>14, <2>1, <2>3, MppeTypes, NotifyUpType
    DEF IpcpConfReqRcvd, TypeOK, Dispatch, clientVars, upVars, linkVars, txVars, peerVars, IpcpPreamble
<1>15. ASSUME IpcpConfAckRcvd PROVE TypeOK' /\ TxNotStalled'
  <2>1. /\ Head(s2c) \in Frames /\ s2c' \in Seq(Frames)
        /\ Head(s2c).val \in Nat /\ stream_ok' = stream_ok
    BY <1>15, DispatchType DEF IpcpConfAckRcvd
  <2>2. CcpFinishedFrames \in Seq(Frames)
    BY CcpFinishedType
  <2>3. /\ c2s' \in Seq(Frames) /\ txq' \in Seq(Frames)
        /\ tx_inflight' \in Frames \cup {NoItem} /\ TxNotStalled'
    BY <1>15, <2>1, <2>2, TransmitType DEF IpcpConfAckRcvd
  <2> QED
    BY <1>15, <2>1, <2>3, MppeTypes, NotifyUpType
    DEF IpcpConfAckRcvd, TypeOK, Dispatch, clientVars, upVars, linkVars, txVars, peerVars, IpcpPreamble
<1>16. ASSUME IpcpConfNakRcvd PROVE TypeOK' /\ TxNotStalled'
  <2>1. /\ Head(s2c) \in Frames /\ s2c' \in Seq(Frames)
        /\ Head(s2c).val \in Nat /\ stream_ok' = stream_ok
    BY <1>16, DispatchType DEF IpcpConfNakRcvd
  <2>2. CcpFinishedFrames \o <<IpcpConfReq(Head(s2c).val)>> \in Seq(Frames)
    BY <2>1, CtlFrame, OneIn, NoneIn, ConcatProperties, CcpFinishedType DEF Protos, Codes, LcpConfReq, CcpConfReq, IpcpConfReq
  <2>3. /\ c2s' \in Seq(Frames) /\ txq' \in Seq(Frames)
        /\ tx_inflight' \in Frames \cup {NoItem} /\ TxNotStalled'
    BY <1>16, <2>1, <2>2, TransmitType DEF IpcpConfNakRcvd
  <2> QED
    BY <1>16, <2>1, <2>3, MppeTypes, NotifyUpType
    DEF IpcpConfNakRcvd, TypeOK, Dispatch, clientVars, upVars, linkVars, txVars, peerVars, IpcpPreamble
<1>17. ASSUME IpcpOtherRcvd PROVE TypeOK' /\ TxNotStalled'
  <2>1. /\ Head(s2c) \in Frames /\ s2c' \in Seq(Frames)
        /\ Head(s2c).val \in Nat /\ stream_ok' = stream_ok
    BY <1>17, DispatchType DEF IpcpOtherRcvd
  <2>2. CcpFinishedFrames \in Seq(Frames)
    BY CcpFinishedType
  <2>3. /\ c2s' \in Seq(Frames) /\ txq' \in Seq(Frames)
        /\ tx_inflight' \in Frames \cup {NoItem} /\ TxNotStalled'
    BY <1>17, <2>1, <2>2, TransmitType DEF IpcpOtherRcvd
  <2> QED
    BY <1>17, <2>1, <2>3, MppeTypes, NotifyUpType
    DEF IpcpOtherRcvd, TypeOK, Dispatch, clientVars, upVars, linkVars, txVars, peerVars, IpcpPreamble
<1>18. ASSUME IpRcvd PROVE TypeOK' /\ TxNotStalled'
  <2>1. /\ Head(s2c) \in Frames /\ s2c' \in Seq(Frames)
        /\ Head(s2c).val \in Nat /\ stream_ok' = stream_ok
    BY <1>18, DispatchType DEF IpRcvd
  <2> QED
    BY <1>18, <2>1
    DEF IpRcvd, TypeOK, Dispatch, clientVars, upVars, linkVars, txVars, peerVars, TxNotStalled, tx_busy
<1>19. ASSUME MppeRcvd PROVE TypeOK' /\ TxNotStalled'
  <2>1. /\ Head(s2c) \in Frames /\ s2c' \in Seq(Frames)
        /\ Head(s2c).proto = "MPPE"
    BY <1>19, DispatchType DEF MppeRcvd
  <2>2. mppe' \in MppeStates
    BY <1>19, <2>1, MppeTypes DEF MppeRcvd, TypeOK
  <2> QED
    BY <1>19, <2>1, <2>2
    DEF MppeRcvd, TypeOK, Dispatch, upVars, linkVars, txVars, peerVars,
        TxNotStalled, tx_busy
<1>20. ASSUME SendComplete PROVE TypeOK' /\ TxNotStalled'
  <2>1. tx_inflight \in Frames
    BY <1>20 DEF SendComplete, tx_busy, TypeOK
  <2>2. Append(c2s, tx_inflight) \in Seq(Frames)
    BY <2>1, AppendProperties DEF TypeOK
  <2>3. /\ c2s' \in Seq(Frames) /\ txq' \in Seq(Frames)
        /\ tx_inflight' \in Frames \cup {NoItem}
        /\ stream_ok /\ tx_inflight' = NoItem => txq' = << >>
    BY <1>20, <2>2, FlushIn, NoItemNotFrame DEF SendComplete, TypeOK
  <2> QED
    BY <1>20, <2>3
    DEF SendComplete, TypeOK, clientVars, upVars, linkVars, peerVars,
        TxNotStalled, tx_busy
<1>21. ASSUME SendIp PROVE TypeOK' /\ TxNotStalled'
  <2>0. stream_ok' = stream_ok /\ mppe \in MppeStates /\ sent' \in SentCounts
    <3>1. sent' = [sent EXCEPT !.ip = sent.ip + 1] /\ sent \in SentCounts
      BY <1>21 DEF SendIp, TypeOK
    <3>2. sent' \in SentCounts
      BY <3>1 DEF SentCounts
    <3> QED
      BY <1>21, <3>2 DEF SendIp, TypeOK
  <2>1. CASE mppe.enabled
    <3>1. mppe' = MppeAdvance(mppe) /\ Transmit(<<MppeFrame(mppe')>>)
      BY <1>21, <2>1 DEF SendIp
    <3>2. mppe' \in MppeStates
      BY <3>1, <2>0, MppeTypes
    <3>3. <<MppeFrame(mppe')>> \in Seq(Frames)
      BY <3>2, MppeTypes, OneIn
    <3>4. /\ c2s' \in Seq(Frames) /\ txq' \in Seq(Frames)
          /\ tx_inflight' \in Frames \cup {NoItem} /\ TxNotStalled'
      BY <2>0, <3>1, <3>3, TransmitType
    <3> QED
      BY <1>21, <2>0, <3>2, <3>4
      DEF SendIp, TypeOK, upVars, linkVars, peerVars
  <2>2. CASE ~mppe.enabled
    <3>1. <<IpFrame>> \in Seq(Frames)
      BY CtlFrame, OneIn DEF IpFrame, Protos, Codes
    <3>2. Transmit(<<IpFrame>>) /\ mppe' = mppe
      BY <1>21, <2>2 DEF SendIp
    <3>3. /\ c2s' \in Seq(Frames) /\ txq' \in Seq(Frames)
          /\ tx_inflight' \in Frames \cup {NoItem} /\ TxNotStalled'
      BY <2>0, <3>1, <3>2, TransmitType
    <3> QED
      BY <1>21, <2>0, <3>2, <3>3
      DEF SendIp, TypeOK, upVars, linkVars, peerVars
  <2> QED
    BY <2>1, <2>2
<1> QED
  BY <1>1, <1>2, <1>3, <1>4, <1>5, <1>6, <1>7, <1>8, <1>9, <1>10, <1>11, <1>12, <1>13, <1>14, <1>15, <1>16, <1>17, <1>18, <1>19, <1>20, <1>21 DEF ClientReceives

\* What the server sends keeps the stream to the client typed.
LEMMA PeerSendsType ==
    ASSUME TypeOK, NEW fs \in Seq(Frames), PeerSends(fs)
    PROVE  s2c' \in Seq(Frames)
BY ConcatProperties DEF PeerSends, TypeOK

\* What the server receives is a frame of the protocol it waits for.
LEMMA PeerTakesType ==
    ASSUME TypeOK, NEW ps, PeerTakes(ps)
    PROVE  /\ Head(c2s) \in Frames /\ c2s' \in Seq(Frames)
           /\ Head(c2s).val \in Nat /\ Head(c2s).proto \in ps
<1>1. c2s \in Seq(Frames) /\ c2s # << >> /\ c2s' = Tail(c2s)
  BY DEF TypeOK, PeerTakes
<1>2. Head(c2s) \in Frames /\ c2s' \in Seq(Frames)
  BY <1>1, HeadTailProperties
<1> QED
  BY <1>2 DEF PeerTakes, Frames

\* Requests and answers of the server, alone or together.
LEMMA PeerAnswerType ==
    ASSUME NEW x \in Frames, NEW y \in Frames, NEW b \in BOOLEAN,
           NEW s \in Seq(Frames)
    PROVE  /\ s \o (IF b THEN << >> ELSE <<x>>) \o <<y>> \in Seq(Frames)
           /\ Append(s, y) \in Seq(Frames)
<1>1. (IF b THEN << >> ELSE <<x>>) \in Seq(Frames)
  BY OneIn, NoneIn
<1>2. <<y>> \in Seq(Frames)
  BY OneIn
<1>3. s \o (IF b THEN << >> ELSE <<x>>) \in Seq(Frames)
  BY <1>1, ConcatProperties
<1>4. s \o (IF b THEN << >> ELSE <<x>>) \o <<y>> \in Seq(Frames)
  BY <1>2, <1>3, ConcatProperties
<1> QED
  BY <1>4, AppendProperties

\* Every frame of the server is a frame.
LEMMA PeerFrames ==
    /\ LcpConfReq \in Frames /\ CcpConfReq \in Frames /\ IpFrame \in Frames
    /\ IpcpConfReq(PeerAddr) \in Frames
    /\ \A c \in Codes : /\ Ctl("LCP", c, 0) \in Frames
                        /\ Ctl("CHAP", c, 0) \in Frames
                        /\ Ctl("CCP", c, 0) \in Frames
                        /\ Ctl("IPCP", c, 0) \in Frames
                        /\ Ctl("IPCP", c, Assigned) \in Frames
<1>1. PeerAddr \in Nat /\ Assigned \in Nat
  BY ConstantsAssumption
<1> QED
  BY <1>1, CtlFrame DEF LcpConfReq, CcpConfReq, IpFrame, IpcpConfReq, Protos, Codes

\* The bounded counters stay natural numbers.
LEMMA SentStep ==
    ASSUME NEW x \in SentCounts
    PROVE  /\ [x EXCEPT !.peer_ip = x.peer_ip + 1] \in SentCounts
           /\ [x EXCEPT !.nak = x.nak + 1] \in SentCounts
           /\ [x EXCEPT !.retx = x.retx + 1] \in SentCounts
           /\ [x EXCEPT !.ccp = x.ccp + 1] \in SentCounts
           /\ [x EXCEPT !.echo = x.echo + 1] \in SentCounts
           /\ [x EXCEPT !.reneg = x.reneg + 1] \in SentCounts
           /\ [x EXCEPT !.rechal = x.rechal + 1] \in SentCounts
           /\ [x EXCEPT !.refused = x.refused + 1] \in SentCounts
BY DEF SentCounts

\* No step but the three unusual ones counts as unusual.
LEMMA SentSame ==
    ASSUME TypeOK,
           \/ Start \/ ClientReceives \/ SendComplete \/ SendIp
           \/ PeerOpens \/ PeerReceives \/ PeerCcpRepeat \/ PeerEcho
           \/ PeerTerminate \/ PeerSendIp \/ StreamError
    PROVE  /\ sent'.reneg = sent.reneg /\ sent'.rechal = sent.rechal
           /\ sent'.refused = sent.refused
<1>1. \/ sent' = sent
      \/ sent' = [sent EXCEPT !.ip = sent.ip + 1]
      \/ sent' = [sent EXCEPT !.peer_ip = sent.peer_ip + 1]
      \/ sent' = [sent EXCEPT !.nak = sent.nak + 1]
      \/ sent' = [sent EXCEPT !.retx = sent.retx + 1]
      \/ sent' = [sent EXCEPT !.ccp = sent.ccp + 1]
      \/ sent' = [sent EXCEPT !.echo = sent.echo + 1]
  <2>1. CASE Start \/ SendComplete \/ SendIp
    BY <2>1 DEF Start, SendComplete, SendIp
  <2>2. CASE ClientReceives
    BY <2>2 DEF ClientReceives, LcpConfReqRcvd, LcpConfAckRcvd, LcpConfNakRcvd,
        LcpTermReqRcvd, LcpEchoReqRcvd, LcpOtherRcvd, ChapChallengeRcvd,
        ChapSuccessRcvd, ChapFailureRcvd, CcpConfReqRcvd, CcpConfAckRcvd,
        CcpConfRejRcvd, IpcpConfReqRcvd, IpcpConfAckRcvd, IpcpConfNakRcvd,
        IpcpOtherRcvd, MppeRcvd, IpRcvd
  <2>3. CASE PeerOpens
    BY <2>3 DEF PeerOpens, PeerLcpOpen, PeerChallenge, PeerCcpOpen, PeerIpcpOpen
  <2>4. CASE PeerReceives
    <3>1. CASE PeerLcpConfReq
      BY <3>1 DEF PeerLcpConfReq
    <3>2. CASE PeerLcpOther \/ PeerChap \/ PeerData
      BY <3>2 DEF PeerLcpOther, PeerChap, PeerData
    <3>3. CASE PeerCcp \/ PeerIpcp
      <4>1. sent' = sent
        BY <3>3 DEF PeerCcp, PeerIpcp
      <4> QED
        BY <4>1
    <3> QED
      BY <2>4, <3>1, <3>2, <3>3 DEF PeerReceives
  <2>5. CASE PeerCcpRepeat \/ PeerEcho \/ PeerTerminate \/ PeerSendIp \/ StreamError
    BY <2>5 DEF PeerCcpRepeat, PeerEcho, PeerTerminate, PeerSendIp, StreamError
  <2> QED
    BY <2>1, <2>2, <2>3, <2>4, <2>5
<1> QED
  BY <1>1 DEF TypeOK, SentCounts

\* Every step of the server, and a broken stream, preserve them too.
LEMMA PeerStepType ==
    ASSUME TypeOK, TxNotStalled,
           \/ PeerOpens \/ PeerReceives \/ PeerCcpRepeat \/ PeerEcho
           \/ PeerTerminate \/ PeerSendIp \/ StreamError
    PROVE  TypeOK' /\ TxNotStalled'
<1>0. sent'.refused = sent.refused
  BY SentSame
<1>1. ASSUME PeerLcpOpen PROVE TypeOK' /\ TxNotStalled'
  <2>1. s2c' \in Seq(Frames)
    BY <1>1, PeerFrames, OneIn, PeerSendsType DEF PeerLcpOpen
  <2> QED
    BY <1>0, <1>1, <2>1 DEF PeerLcpOpen, TypeOK, TxNotStalled, tx_busy, clientVars,
                      upVars, linkVars, txVars, Marks
<1>2. ASSUME PeerChallenge PROVE TypeOK' /\ TxNotStalled'
  <2>1. <<Ctl("CHAP", "Challenge", p_chal + 1)>> \in Seq(Frames)
    BY CtlFrame, OneIn DEF TypeOK, Protos, Codes
  <2>2. s2c' \in Seq(Frames)
    BY <1>2, <2>1, PeerSendsType DEF PeerChallenge
  <2>3. sent' \in SentCounts
    <3>1. sent' = [sent EXCEPT !.retx = sent.retx + 1] \/ sent' = sent
      BY <1>2 DEF PeerChallenge
    <3> QED
      BY <3>1, SentStep DEF TypeOK
  <2>4. p_chal' \in Nat /\ p_await' \in BOOLEAN
    BY <1>2 DEF PeerChallenge, TypeOK
  <2> QED
    BY <1>0, <1>2, <2>2, <2>3, <2>4 DEF PeerChallenge, TypeOK, TxNotStalled, tx_busy,
                             clientVars, upVars, linkVars, txVars
<1>3. ASSUME PeerCcpOpen PROVE TypeOK' /\ TxNotStalled'
  <2>1. s2c' \in Seq(Frames)
    BY <1>3, PeerFrames, OneIn, PeerSendsType DEF PeerCcpOpen
  <2> QED
    BY <1>0, <1>3, <2>1 DEF PeerCcpOpen, TypeOK, TxNotStalled, tx_busy, clientVars,
                      upVars, linkVars, txVars, Marks
<1>4. ASSUME PeerIpcpOpen PROVE TypeOK' /\ TxNotStalled'
  <2>1. s2c' \in Seq(Frames)
    BY <1>4, PeerFrames, OneIn, PeerSendsType DEF PeerIpcpOpen
  <2> QED
    BY <1>0, <1>4, <2>1 DEF PeerIpcpOpen, TypeOK, TxNotStalled, tx_busy, clientVars,
                      upVars, linkVars, txVars, Marks
<1>5. ASSUME PeerCcpRepeat PROVE TypeOK' /\ TxNotStalled'
  <2>1. s2c' \in Seq(Frames)
    BY <1>5, PeerFrames, OneIn, PeerSendsType DEF PeerCcpRepeat
  <2>2. sent' \in SentCounts
    <3>1. sent' = [sent EXCEPT !.ccp = sent.ccp + 1] /\ sent \in SentCounts
      BY <1>5 DEF PeerCcpRepeat, TypeOK
    <3> QED
      BY <3>1, SentStep
  <2> QED
    BY <1>0, <1>5, <2>1, <2>2 DEF PeerCcpRepeat, TypeOK, TxNotStalled, tx_busy,
                      clientVars, upVars, linkVars, txVars
<1>6. ASSUME PeerEcho PROVE TypeOK' /\ TxNotStalled'
  <2>1. s2c' \in Seq(Frames)
    BY <1>6, PeerFrames, OneIn, PeerSendsType DEF PeerEcho, Codes
  <2>2. sent' \in SentCounts
    <3>1. sent' = [sent EXCEPT !.echo = sent.echo + 1] /\ sent \in SentCounts
      BY <1>6 DEF PeerEcho, TypeOK
    <3> QED
      BY <3>1, SentStep
  <2> QED
    BY <1>0, <1>6, <2>1, <2>2 DEF PeerEcho, TypeOK, TxNotStalled, tx_busy,
                      clientVars, upVars, linkVars, txVars, peerVars
<1>7. ASSUME PeerTerminate PROVE TypeOK' /\ TxNotStalled'
  <2>1. s2c' \in Seq(Frames)
    BY <1>7, PeerFrames, OneIn, PeerSendsType DEF PeerTerminate, Codes
  <2> QED
    BY <1>0, <1>7, <2>1 DEF PeerTerminate, TypeOK, TxNotStalled, tx_busy, clientVars,
                      upVars, linkVars, txVars, Marks
<1>8. ASSUME PeerSendIp PROVE TypeOK' /\ TxNotStalled'
  <2>1. sent' \in SentCounts
    <3>1. sent' = [sent EXCEPT !.peer_ip = sent.peer_ip + 1]
      BY <1>8 DEF PeerSendIp
    <3> QED
      BY <3>1, SentStep DEF TypeOK
  <2>2. p_mppe' \in MppeStates /\ s2c' \in Seq(Frames)
    <3>1. CASE Opened(p_ccp)
      <4>1. p_mppe' = MppeAdvance(p_mppe) /\ PeerSends(<<MppeFrame(p_mppe')>>)
        BY <1>8, <3>1 DEF PeerSendIp
      <4>2. p_mppe' \in MppeStates
        BY <4>1, MppeTypes DEF TypeOK
      <4>3. MppeFrame(p_mppe') \in Frames
        BY <4>2, MppeTypes
      <4> QED
        BY <4>1, <4>2, <4>3, OneIn, PeerSendsType
    <3>2. CASE ~Opened(p_ccp)
      <4>1. p_mppe' = p_mppe /\ PeerSends(<<IpFrame>>)
        BY <1>8, <3>2 DEF PeerSendIp
      <4> QED
        BY <4>1, PeerFrames, OneIn, PeerSendsType DEF TypeOK
    <3> QED
      BY <3>1, <3>2
  <2> QED
    BY <1>0, <1>8, <2>1, <2>2 DEF PeerSendIp, TypeOK, TxNotStalled, tx_busy,
                      clientVars, upVars, linkVars, txVars
<1>9. ASSUME PeerLcpConfReq PROVE TypeOK' /\ TxNotStalled'
  <2>1. c2s' \in Seq(Frames)
    BY <1>9, PeerTakesType DEF PeerLcpConfReq
  <2>2. s2c' \in Seq(Frames)
    <3>1. \E c \in {"ConfNak", "ConfAck"}, b \in BOOLEAN :
            s2c' = s2c \o (IF b THEN << >> ELSE <<LcpConfReq>>)
                       \o <<Ctl("LCP", c, 0)>>
      BY <1>9 DEF PeerLcpConfReq
    <3> QED
      BY <3>1, PeerFrames, PeerAnswerType DEF TypeOK, Codes
  <2>3. sent' \in SentCounts
    <3>1. sent' = [sent EXCEPT !.nak = sent.nak + 1] \/ sent' = sent
      BY <1>9 DEF PeerLcpConfReq
    <3> QED
      BY <3>1, SentStep DEF TypeOK
  <2>4. /\ p_lcp' \subseteq Marks /\ p_ccp' \subseteq Marks
        /\ p_ipcp' \subseteq Marks
    <3>1. /\ p_ccp' \in {p_ccp, {}} /\ p_ipcp' \in {p_ipcp, {}}
          /\ p_lcp' \in {p_lcp \cup {"req"}, {"req", "tx"},
                         p_lcp \cup {"req", "tx"}}
      BY <1>9 DEF PeerLcpConfReq
    <3> QED
      BY <3>1 DEF TypeOK, Marks
  <2>5. p_await' \in BOOLEAN /\ p_master' \in Nat
    <3>1. p_await' \in {p_await, FALSE} /\ p_master' \in {p_master, 0}
      BY <1>9 DEF PeerLcpConfReq
    <3>2. p_await' \in BOOLEAN
      BY <3>1, Zenon DEF TypeOK
    <3>3. p_master' \in Nat
      BY <3>1 DEF TypeOK
    <3> QED
      BY <3>2, <3>3
  <2> QED
    BY <1>0, <1>9, <2>1, <2>2, <2>3, <2>4, <2>5
    DEF PeerLcpConfReq, PeerTakes, TypeOK, TxNotStalled, tx_busy, clientVars,
        upVars, linkVars
<1>10. ASSUME PeerLcpOther PROVE TypeOK' /\ TxNotStalled'
  <2>1. c2s' \in Seq(Frames)
    BY <1>10, PeerTakesType DEF PeerLcpOther
  <2>2. p_lcp' \subseteq Marks
    BY <1>10 DEF PeerLcpOther, TypeOK, Marks
  <2> QED
    BY <1>0, <1>10, <2>1, <2>2
    DEF PeerLcpOther, PeerTakes, TypeOK, TxNotStalled, tx_busy, clientVars,
        upVars, linkVars
<1>11. ASSUME PeerChap PROVE TypeOK' /\ TxNotStalled'
  <2>1. c2s' \in Seq(Frames)
    BY <1>11, PeerTakesType DEF PeerChap
  <2>2. s2c' \in Seq(Frames)
    <3>1. \/ s2c' = s2c
          \/ s2c' = Append(s2c, Ctl("CHAP", "Success", 0))
          \/ s2c' = Append(s2c, Ctl("CHAP", "Failure", 0))
      BY <1>11 DEF PeerChap
    <3>2. /\ Ctl("CHAP", "Success", 0) \in Frames
          /\ Ctl("CHAP", "Failure", 0) \in Frames
      BY PeerFrames DEF Codes
    <3>3. s2c \in Seq(Frames)
      BY DEF TypeOK
    <3>4. /\ Append(s2c, Ctl("CHAP", "Success", 0)) \in Seq(Frames)
          /\ Append(s2c, Ctl("CHAP", "Failure", 0)) \in Seq(Frames)
      BY <3>2, <3>3, AppendProperties
    <3> QED
      BY <3>1, <3>3, <3>4
  <2>3. p_await' \in BOOLEAN /\ p_master' \in Nat
    <3>1. p_await' \in {p_await, FALSE} /\ p_master' \in {p_master, p_chal, 0}
      BY <1>11 DEF PeerChap
    <3>2. p_await' \in BOOLEAN
      BY <3>1, Zenon DEF TypeOK
    <3>3. p_master' \in Nat
      BY <3>1 DEF TypeOK
    <3> QED
      BY <3>2, <3>3
  <2> QED
    BY <1>0, <1>11, <2>1, <2>2, <2>3
    DEF PeerChap, PeerTakes, TypeOK, TxNotStalled, tx_busy, clientVars,
        upVars, linkVars
<1>12. ASSUME PeerCcp PROVE TypeOK' /\ TxNotStalled'
  <2>1. c2s' \in Seq(Frames)
    BY <1>12, PeerTakesType DEF PeerCcp
  <2>2. /\ \/ s2c' = s2c
           \/ \E c \in {"ConfAck", "ConfNak"}, b \in BOOLEAN :
                s2c' = s2c \o (IF b THEN << >> ELSE <<CcpConfReq>>)
                           \o <<Ctl("CCP", c, 0)>>
           \/ s2c' = Append(s2c, Ctl("CCP", "ConfRej", 0))
           \/ s2c' = Append(s2c, Ctl("LCP", "ProtRej", 0))
        /\ \/ p_ccp' = p_ccp /\ p_mppe' = p_mppe
           \/ \E fsm \in SUBSET Marks : PeerCcpSet(fsm)
    BY <1>12 DEF PeerCcp, TypeOK, Marks
  <2>3. s2c' \in Seq(Frames)
    <3>1. /\ CcpConfReq \in Frames /\ s2c \in Seq(Frames)
          /\ Ctl("CCP", "ConfAck", 0) \in Frames
          /\ Ctl("CCP", "ConfNak", 0) \in Frames
          /\ Ctl("CCP", "ConfRej", 0) \in Frames
          /\ Ctl("LCP", "ProtRej", 0) \in Frames
      BY PeerFrames DEF Codes, TypeOK
    <3>2. CASE \E c \in {"ConfAck", "ConfNak"}, b \in BOOLEAN :
                 s2c' = s2c \o (IF b THEN << >> ELSE <<CcpConfReq>>)
                            \o <<Ctl("CCP", c, 0)>>
      BY <3>1, <3>2, PeerAnswerType
    <3>3. /\ Append(s2c, Ctl("CCP", "ConfRej", 0)) \in Seq(Frames)
          /\ Append(s2c, Ctl("LCP", "ProtRej", 0)) \in Seq(Frames)
      BY <3>1, AppendProperties
    <3> QED
      BY <2>2, <3>1, <3>2, <3>3
  <2>4. p_ccp' \subseteq Marks /\ p_mppe' \in MppeStates
    <3>1. \A v \in Nat : mppe_init_keys([p_mppe EXCEPT !.master = v]) \in MppeStates
      BY MppeTypes DEF TypeOK
    <3> QED
      BY <2>2, <3>1 DEF PeerCcpSet, TypeOK
  <2> QED
    BY <1>0, <1>12, <2>1, <2>3, <2>4
    DEF PeerCcp, PeerTakes, TypeOK, TxNotStalled, tx_busy, clientVars,
        upVars, linkVars
<1>13. ASSUME PeerIpcp PROVE TypeOK' /\ TxNotStalled'
  <2>1. c2s' \in Seq(Frames)
    BY <1>13, PeerTakesType DEF PeerIpcp
  <2>2. /\ \/ s2c' = s2c
           \/ \E c \in {"ConfAck", "ConfNak", "ConfRej"}, b \in BOOLEAN,
                 v \in {0, Assigned} :
                s2c' = s2c \o (IF b THEN << >> ELSE <<IpcpConfReq(PeerAddr)>>)
                           \o <<Ctl("IPCP", c, v)>>
        /\ p_ipcp' \subseteq Marks
    BY <1>13 DEF PeerIpcp, TypeOK, Marks
  <2>3. s2c' \in Seq(Frames)
    <3>1. /\ s2c \in Seq(Frames) /\ IpcpConfReq(PeerAddr) \in Frames
          /\ \A c \in {"ConfAck", "ConfNak", "ConfRej"}, v \in {0, Assigned} :
               Ctl("IPCP", c, v) \in Frames
      BY PeerFrames DEF Codes, TypeOK
    <3>2. \A c \in {"ConfAck", "ConfNak", "ConfRej"}, b \in BOOLEAN,
             v \in {0, Assigned} :
            s2c \o (IF b THEN << >> ELSE <<IpcpConfReq(PeerAddr)>>)
                \o <<Ctl("IPCP", c, v)>> \in Seq(Frames)
      BY <3>1, PeerAnswerType
    <3> QED
      BY <2>2, <3>1, <3>2
  <2>4. UNCHANGED <<clientVars, txq, tx_inflight, stream_ok, p_policy, p_lcp,
                    p_ccp, p_await, p_chal, p_master, p_mppe, sent, bad>>
    BY <1>13 DEF PeerIpcp, PeerTakes
  <2> QED
    BY <1>0, <2>1, <2>2, <2>3, <2>4
    DEF TypeOK, TxNotStalled, tx_busy, clientVars, upVars, linkVars
<1>14. ASSUME PeerData PROVE TypeOK' /\ TxNotStalled'
  <2>1. c2s' \in Seq(Frames) /\ Head(c2s) \in Frames
    BY <1>14, PeerTakesType DEF PeerData
  <2>2. p_mppe' \in MppeStates
    BY <1>14, <2>1, MppeTypes DEF PeerData, TypeOK
  <2>3. bad' \subseteq {"client", "server"}
    BY <1>14 DEF PeerData, TypeOK
  <2> QED
    BY <1>0, <1>14, <2>1, <2>2, <2>3
    DEF PeerData, PeerTakes, TypeOK, TxNotStalled, tx_busy, clientVars,
        upVars, linkVars
<1>15. ASSUME StreamError PROVE TypeOK' /\ TxNotStalled'
  <2>1. /\ c2s' \in Seq(Frames) /\ s2c' \in Seq(Frames)
        /\ stream_ok' = FALSE /\ stream_ok' \in BOOLEAN
    BY <1>15, NoneIn DEF StreamError
  <2>2. TxNotStalled'
    BY <2>1 DEF TxNotStalled
  <2> QED
    BY <1>0, <1>15, <2>1, <2>2 DEF StreamError, TypeOK, TxNotStalled, tx_busy, clientVars,
                       upVars, linkVars, peerVars
<1> QED
  BY <1>1, <1>2, <1>3, <1>4, <1>5, <1>6, <1>7, <1>8, <1>9, <1>10, <1>11, <1>12,
     <1>13, <1>14, <1>15 DEF PeerOpens, PeerReceives

\* So do a refused frame, a renegotiation of LCP and a late Challenge.
LEMMA UpsetStepType ==
    ASSUME TypeOK, TxNotStalled, SendRefused \/ PeerLcpReopen \/ PeerRechallenge
    PROVE  TypeOK' /\ TxNotStalled'
<1>1. ASSUME SendRefused PROVE TypeOK' /\ TxNotStalled'
  <2>1. txq' = SubSeq(txq, 2, Len(txq)) /\ tx_inflight' = NoItem /\ c2s' = c2s
    BY <1>1 DEF SendRefused, Refused
  <2>2. txq' \in Seq(Frames)
    <3>1. txq \in Seq(Frames)
      BY DEF TypeOK
    <3>2. \A i \in 2 .. Len(txq) : txq[i] \in Frames
      BY <3>1, ElementOfSeq
    <3> QED
      BY <2>1, <3>2, SubSeqProperties
  <2>3. sent' \in SentCounts /\ sent'.refused # 0
    <3>1. sent \in SentCounts /\ sent' = [sent EXCEPT !.refused = sent.refused + 1]
      BY <1>1 DEF SendRefused, TypeOK
    <3> QED
      BY <3>1, SentStep DEF SentCounts
  <2>4. /\ c2s' \in Seq(Frames) /\ tx_inflight' \in Frames \cup {NoItem}
        /\ TxNotStalled'
    BY <2>1, <2>3 DEF TypeOK, TxNotStalled
  <2> QED
    BY <1>1, <2>2, <2>3, <2>4
    DEF SendRefused, TypeOK, clientVars, upVars, linkVars, peerVars
<1>2. ASSUME PeerLcpReopen PROVE TypeOK' /\ TxNotStalled'
  <2>1. s2c' \in Seq(Frames)
    BY <1>2, PeerFrames, OneIn, PeerSendsType DEF PeerLcpReopen
  <2>2. sent' \in SentCounts /\ sent'.refused = sent.refused
    <3>1. /\ sent \in SentCounts
          /\ sent' = [sent EXCEPT !.reneg = sent.reneg + 1]
      BY <1>2 DEF PeerLcpReopen, TypeOK
    <3> QED
      BY <3>1, SentStep DEF SentCounts
  <2>3. /\ p_lcp' \subseteq Marks /\ p_ccp' \subseteq Marks
        /\ p_ipcp' \subseteq Marks /\ p_await' \in BOOLEAN /\ p_master' \in Nat
    BY <1>2 DEF PeerLcpReopen, Marks
  <2>4. TxNotStalled'
    BY <1>2, <2>2 DEF PeerLcpReopen, TxNotStalled, tx_busy, txVars
  <2> QED
    BY <1>2, <2>1, <2>2, <2>3, <2>4
    DEF PeerLcpReopen, TypeOK, clientVars, upVars, linkVars, txVars
<1>3. ASSUME PeerRechallenge PROVE TypeOK' /\ TxNotStalled'
  <2>1. <<Ctl("CHAP", "Challenge", p_chal + 1)>> \in Seq(Frames)
    BY CtlFrame, OneIn DEF TypeOK, Protos, Codes
  <2>2. s2c' \in Seq(Frames)
    BY <1>3, <2>1, PeerSendsType DEF PeerRechallenge
  <2>3. sent' \in SentCounts /\ sent'.refused = sent.refused
    <3>1. /\ sent \in SentCounts
          /\ sent' = [sent EXCEPT !.rechal = sent.rechal + 1]
      BY <1>3 DEF PeerRechallenge, TypeOK
    <3> QED
      BY <3>1, SentStep DEF SentCounts
  <2>4. p_chal' \in Nat /\ p_await' \in BOOLEAN
    BY <1>3 DEF PeerRechallenge, TypeOK
  <2> QED
    BY <1>3, <2>2, <2>3, <2>4 DEF PeerRechallenge, TypeOK, TxNotStalled, tx_busy,
                             clientVars, upVars, linkVars, txVars
<1> QED
  BY <1>1, <1>2, <1>3

\* The types and the queue's invariant hold when a context is created.
LEMMA TypeInit == Init => TypeOK /\ TxNotStalled
<1> SUFFICES ASSUME Init PROVE TypeOK /\ TxNotStalled
  OBVIOUS
<1>1. MppeOff \in MppeStates
  BY ConstantsAssumption DEF MppeOff, MppeStates, Keys, NoKey
<1> QED
  BY <1>1, NoneIn DEF Init, TypeOK, TxNotStalled, SentCounts, Marks

\* No step breaks the types or the queue's invariant.
LEMMA TypeStep == TypeOK /\ TxNotStalled /\ [Next]_vars => TypeOK' /\ TxNotStalled'
<1> SUFFICES ASSUME TypeOK, TxNotStalled, [Next]_vars
             PROVE  TypeOK' /\ TxNotStalled'
  OBVIOUS
<1>1. CASE Start \/ ClientReceives \/ SendComplete \/ SendIp
  BY <1>1, ClientStepType
<1>2. CASE \/ PeerOpens \/ PeerReceives \/ PeerCcpRepeat \/ PeerEcho
           \/ PeerTerminate \/ PeerSendIp \/ StreamError
  BY <1>2, PeerStepType
<1>4. CASE SendRefused \/ PeerLcpReopen \/ PeerRechallenge
  BY <1>4, UpsetStepType
<1>3. CASE UNCHANGED vars
  BY <1>3 DEF vars, TypeOK, TxNotStalled, tx_busy, clientVars, upVars, linkVars,
              txVars, peerVars
<1> QED
  BY <1>1, <1>2, <1>3, <1>4 DEF Next

\* The fields of the PPP context keep their types in every behaviour.
THEOREM TypeCorrect == Spec => []TypeOK
<1>1. Init => TypeOK /\ TxNotStalled
  BY TypeInit
<1>2. TypeOK /\ TxNotStalled /\ [Next]_vars => (TypeOK /\ TxNotStalled)'
  BY TypeStep
<1> QED
  BY <1>1, <1>2, PTL DEF Spec

\* ios-pppd.c's transmit queue never loses a wake-up: with a working stream,
\* frames are queued only behind a send whose completion will restart it.
THEOREM NoLostWakeup == Spec => []TxNotStalled
<1>1. Init => TypeOK /\ TxNotStalled
  BY TypeInit
<1>2. TypeOK /\ TxNotStalled /\ [Next]_vars => (TypeOK /\ TxNotStalled)'
  BY TypeStep
<1> QED
  BY <1>1, <1>2, PTL DEF Spec

-----------------------------------------------------------------------------
(* Theorem 2: both ends use the MPPE master keys of the same MS-CHAPv2     *)
(* exchange.  The invariant follows the identifiers: a Response on its way *)
(* never has one above the client's current keys, the Challenges on their  *)
(* way are newer than those keys and arrive in increasing order, so the    *)
(* Response to the latest Challenge is accepted only when the client holds *)
(* exactly its keys and no newer Challenge can replace them.               *)

IsChallenge(f) == f.proto = "CHAP" /\ f.code = "Challenge"
Plain  == {f \in Frames : ~IsChallenge(f)}
OutAt(m) == {f \in Frames : f.proto = "CHAP" => f.val <= m}
InAt(m, c) == {f \in Frames : IsChallenge(f) => f.val > m /\ f.val <= c}
Increasing(s) ==
    \A i, j \in 1 .. Len(s) :
        i < j /\ IsChallenge(s[i]) /\ IsChallenge(s[j]) => s[i].val < s[j].val

ChapInv ==
    failed = "none" =>
        /\ mppe.master <= p_chal
        /\ c2s \in Seq(OutAt(mppe.master)) /\ txq \in Seq(OutAt(mppe.master))
        /\ tx_inflight \in OutAt(mppe.master) \cup {NoItem}
        /\ s2c \in Seq(InAt(mppe.master, p_chal)) /\ Increasing(s2c)
        /\ p_master # 0 /\ ~p_await => p_master = p_chal /\ mppe.master = p_chal

\* A sequence whose elements are all in R is a sequence over R.
LEMMA SeqByElements ==
    ASSUME NEW S, NEW R, NEW s \in Seq(S), \A i \in 1 .. Len(s) : s[i] \in R
    PROVE  s \in Seq(R)
<1>1. SubSeq(s, 1, Len(s)) = s
  BY SubSeqFull
<1>2. 1 \in Int /\ Len(s) \in Int
  BY LenProperties
<1> QED
  BY <1>1, <1>2, SubSeqProperties

\* Receiving a frame keeps the Challenges on the way in their order.
LEMMA IncreasingTail ==
    ASSUME NEW s \in Seq(Frames), s # << >>, Increasing(s)
    PROVE  Increasing(Tail(s))
<1>1. /\ Len(Tail(s)) = Len(s) - 1 /\ Len(s) \in Nat
      /\ \A i \in 1 .. Len(Tail(s)) : Tail(s)[i] = s[i + 1]
  BY HeadTailProperties, LenProperties
<1> SUFFICES ASSUME NEW i \in 1 .. Len(Tail(s)), NEW j \in 1 .. Len(Tail(s)),
                    i < j, IsChallenge(Tail(s)[i]), IsChallenge(Tail(s)[j])
             PROVE  Tail(s)[i].val < Tail(s)[j].val
  BY DEF Increasing
<1>2. i + 1 \in 1 .. Len(s) /\ j + 1 \in 1 .. Len(s) /\ i + 1 < j + 1
  BY <1>1
<1>3. Tail(s)[i] = s[i + 1] /\ Tail(s)[j] = s[j + 1]
  BY <1>1
<1> QED
  BY <1>2, <1>3 DEF Increasing

\* Sending frames that are no Challenges keeps their order too.
LEMMA IncreasingConcat ==
    ASSUME NEW s \in Seq(Frames), NEW fs \in Seq(Plain), Increasing(s)
    PROVE  Increasing(s \o fs)
<1>1. fs \in Seq(Frames)
  BY SeqMonotonic DEF Plain
<1>2. /\ Len(s) \in Nat /\ Len(fs) \in Nat /\ Len(s \o fs) = Len(s) + Len(fs)
      /\ \A i \in 1 .. Len(s) : (s \o fs)[i] = s[i]
      /\ \A i \in 1 .. Len(fs) : (s \o fs)[Len(s) + i] = fs[i]
  BY <1>1, ConcatProperties, LenProperties
<1>3. \A i \in 1 .. Len(fs) : ~IsChallenge(fs[i])
  BY ElementOfSeq DEF Plain
<1>4. \A i \in 1 .. Len(s \o fs) :
         IsChallenge((s \o fs)[i]) => i \in 1 .. Len(s) /\ (s \o fs)[i] = s[i]
  <2> SUFFICES ASSUME NEW i \in 1 .. Len(s \o fs), IsChallenge((s \o fs)[i])
               PROVE  i \in 1 .. Len(s)
    BY <1>2
  <2> SUFFICES ASSUME i \notin 1 .. Len(s) PROVE FALSE
    OBVIOUS
  <2>1. i - Len(s) \in 1 .. Len(fs) /\ i = Len(s) + (i - Len(s))
    BY <1>2
  <2>2. (s \o fs)[i] = fs[i - Len(s)]
    BY <1>2, <2>1
  <2> QED
    BY <1>3, <2>1, <2>2
<1> QED
  BY <1>4 DEF Increasing

\* A step of the client that keeps its keys.
LEMMA ClientKeepsKeys ==
    ASSUME TypeOK, TxNotStalled, ChapInv, failed = "none",
           NEW fs \in Seq(OutAt(mppe.master)),
           Transmit(fs) \/ UNCHANGED <<txq, tx_inflight, c2s>>,
           (s2c # << >> /\ s2c' = Tail(s2c)) \/ s2c' = s2c,
           mppe'.master = mppe.master, p_chal' = p_chal, p_master' = p_master,
           p_await' = p_await
    PROVE  ChapInv'
<1> DEFINE Out == OutAt(mppe.master)
           In  == InAt(mppe.master, p_chal)
<1>1. NoItem \notin Out
  BY NoItemNotFrame DEF OutAt
<1>2. c2s' \in Seq(Out) /\ txq' \in Seq(Out) /\ tx_inflight' \in Out \cup {NoItem}
  <2>1. c2s \in Seq(Out) /\ txq \in Seq(Out) /\ tx_inflight \in Out \cup {NoItem}
    BY DEF ChapInv
  <2>2. CASE Transmit(fs)
    <3> HIDE DEF Out
    <3> QED
      BY <1>1, <2>1, <2>2, TransmitIn DEF Out
  <2> QED
    BY <2>1, <2>2
<1>3. s2c' \in Seq(In) /\ Increasing(s2c')
  <2>1. s2c \in Seq(In) /\ Increasing(s2c) /\ s2c \in Seq(Frames)
    BY DEF ChapInv, TypeOK
  <2>2. s2c # << >> => Tail(s2c) \in Seq(In)
    <3> HIDE DEF In
    <3> QED
      BY <2>1, HeadTailProperties
  <2> QED
    BY <2>1, <2>2, IncreasingTail
<1>4. OutAt(mppe'.master) = Out /\ InAt(mppe'.master, p_chal') = In
  OBVIOUS
<1> QED
  BY <1>2, <1>3, <1>4 DEF ChapInv

\* A step of the server that sends no Challenge and accepts no Response.
LEMMA PeerKeepsKeys ==
    ASSUME TypeOK, ChapInv, failed' = failed, mppe' = mppe,
           UNCHANGED <<txq, tx_inflight>>,
           c2s' = c2s \/ (c2s # << >> /\ c2s' = Tail(c2s)),
           NEW fs \in Seq(Plain), s2c' = s2c \/ s2c' = s2c \o fs,
           p_chal' = p_chal,
           p_master' = 0 \/ (p_master' = p_master /\ p_await' = p_await)
    PROVE  ChapInv'
<1> SUFFICES ASSUME failed = "none" PROVE ChapInv'
  BY DEF ChapInv
<1> DEFINE Out == OutAt(mppe.master)
           In  == InAt(mppe.master, p_chal)
<1>1. c2s' \in Seq(Out)
  <2>1. c2s \in Seq(Out)
    BY DEF ChapInv
  <2> HIDE DEF Out
  <2> QED
    BY <2>1, HeadTailProperties
<1>2. s2c' \in Seq(In) /\ Increasing(s2c')
  <2>1. s2c \in Seq(In) /\ Increasing(s2c) /\ s2c \in Seq(Frames)
    BY DEF ChapInv, TypeOK
  <2>2. Plain \subseteq In
    BY DEF Plain, InAt
  <2>3. s2c \o fs \in Seq(In)
    <3> HIDE DEF In
    <3> QED
      BY <2>1, <2>2, SeqMonotonic, ConcatProperties
  <2>4. Increasing(s2c \o fs)
    BY <2>1, IncreasingConcat
  <2> QED
    BY <2>1, <2>3, <2>4
<1> QED
  BY <1>1, <1>2 DEF ChapInv

\* The frames the client sends, other than a Response.
LEMMA CtlOut ==
    ASSUME NEW p \in Protos \ {"MPPE", "CHAP"}, NEW c \in Codes, NEW v \in Nat,
           NEW m
    PROVE  Ctl(p, c, v) \in OutAt(m)
BY CtlFrame DEF OutAt, Ctl

\* What ccp_finished sends is no Response.
LEMMA CcpFinishedOut ==
    ASSUME TypeOK, NEW m
    PROVE  CcpFinishedFrames \in Seq(OutAt(m))
<1>1. IpcpConfReq(local_ip) \in OutAt(m)
  BY CtlOut DEF IpcpConfReq, TypeOK, Protos, Codes
<1> QED
  BY <1>1, OneIn, NoneIn DEF CcpFinishedFrames

\* Responses stay bounded by the client's exchange when it grows.
LEMMA OutMonotone ==
    ASSUME NEW m \in Nat, NEW v \in Nat, m < v
    PROVE  OutAt(m) \subseteq OutAt(v)
<1> SUFFICES ASSUME NEW f \in OutAt(m) PROVE f \in OutAt(v)
  OBVIOUS
<1>1. f \in Frames /\ (f.proto = "CHAP" => f.val <= m)
  BY DEF OutAt
<1>2. f.val \in Nat
  BY <1>1 DEF Frames
<1>3. f.proto = "CHAP" => f.val <= v
  BY <1>1, <1>2
<1> QED
  BY <1>1, <1>3 DEF OutAt

\* Only a Challenge changes the master keys.
LEMMA MppeMaster ==
    ASSUME NEW x \in MppeStates
    PROVE  /\ mppe_init_keys(x).master = x.master
           /\ MppeAdvance(x).master = x.master
           /\ \A f : MppeCatchUp(x, f).master = x.master
           /\ [x EXCEPT !.enabled = FALSE].master = x.master
BY DEF MppeStates, mppe_init_keys, MppeAdvance, MppeCatchUp

\* Every step of the client preserves ChapInv.
LEMMA ClientStepChap ==
    ASSUME TypeOK, TxNotStalled, ChapInv,
           Start \/ ClientReceives \/ SendComplete \/ SendIp
    PROVE  ChapInv'
<1> USE DEF peerVars
<1> DEFINE Out == OutAt(mppe.master)
<1>0. << >> \in Seq(Out) /\ mppe \in MppeStates
  BY NoneIn DEF TypeOK
<1>1. ASSUME Start PROVE ChapInv'
  <2>1. /\ failed = "none" /\ p_chal' = p_chal /\ p_master' = p_master
        /\ p_await' = p_await
        /\ s2c' = s2c
    BY <1>1 DEF Start
  <2>2. mppe'.master = mppe.master
    BY <1>1, <1>0, MppeMaster DEF Start
  <2>3. <<LcpConfReq>> \in Seq(Out)
    BY <2>1, CtlOut, OneIn, NoneIn DEF Protos, Codes, LcpConfReq, CcpConfReq, IpcpConfReq
  <2>4. Transmit(<<LcpConfReq>>)
    BY <1>1 DEF Start
  <2> QED
    BY <2>1, <2>2, <2>3, <2>4, ClientKeepsKeys
<1>2. ASSUME LcpConfReqRcvd PROVE ChapInv'
  <2>1. /\ failed = "none" /\ p_chal' = p_chal /\ p_master' = p_master
        /\ p_await' = p_await
        /\ s2c # << >> /\ s2c' = Tail(s2c) /\ Head(s2c) \in Frames
        /\ Head(s2c).val \in Nat
    BY <1>2, DispatchType DEF LcpConfReqRcvd, Dispatch
  <2>2. mppe'.master = mppe.master
    BY <1>2, <1>0, MppeMaster DEF LcpConfReqRcvd
  <2>3. <<Ctl("LCP", "ConfAck", 0)>>
               \o (IF lcp_opened THEN << >> ELSE <<LcpConfReq>>) \in Seq(Out)
    BY <2>1, CtlOut, OneIn, NoneIn, ConcatProperties DEF Protos, Codes, LcpConfReq, CcpConfReq, IpcpConfReq
  <2>4. Transmit(<<Ctl("LCP", "ConfAck", 0)>>
               \o (IF lcp_opened THEN << >> ELSE <<LcpConfReq>>))
    BY <1>2 DEF LcpConfReqRcvd
  <2> QED
    BY <2>1, <2>2, <2>3, <2>4, ClientKeepsKeys
<1>3. ASSUME LcpConfAckRcvd PROVE ChapInv'
  <2>1. /\ failed = "none" /\ p_chal' = p_chal /\ p_master' = p_master
        /\ p_await' = p_await
        /\ s2c # << >> /\ s2c' = Tail(s2c) /\ Head(s2c) \in Frames
        /\ Head(s2c).val \in Nat
    BY <1>3, DispatchType DEF LcpConfAckRcvd, Dispatch
  <2>2. mppe'.master = mppe.master
    BY <1>3, <1>0, MppeMaster DEF LcpConfAckRcvd
  <2>3. UNCHANGED <<txq, tx_inflight, c2s>>
    BY <1>3 DEF LcpConfAckRcvd, txVars
  <2> QED
    BY <1>0, <2>1, <2>2, <2>3, ClientKeepsKeys
<1>4. ASSUME LcpConfNakRcvd PROVE ChapInv'
  <2>1. /\ failed = "none" /\ p_chal' = p_chal /\ p_master' = p_master
        /\ p_await' = p_await
        /\ s2c # << >> /\ s2c' = Tail(s2c) /\ Head(s2c) \in Frames
        /\ Head(s2c).val \in Nat
    BY <1>4, DispatchType DEF LcpConfNakRcvd, Dispatch
  <2>2. mppe'.master = mppe.master
    BY <1>4, <1>0, MppeMaster DEF LcpConfNakRcvd
  <2>3. <<LcpConfReq>> \in Seq(Out)
    BY <2>1, CtlOut, OneIn, NoneIn DEF Protos, Codes, LcpConfReq, CcpConfReq, IpcpConfReq
  <2>4. Transmit(<<LcpConfReq>>)
    BY <1>4 DEF LcpConfNakRcvd
  <2> QED
    BY <2>1, <2>2, <2>3, <2>4, ClientKeepsKeys
<1>5. ASSUME LcpTermReqRcvd PROVE ChapInv'
  <2>1. /\ failed = "none" /\ p_chal' = p_chal /\ p_master' = p_master
        /\ p_await' = p_await
        /\ s2c # << >> /\ s2c' = Tail(s2c) /\ Head(s2c) \in Frames
        /\ Head(s2c).val \in Nat
    BY <1>5, DispatchType DEF LcpTermReqRcvd, Dispatch
  <2>2. mppe'.master = mppe.master
    BY <1>5, <1>0, MppeMaster DEF LcpTermReqRcvd
  <2>3. <<Ctl("LCP", "TermAck", 0)>> \in Seq(Out)
    BY <2>1, CtlOut, OneIn, NoneIn DEF Protos, Codes, LcpConfReq, CcpConfReq, IpcpConfReq
  <2>4. Transmit(<<Ctl("LCP", "TermAck", 0)>>)
    BY <1>5 DEF LcpTermReqRcvd
  <2> QED
    BY <2>1, <2>2, <2>3, <2>4, ClientKeepsKeys
<1>6. ASSUME LcpEchoReqRcvd PROVE ChapInv'
  <2>1. /\ failed = "none" /\ p_chal' = p_chal /\ p_master' = p_master
        /\ p_await' = p_await
        /\ s2c # << >> /\ s2c' = Tail(s2c) /\ Head(s2c) \in Frames
        /\ Head(s2c).val \in Nat
    BY <1>6, DispatchType DEF LcpEchoReqRcvd, Dispatch
  <2>2. mppe'.master = mppe.master
    BY <1>6, <1>0, MppeMaster DEF LcpEchoReqRcvd
  <2>3. <<Ctl("LCP", "EchoRep", 0)>> \in Seq(Out)
    BY <2>1, CtlOut, OneIn, NoneIn DEF Protos, Codes, LcpConfReq, CcpConfReq, IpcpConfReq
  <2>4. Transmit(<<Ctl("LCP", "EchoRep", 0)>>)
    BY <1>6 DEF LcpEchoReqRcvd
  <2> QED
    BY <2>1, <2>2, <2>3, <2>4, ClientKeepsKeys
<1>7. ASSUME LcpOtherRcvd PROVE ChapInv'
  <2>1. /\ failed = "none" /\ p_chal' = p_chal /\ p_master' = p_master
        /\ p_await' = p_await
        /\ s2c # << >> /\ s2c' = Tail(s2c) /\ Head(s2c) \in Frames
        /\ Head(s2c).val \in Nat
    BY <1>7, DispatchType DEF LcpOtherRcvd, Dispatch
  <2>2. mppe'.master = mppe.master
    BY <1>7, <1>0, MppeMaster DEF LcpOtherRcvd
  <2>3. UNCHANGED <<txq, tx_inflight, c2s>>
    BY <1>7 DEF LcpOtherRcvd, txVars
  <2> QED
    BY <1>0, <2>1, <2>2, <2>3, ClientKeepsKeys
<1>8. ASSUME ChapSuccessRcvd PROVE ChapInv'
  <2>1. /\ failed = "none" /\ p_chal' = p_chal /\ p_master' = p_master
        /\ p_await' = p_await
        /\ s2c # << >> /\ s2c' = Tail(s2c) /\ Head(s2c) \in Frames
        /\ Head(s2c).val \in Nat
    BY <1>8, DispatchType DEF ChapSuccessRcvd, Dispatch
  <2>2. mppe'.master = mppe.master
    BY <1>8, <1>0, MppeMaster DEF ChapSuccessRcvd
  <2>3. <<CcpConfReq>> \in Seq(Out)
    BY <2>1, CtlOut, OneIn, NoneIn DEF Protos, Codes, LcpConfReq, CcpConfReq, IpcpConfReq
  <2>4. Transmit(<<CcpConfReq>>)
    BY <1>8 DEF ChapSuccessRcvd
  <2> QED
    BY <2>1, <2>2, <2>3, <2>4, ClientKeepsKeys
<1>9. ASSUME ChapFailureRcvd PROVE ChapInv'
  <2>1. /\ failed = "none" /\ p_chal' = p_chal /\ p_master' = p_master
        /\ p_await' = p_await
        /\ s2c # << >> /\ s2c' = Tail(s2c) /\ Head(s2c) \in Frames
        /\ Head(s2c).val \in Nat
    BY <1>9, DispatchType DEF ChapFailureRcvd, Dispatch
  <2>2. mppe'.master = mppe.master
    BY <1>9, <1>0, MppeMaster DEF ChapFailureRcvd
  <2>3. UNCHANGED <<txq, tx_inflight, c2s>>
    BY <1>9 DEF ChapFailureRcvd, txVars
  <2> QED
    BY <1>0, <2>1, <2>2, <2>3, ClientKeepsKeys
<1>10. ASSUME CcpConfReqRcvd PROVE ChapInv'
  <2>1. /\ failed = "none" /\ p_chal' = p_chal /\ p_master' = p_master
        /\ p_await' = p_await
        /\ s2c # << >> /\ s2c' = Tail(s2c) /\ Head(s2c) \in Frames
        /\ Head(s2c).val \in Nat
    BY <1>10, DispatchType DEF CcpConfReqRcvd, Dispatch
  <2>2. mppe'.master = mppe.master
    BY <1>10, <1>0, MppeMaster DEF CcpConfReqRcvd
  <2>3. <<Ctl("CCP", "ConfAck", 0)>> \o CcpFinishedFrames \in Seq(Out)
    BY <2>1, CtlOut, OneIn, NoneIn, ConcatProperties, CcpFinishedOut DEF Protos, Codes, LcpConfReq, CcpConfReq, IpcpConfReq
  <2>4. Transmit(<<Ctl("CCP", "ConfAck", 0)>> \o CcpFinishedFrames)
    BY <1>10 DEF CcpConfReqRcvd
  <2> QED
    BY <2>1, <2>2, <2>3, <2>4, ClientKeepsKeys
<1>11. ASSUME CcpConfAckRcvd PROVE ChapInv'
  <2>1. /\ failed = "none" /\ p_chal' = p_chal /\ p_master' = p_master
        /\ p_await' = p_await
        /\ s2c # << >> /\ s2c' = Tail(s2c) /\ Head(s2c) \in Frames
        /\ Head(s2c).val \in Nat
    BY <1>11, DispatchType DEF CcpConfAckRcvd, Dispatch
  <2>2. mppe'.master = mppe.master
    BY <1>11, <1>0, MppeMaster DEF CcpConfAckRcvd
  <2>3. CcpFinishedFrames \in Seq(Out)
    BY CcpFinishedOut
  <2>4. Transmit(CcpFinishedFrames)
    BY <1>11 DEF CcpConfAckRcvd
  <2> QED
    BY <2>1, <2>2, <2>3, <2>4, ClientKeepsKeys
<1>12. ASSUME CcpConfRejRcvd PROVE ChapInv'
  <2>1. /\ failed = "none" /\ p_chal' = p_chal /\ p_master' = p_master
        /\ p_await' = p_await
        /\ s2c # << >> /\ s2c' = Tail(s2c) /\ Head(s2c) \in Frames
        /\ Head(s2c).val \in Nat
    BY <1>12, DispatchType DEF CcpConfRejRcvd, Dispatch
  <2>2. mppe'.master = mppe.master
    BY <1>12, <1>0, MppeMaster DEF CcpConfRejRcvd
  <2>3. CcpFinishedFrames \in Seq(Out)
    BY CcpFinishedOut
  <2>4. Transmit(CcpFinishedFrames)
    BY <1>12 DEF CcpConfRejRcvd
  <2> QED
    BY <2>1, <2>2, <2>3, <2>4, ClientKeepsKeys
<1>13. ASSUME IpcpConfReqRcvd PROVE ChapInv'
  <2>1. /\ failed = "none" /\ p_chal' = p_chal /\ p_master' = p_master
        /\ p_await' = p_await
        /\ s2c # << >> /\ s2c' = Tail(s2c) /\ Head(s2c) \in Frames
        /\ Head(s2c).val \in Nat
    BY <1>13, DispatchType DEF IpcpConfReqRcvd, Dispatch
  <2>2. mppe'.master = mppe.master
    BY <1>13, <1>0, MppeMaster DEF IpcpConfReqRcvd, IpcpPreamble
  <2>3. CcpFinishedFrames \o <<Ctl("IPCP", "ConfAck", Head(s2c).val)>> \in Seq(Out)
    BY <2>1, CtlOut, OneIn, NoneIn, ConcatProperties, CcpFinishedOut DEF Protos, Codes, LcpConfReq, CcpConfReq, IpcpConfReq
  <2>4. Transmit(CcpFinishedFrames \o <<Ctl("IPCP", "ConfAck", Head(s2c).val)>>)
    BY <1>13 DEF IpcpConfReqRcvd
  <2> QED
    BY <2>1, <2>2, <2>3, <2>4, ClientKeepsKeys
<1>14. ASSUME IpcpConfAckRcvd PROVE ChapInv'
  <2>1. /\ failed = "none" /\ p_chal' = p_chal /\ p_master' = p_master
        /\ p_await' = p_await
        /\ s2c # << >> /\ s2c' = Tail(s2c) /\ Head(s2c) \in Frames
        /\ Head(s2c).val \in Nat
    BY <1>14, DispatchType DEF IpcpConfAckRcvd, Dispatch
  <2>2. mppe'.master = mppe.master
    BY <1>14, <1>0, MppeMaster DEF IpcpConfAckRcvd, IpcpPreamble
  <2>3. CcpFinishedFrames \in Seq(Out)
    BY CcpFinishedOut
  <2>4. Transmit(CcpFinishedFrames)
    BY <1>14 DEF IpcpConfAckRcvd
  <2> QED
    BY <2>1, <2>2, <2>3, <2>4, ClientKeepsKeys
<1>15. ASSUME IpcpConfNakRcvd PROVE ChapInv'
  <2>1. /\ failed = "none" /\ p_chal' = p_chal /\ p_master' = p_master
        /\ p_await' = p_await
        /\ s2c # << >> /\ s2c' = Tail(s2c) /\ Head(s2c) \in Frames
        /\ Head(s2c).val \in Nat
    BY <1>15, DispatchType DEF IpcpConfNakRcvd, Dispatch
  <2>2. mppe'.master = mppe.master
    BY <1>15, <1>0, MppeMaster DEF IpcpConfNakRcvd, IpcpPreamble
  <2>3. CcpFinishedFrames \o <<IpcpConfReq(Head(s2c).val)>> \in Seq(Out)
    BY <2>1, CtlOut, OneIn, NoneIn, ConcatProperties, CcpFinishedOut DEF Protos, Codes, LcpConfReq, CcpConfReq, IpcpConfReq
  <2>4. Transmit(CcpFinishedFrames \o <<IpcpConfReq(Head(s2c).val)>>)
    BY <1>15 DEF IpcpConfNakRcvd
  <2> QED
    BY <2>1, <2>2, <2>3, <2>4, ClientKeepsKeys
<1>16. ASSUME IpcpOtherRcvd PROVE ChapInv'
  <2>1. /\ failed = "none" /\ p_chal' = p_chal /\ p_master' = p_master
        /\ p_await' = p_await
        /\ s2c # << >> /\ s2c' = Tail(s2c) /\ Head(s2c) \in Frames
        /\ Head(s2c).val \in Nat
    BY <1>16, DispatchType DEF IpcpOtherRcvd, Dispatch
  <2>2. mppe'.master = mppe.master
    BY <1>16, <1>0, MppeMaster DEF IpcpOtherRcvd, IpcpPreamble
  <2>3. CcpFinishedFrames \in Seq(Out)
    BY CcpFinishedOut
  <2>4. Transmit(CcpFinishedFrames)
    BY <1>16 DEF IpcpOtherRcvd
  <2> QED
    BY <2>1, <2>2, <2>3, <2>4, ClientKeepsKeys
<1>17. ASSUME MppeRcvd PROVE ChapInv'
  <2>1. /\ failed = "none" /\ p_chal' = p_chal /\ p_master' = p_master
        /\ p_await' = p_await
        /\ s2c # << >> /\ s2c' = Tail(s2c) /\ Head(s2c) \in Frames
        /\ Head(s2c).val \in Nat
    BY <1>17, DispatchType DEF MppeRcvd, Dispatch
  <2>2. mppe'.master = mppe.master
    BY <1>17, <1>0, MppeMaster DEF MppeRcvd
  <2>3. UNCHANGED <<txq, tx_inflight, c2s>>
    BY <1>17 DEF MppeRcvd, txVars
  <2> QED
    BY <1>0, <2>1, <2>2, <2>3, ClientKeepsKeys
<1>18. ASSUME IpRcvd PROVE ChapInv'
  <2>1. /\ failed = "none" /\ p_chal' = p_chal /\ p_master' = p_master
        /\ p_await' = p_await
        /\ s2c # << >> /\ s2c' = Tail(s2c) /\ Head(s2c) \in Frames
        /\ Head(s2c).val \in Nat
    BY <1>18, DispatchType DEF IpRcvd, Dispatch
  <2>2. mppe'.master = mppe.master
    BY <1>18, <1>0, MppeMaster DEF IpRcvd
  <2>3. UNCHANGED <<txq, tx_inflight, c2s>>
    BY <1>18 DEF IpRcvd, txVars
  <2> QED
    BY <1>0, <2>1, <2>2, <2>3, ClientKeepsKeys
<1>19. ASSUME SendComplete PROVE ChapInv'
  <2>1. /\ failed = "none" /\ tx_inflight # NoItem
        /\ UNCHANGED <<failed, mppe, p_chal, p_master, p_await, s2c>>
    BY <1>19 DEF SendComplete, tx_busy, clientVars
  <2>2. /\ c2s \in Seq(Out) /\ txq \in Seq(Out) /\ tx_inflight \in Out
        /\ NoItem \notin Out
    BY <2>1, NoItemNotFrame DEF ChapInv, OutAt
  <2>3. Flush(Append(c2s, tx_inflight), txq, 1)
    BY <1>19 DEF SendComplete
  <2>4. c2s' \in Seq(Out) /\ txq' \in Seq(Out) /\ tx_inflight' \in Out \cup {NoItem}
    <3> HIDE DEF Out
    <3>1. Append(c2s, tx_inflight) \in Seq(Out)
      BY <2>2, AppendProperties
    <3> QED
      BY <2>2, <2>3, <3>1, FlushIn
  <2> QED
    BY <2>1, <2>4 DEF ChapInv
<1>20. ASSUME SendIp PROVE ChapInv'
  <2>1. /\ failed = "none" /\ p_chal' = p_chal /\ p_master' = p_master
        /\ p_await' = p_await
        /\ s2c' = s2c
    BY <1>20 DEF SendIp
  <2>2. mppe'.master = mppe.master /\ mppe' \in MppeStates
    BY <1>20, <1>0, MppeMaster, MppeTypes DEF SendIp
  <2>3. MppeFrame(mppe') \in Out /\ IpFrame \in Out
    BY <2>2, MppeTypes, CtlOut DEF OutAt, MppeFrame, IpFrame, Protos, Codes
  <2>4. \E f \in Out : Transmit(<<f>>)
    BY <1>20, <2>3 DEF SendIp
  <2> QED
    BY <2>1, <2>2, <2>4, OneIn, ClientKeepsKeys
<1>21. ASSUME ChapChallengeRcvd PROVE ChapInv'
  <2> DEFINE v == Head(s2c).val
  <2>1. /\ failed = "none" /\ s2c # << >> /\ s2c' = Tail(s2c)
        /\ p_chal' = p_chal /\ p_master' = p_master
        /\ p_await' = p_await
        /\ stream_ok' = stream_ok
        /\ Head(s2c) \in Frames /\ v \in Nat /\ IsChallenge(Head(s2c))
    BY <1>21, DispatchType DEF ChapChallengeRcvd, Dispatch, IsChallenge
  <2> SUFFICES ASSUME failed' = "none" PROVE ChapInv'
    BY DEF ChapInv
  <2>2. mppe' = [mppe EXCEPT !.master = v]
    BY <1>21 DEF ChapChallengeRcvd, sstp_pppd_set_mppe_keys
  <2>3. mppe'.master = v
    BY <1>0, <2>2 DEF MppeStates
  <2>4. /\ s2c \in Seq(InAt(mppe.master, p_chal)) /\ Increasing(s2c)
        /\ s2c \in Seq(Frames)
    BY <2>1 DEF ChapInv, TypeOK
  <2>5. /\ Head(s2c) = s2c[1] /\ 1 \in 1 .. Len(s2c)
        /\ s2c[1] \in InAt(mppe.master, p_chal)
    BY <2>1, <2>4, ElementOfSeq, HeadTailProperties
  <2>6. mppe.master < v /\ v <= p_chal /\ mppe.master \in Nat
    BY <2>1, <2>5, <1>0 DEF InAt, MppeStates
  <2>7. /\ c2s' \in Seq(OutAt(v)) /\ txq' \in Seq(OutAt(v))
        /\ tx_inflight' \in OutAt(v) \cup {NoItem}
    <3>1. OutAt(mppe.master) \subseteq OutAt(v)
      BY <2>1, <2>6, OutMonotone
    <3>2. /\ c2s \in Seq(OutAt(v)) /\ txq \in Seq(OutAt(v))
          /\ tx_inflight \in OutAt(v) \cup {NoItem}
      BY <2>1, <3>1, SeqMonotonic DEF ChapInv
    <3>3. Ctl("CHAP", "Response", v) \in OutAt(v)
      <4>1. Ctl("CHAP", "Response", v) \in Frames
        BY <2>1, CtlFrame DEF Protos, Codes
      <4> QED
        BY <2>1, <4>1 DEF OutAt, Ctl
    <3>4. Transmit(<<Ctl("CHAP", "Response", v)>>) /\ NoItem \notin OutAt(v)
      BY <1>21, NoItemNotFrame DEF ChapChallengeRcvd, OutAt
    <3>5. <<Ctl("CHAP", "Response", v)>> \in Seq(OutAt(v))
      BY <3>3, OneIn
    <3> QED
      BY <3>2, <3>4, <3>5, TransmitIn
  <2>8. s2c' \in Seq(InAt(v, p_chal)) /\ Increasing(s2c')
    <3>1. /\ Tail(s2c) \in Seq(Frames) /\ Len(Tail(s2c)) = Len(s2c) - 1
          /\ \A i \in 1 .. Len(Tail(s2c)) : Tail(s2c)[i] = s2c[i + 1]
          /\ Len(s2c) \in Nat
      BY <2>1, <2>4, HeadTailProperties, LenProperties
    <3>2. ASSUME NEW i \in 1 .. Len(Tail(s2c))
          PROVE  Tail(s2c)[i] \in InAt(v, p_chal)
      <4>1. i + 1 \in 1 .. Len(s2c) /\ Tail(s2c)[i] = s2c[i + 1] /\ 1 < i + 1
        BY <3>1
      <4>2. s2c[i + 1] \in InAt(mppe.master, p_chal)
        BY <2>4, <4>1, ElementOfSeq
      <4>3. IsChallenge(s2c[i + 1]) => v < s2c[i + 1].val
        BY <2>1, <2>4, <2>5, <4>1 DEF Increasing
      <4> QED
        BY <4>1, <4>2, <4>3, <2>1 DEF InAt, Frames
    <3>3. Tail(s2c) \in Seq(InAt(v, p_chal))
      BY <3>1, <3>2, SeqByElements
    <3> QED
      BY <2>1, <2>4, <3>3, IncreasingTail
  <2>9. p_master = 0 \/ p_await
    BY <2>1, <2>6 DEF ChapInv, TypeOK
  <2> QED
    BY <2>1, <2>3, <2>6, <2>7, <2>8, <2>9 DEF ChapInv
<1> QED
  BY <1>1, <1>2, <1>3, <1>4, <1>5, <1>6, <1>7, <1>8, <1>9, <1>10, <1>11, <1>12, <1>13, <1>14, <1>15, <1>16, <1>17, <1>18, <1>19, <1>20, <1>21 DEF ClientReceives

\* Challenges stay bounded by the server's exchange when it grows.
LEMMA InMonotone ==
    ASSUME NEW m \in Nat, NEW c \in Nat
    PROVE  InAt(m, c) \subseteq InAt(m, c + 1)
<1> SUFFICES ASSUME NEW f \in InAt(m, c) PROVE f \in InAt(m, c + 1)
  OBVIOUS
<1>1. f \in Frames /\ (IsChallenge(f) => f.val > m /\ f.val <= c)
  BY DEF InAt
<1>2. f.val \in Nat
  BY <1>1 DEF Frames
<1>3. IsChallenge(f) => f.val > m /\ f.val <= c + 1
  BY <1>1, <1>2
<1> QED
  BY <1>1, <1>3 DEF InAt

\* The server's frames other than Challenges.
LEMMA PlainFrames ==
    /\ LcpConfReq \in Plain /\ CcpConfReq \in Plain /\ IpFrame \in Plain
    /\ IpcpConfReq(PeerAddr) \in Plain
    /\ \A c \in Codes : /\ Ctl("LCP", c, 0) \in Plain
                        /\ Ctl("CCP", c, 0) \in Plain
                        /\ Ctl("IPCP", c, 0) \in Plain
                        /\ Ctl("IPCP", c, Assigned) \in Plain
    /\ Ctl("CHAP", "Success", 0) \in Plain
    /\ Ctl("CHAP", "Failure", 0) \in Plain
    /\ \A x \in MppeStates : MppeFrame(x) \in Plain
<1>1. \A p, c, v : /\ Ctl(p, c, v).proto = p /\ Ctl(p, c, v).code = c
  BY DEF Ctl
<1>2. /\ LcpConfReq \in Plain /\ CcpConfReq \in Plain /\ IpFrame \in Plain
      /\ IpcpConfReq(PeerAddr) \in Plain
  BY PeerFrames, <1>1
  DEF Plain, IsChallenge, LcpConfReq, CcpConfReq, IpFrame, IpcpConfReq
<1>3. \A c \in Codes : /\ Ctl("LCP", c, 0) \in Plain
                       /\ Ctl("CCP", c, 0) \in Plain
                       /\ Ctl("IPCP", c, 0) \in Plain
                       /\ Ctl("IPCP", c, Assigned) \in Plain
  BY PeerFrames, <1>1 DEF Plain, IsChallenge
<1>4. Ctl("CHAP", "Success", 0) \in Plain /\ Ctl("CHAP", "Failure", 0) \in Plain
  BY PeerFrames, <1>1 DEF Plain, IsChallenge, Codes
<1>5. \A x \in MppeStates : MppeFrame(x) \in Plain
  BY MppeTypes DEF Plain, IsChallenge, MppeFrame
<1> QED
  BY <1>2, <1>3, <1>4, <1>5

\* A request, unless already sent, and an answer.
LEMMA PlainAnswer ==
    ASSUME NEW x \in Plain, NEW y \in Plain, NEW b \in BOOLEAN,
           NEW s \in Seq(Frames)
    PROVE  /\ (IF b THEN << >> ELSE <<x>>) \o <<y>> \in Seq(Plain)
           /\ s \o (IF b THEN << >> ELSE <<x>>) \o <<y>>
                = s \o ((IF b THEN << >> ELSE <<x>>) \o <<y>>)
           /\ Append(s, y) = s \o <<y>> /\ <<y>> \in Seq(Plain)
<1>1. /\ (IF b THEN << >> ELSE <<x>>) \in Seq(Plain) /\ <<y>> \in Seq(Plain)
  BY OneIn, NoneIn
<1>2. /\ (IF b THEN << >> ELSE <<x>>) \in Seq(Frames) /\ <<y>> \in Seq(Frames)
      /\ y \in Frames
  BY <1>1, SeqMonotonic DEF Plain
<1>3. (IF b THEN << >> ELSE <<x>>) \o <<y>> \in Seq(Plain)
  BY <1>1, ConcatProperties
<1>4. s \o (IF b THEN << >> ELSE <<x>>) \o <<y>>
        = s \o ((IF b THEN << >> ELSE <<x>>) \o <<y>>)
  <2> DEFINE t == IF b THEN << >> ELSE <<x>>
  <2> HIDE DEF t
  <2>1. t \in Seq(Frames)
    BY <1>2 DEF t
  <2>2. s \o t \o <<y>> = s \o (t \o <<y>>)
    BY <1>2, <2>1, ConcatAssociative
  <2> QED
    BY <2>2 DEF t
<1>5. Append(s, y) = s \o <<y>>
  BY <1>2, AppendIsConcat
<1> QED
  BY <1>1, <1>3, <1>4, <1>5

\* Every step of the server, and a broken stream, preserve ChapInv.
LEMMA PeerStepChap ==
    ASSUME TypeOK, ChapInv,
           \/ PeerOpens \/ PeerReceives \/ PeerCcpRepeat \/ PeerEcho
           \/ PeerTerminate \/ PeerSendIp \/ StreamError
           \/ SendRefused \/ PeerLcpReopen \/ PeerRechallenge
    PROVE  ChapInv'
<1> DEFINE Quiet == /\ failed' = failed /\ mppe' = mppe
                    /\ UNCHANGED <<txq, tx_inflight>>
                    /\ c2s' = c2s \/ (c2s # << >> /\ c2s' = Tail(c2s))
                    /\ p_chal' = p_chal
                    /\ \/ p_master' = 0
                       \/ p_master' = p_master /\ p_await' = p_await
<1>a. s2c \in Seq(Frames)
  BY DEF TypeOK
<1>b. ASSUME NEW f \in Plain, Quiet, s2c' = s2c \o <<f>> PROVE ChapInv'
  BY <1>b, OneIn, PeerKeepsKeys
<1>c. ASSUME Quiet, s2c' = s2c PROVE ChapInv'
  BY <1>c, NoneIn, PeerKeepsKeys
<1>1. ASSUME PeerLcpOpen PROVE ChapInv'
  <2>1. Quiet /\ s2c' = s2c \o <<LcpConfReq>>
    BY <1>1 DEF PeerLcpOpen, PeerSends, clientVars, txVars, peerVars
  <2> QED
    BY <1>b, <2>1, PlainFrames DEF Codes
<1>2. ASSUME PeerCcpOpen PROVE ChapInv'
  <2>1. Quiet /\ s2c' = s2c \o <<CcpConfReq>>
    BY <1>2 DEF PeerCcpOpen, PeerSends, clientVars, txVars, peerVars
  <2> QED
    BY <1>b, <2>1, PlainFrames DEF Codes
<1>3. ASSUME PeerIpcpOpen PROVE ChapInv'
  <2>1. Quiet /\ s2c' = s2c \o <<IpcpConfReq(PeerAddr)>>
    BY <1>3 DEF PeerIpcpOpen, PeerSends, clientVars, txVars, peerVars
  <2> QED
    BY <1>b, <2>1, PlainFrames DEF Codes
<1>4. ASSUME PeerCcpRepeat PROVE ChapInv'
  <2>1. Quiet /\ s2c' = s2c \o <<CcpConfReq>>
    BY <1>4 DEF PeerCcpRepeat, PeerSends, clientVars, txVars, peerVars
  <2> QED
    BY <1>b, <2>1, PlainFrames DEF Codes
<1>5. ASSUME PeerEcho PROVE ChapInv'
  <2>1. Quiet /\ s2c' = s2c \o <<Ctl("LCP", "EchoReq", 0)>>
    BY <1>5 DEF PeerEcho, PeerSends, clientVars, txVars, peerVars
  <2> QED
    BY <1>b, <2>1, PlainFrames DEF Codes
<1>6. ASSUME PeerTerminate PROVE ChapInv'
  <2>1. Quiet /\ s2c' = s2c \o <<Ctl("LCP", "TermReq", 0)>>
    BY <1>6 DEF PeerTerminate, PeerSends, clientVars, txVars, peerVars
  <2> QED
    BY <1>b, <2>1, PlainFrames DEF Codes
<1>7. ASSUME PeerSendIp PROVE ChapInv'
  <2>1. Quiet
    BY <1>7 DEF PeerSendIp, clientVars, txVars
  <2>2. p_mppe' \in MppeStates
    BY <1>7, MppeTypes DEF PeerSendIp, TypeOK
  <2>3. \/ s2c' = s2c \o <<MppeFrame(p_mppe')>> \/ s2c' = s2c \o <<IpFrame>>
    BY <1>7 DEF PeerSendIp, PeerSends
  <2> QED
    BY <1>b, <2>1, <2>2, <2>3, PlainFrames
<1>8. ASSUME PeerLcpConfReq PROVE ChapInv'
  <2>1. Quiet
    BY <1>8 DEF PeerLcpConfReq, PeerTakes, clientVars
  <2>2. PICK c \in {"ConfNak", "ConfAck"}, b \in BOOLEAN :
          s2c' = s2c \o (IF b THEN << >> ELSE <<LcpConfReq>>)
                     \o <<Ctl("LCP", c, 0)>>
    BY <1>8 DEF PeerLcpConfReq
  <2>3. LcpConfReq \in Plain /\ Ctl("LCP", c, 0) \in Plain
    BY PlainFrames DEF Codes
  <2>4. /\ (IF b THEN << >> ELSE <<LcpConfReq>>) \o <<Ctl("LCP", c, 0)>>
             \in Seq(Plain)
        /\ s2c' = s2c \o ((IF b THEN << >> ELSE <<LcpConfReq>>)
                          \o <<Ctl("LCP", c, 0)>>)
    BY <1>a, <2>2, <2>3, PlainAnswer
  <2> QED
    BY <2>1, <2>4, PeerKeepsKeys
<1>9. ASSUME PeerLcpOther PROVE ChapInv'
  BY <1>9, <1>c DEF PeerLcpOther, PeerTakes, clientVars
<1>10. ASSUME PeerCcp PROVE ChapInv'
  <2>1. Quiet
    BY <1>10 DEF PeerCcp, PeerTakes, clientVars
  <2>2. \/ s2c' = s2c
        \/ \E c \in {"ConfAck", "ConfNak"}, b \in BOOLEAN :
             s2c' = s2c \o (IF b THEN << >> ELSE <<CcpConfReq>>)
                        \o <<Ctl("CCP", c, 0)>>
        \/ s2c' = Append(s2c, Ctl("CCP", "ConfRej", 0))
        \/ s2c' = Append(s2c, Ctl("LCP", "ProtRej", 0))
    BY <1>10 DEF PeerCcp
  <2>3. CASE \E c \in {"ConfAck", "ConfNak"}, b \in BOOLEAN :
               s2c' = s2c \o (IF b THEN << >> ELSE <<CcpConfReq>>)
                          \o <<Ctl("CCP", c, 0)>>
    <3>1. PICK c \in {"ConfAck", "ConfNak"}, b \in BOOLEAN :
            s2c' = s2c \o (IF b THEN << >> ELSE <<CcpConfReq>>)
                       \o <<Ctl("CCP", c, 0)>>
      BY <2>3
    <3>2. CcpConfReq \in Plain /\ Ctl("CCP", c, 0) \in Plain
      BY PlainFrames DEF Codes
    <3>3. /\ (IF b THEN << >> ELSE <<CcpConfReq>>) \o <<Ctl("CCP", c, 0)>>
               \in Seq(Plain)
          /\ s2c' = s2c \o ((IF b THEN << >> ELSE <<CcpConfReq>>)
                            \o <<Ctl("CCP", c, 0)>>)
      BY <1>a, <3>1, <3>2, PlainAnswer
    <3> QED
      BY <2>1, <3>3, PeerKeepsKeys
  <2>4. /\ Ctl("CCP", "ConfRej", 0) \in Plain /\ Ctl("LCP", "ProtRej", 0) \in Plain
        /\ Ctl("CCP", "ConfRej", 0) \in Frames
        /\ Ctl("LCP", "ProtRej", 0) \in Frames
    BY PlainFrames DEF Codes, Plain
  <2>5. /\ Append(s2c, Ctl("CCP", "ConfRej", 0))
             = s2c \o <<Ctl("CCP", "ConfRej", 0)>>
        /\ Append(s2c, Ctl("LCP", "ProtRej", 0))
             = s2c \o <<Ctl("LCP", "ProtRej", 0)>>
    BY <1>a, <2>4, AppendIsConcat
  <2> QED
    BY <1>b, <1>c, <2>1, <2>2, <2>3, <2>4, <2>5
<1>11. ASSUME PeerIpcp PROVE ChapInv'
  <2>1. Quiet
    BY <1>11 DEF PeerIpcp, PeerTakes, clientVars
  <2>2. \/ s2c' = s2c
        \/ \E c \in {"ConfAck", "ConfNak", "ConfRej"}, b \in BOOLEAN,
              v \in {0, Assigned} :
             s2c' = s2c \o (IF b THEN << >> ELSE <<IpcpConfReq(PeerAddr)>>)
                        \o <<Ctl("IPCP", c, v)>>
    BY <1>11 DEF PeerIpcp
  <2>3. CASE s2c' # s2c
    <3>1. PICK c \in {"ConfAck", "ConfNak", "ConfRej"}, b \in BOOLEAN,
               v \in {0, Assigned} :
            s2c' = s2c \o (IF b THEN << >> ELSE <<IpcpConfReq(PeerAddr)>>)
                       \o <<Ctl("IPCP", c, v)>>
      BY <2>2, <2>3
    <3>2. IpcpConfReq(PeerAddr) \in Plain /\ Ctl("IPCP", c, v) \in Plain
      BY PlainFrames DEF Codes
    <3>3. /\ (IF b THEN << >> ELSE <<IpcpConfReq(PeerAddr)>>)
               \o <<Ctl("IPCP", c, v)>> \in Seq(Plain)
          /\ s2c' = s2c \o ((IF b THEN << >> ELSE <<IpcpConfReq(PeerAddr)>>)
                            \o <<Ctl("IPCP", c, v)>>)
      BY <1>a, <3>1, <3>2, PlainAnswer
    <3> QED
      BY <2>1, <3>3, PeerKeepsKeys
  <2> QED
    BY <1>c, <2>1, <2>3
<1>12. ASSUME PeerData PROVE ChapInv'
  BY <1>12, <1>c DEF PeerData, PeerTakes, clientVars
<1>13. ASSUME StreamError PROVE ChapInv'
  BY <1>13, NoneIn DEF StreamError, ChapInv, Increasing, clientVars, peerVars
<1>14. ASSUME PeerChallenge \/ PeerRechallenge PROVE ChapInv'
  <2> DEFINE f == Ctl("CHAP", "Challenge", p_chal + 1)
             In == InAt(mppe.master, p_chal + 1)
  <2> SUFFICES ASSUME failed' = "none" PROVE ChapInv'
    BY DEF ChapInv
  <2>1. /\ failed = "none" /\ mppe' = mppe /\ (p_master' = 0 \/ p_await')
        /\ UNCHANGED <<txq, tx_inflight, c2s>> /\ p_chal' = p_chal + 1
        /\ s2c' = s2c \o <<f>> /\ p_chal \in Nat /\ mppe.master \in Nat
        /\ mppe.master <= p_chal
    BY <1>14 DEF PeerChallenge, PeerRechallenge, PeerSends, clientVars, txVars, TypeOK,
                 MppeStates, ChapInv
  <2>2. f \in Frames /\ f.val = p_chal + 1
    BY <2>1, CtlFrame DEF Ctl, Protos, Codes
  <2>3. f \in In
    BY <2>1, <2>2 DEF InAt
  <2>4. InAt(mppe.master, p_chal) \subseteq In
    BY <2>1, InMonotone
  <2>5. s2c \in Seq(InAt(mppe.master, p_chal)) /\ Increasing(s2c)
    BY <2>1 DEF ChapInv
  <2>6. s2c' \in Seq(In)
    <3> HIDE DEF In, f
    <3> QED
      BY <2>1, <2>3, <2>4, <2>5, SeqMonotonic, OneIn, ConcatProperties
  <2>7. Increasing(s2c')
    <3>1. s2c' = Append(s2c, f)
      BY <1>a, <2>1, <2>2, AppendIsConcat
    <3>2. /\ Len(s2c) \in Nat /\ Len(s2c') = Len(s2c) + 1
          /\ \A i \in 1 .. Len(s2c) : s2c'[i] = s2c[i]
          /\ s2c'[Len(s2c) + 1] = f
      BY <1>a, <2>2, <3>1, AppendProperties, LenProperties
    <3> SUFFICES ASSUME NEW i \in 1 .. Len(s2c'), NEW j \in 1 .. Len(s2c'), i < j,
                        IsChallenge(s2c'[i]), IsChallenge(s2c'[j])
                 PROVE  s2c'[i].val < s2c'[j].val
      BY DEF Increasing
    <3>3. i \in 1 .. Len(s2c) /\ s2c'[i] = s2c[i]
      BY <3>2
    <3>4. s2c[i] \in InAt(mppe.master, p_chal)
      BY <2>5, <3>3, ElementOfSeq
    <3>5. s2c[i].val <= p_chal /\ s2c[i].val \in Nat
      BY <3>3, <3>4 DEF InAt, Frames
    <3>6. CASE j \in 1 .. Len(s2c)
      BY <2>5, <3>2, <3>3, <3>6 DEF Increasing
    <3>7. CASE j = Len(s2c) + 1
      BY <2>1, <2>2, <3>2, <3>3, <3>5, <3>7
    <3> QED
      BY <3>2, <3>6, <3>7
  <2>8. /\ c2s \in Seq(OutAt(mppe.master)) /\ txq \in Seq(OutAt(mppe.master))
        /\ tx_inflight \in OutAt(mppe.master) \cup {NoItem}
    BY <2>1 DEF ChapInv
  <2> QED
    BY <2>1, <2>6, <2>7, <2>8 DEF ChapInv
<1>15. ASSUME PeerChap PROVE ChapInv'
  <2>1. /\ failed' = failed /\ mppe' = mppe /\ UNCHANGED <<txq, tx_inflight>>
        /\ c2s # << >> /\ c2s' = Tail(c2s) /\ p_chal' = p_chal
        /\ Head(c2s).proto = "CHAP"
    BY <1>15 DEF PeerChap, PeerTakes, clientVars
  <2>2. CASE s2c' = s2c /\ p_master' = p_master /\ p_await' = p_await
    BY <1>c, <2>1, <2>2
  <2>3. CASE s2c' = Append(s2c, Ctl("CHAP", "Failure", 0)) /\ p_master' = 0
    <3>1. /\ Ctl("CHAP", "Failure", 0) \in Plain
          /\ Ctl("CHAP", "Failure", 0) \in Frames
      BY PlainFrames DEF Plain
    <3>2. s2c' = s2c \o <<Ctl("CHAP", "Failure", 0)>>
      BY <1>a, <2>3, <3>1, AppendIsConcat
    <3> QED
      BY <1>b, <2>1, <2>3, <3>1, <3>2
  <2>4. CASE /\ Head(c2s).val = p_chal /\ p_master' = p_chal
             /\ s2c' = Append(s2c, Ctl("CHAP", "Success", 0))
    <3> SUFFICES ASSUME failed = "none" PROVE ChapInv'
      BY <2>1 DEF ChapInv
    <3>2. /\ c2s \in Seq(OutAt(mppe.master))
          /\ s2c \in Seq(InAt(mppe.master, p_chal)) /\ Increasing(s2c)
          /\ mppe.master <= p_chal
          /\ mppe.master \in Nat /\ p_chal \in Nat
      BY DEF ChapInv, TypeOK, MppeStates
    <3>3. /\ Head(c2s) \in OutAt(mppe.master)
          /\ c2s' \in Seq(OutAt(mppe.master))
      BY <2>1, <3>2, HeadTailProperties
    <3>4. mppe.master = p_chal
      BY <2>1, <2>4, <3>2, <3>3 DEF OutAt
    <3>5. /\ Ctl("CHAP", "Success", 0) \in Plain
          /\ Ctl("CHAP", "Success", 0) \in Frames
      BY PlainFrames DEF Plain
    <3>6. s2c' = s2c \o <<Ctl("CHAP", "Success", 0)>>
      BY <1>a, <2>4, <3>5, AppendIsConcat
    <3>7. Increasing(s2c')
      BY <1>a, <3>2, <3>5, <3>6, OneIn, IncreasingConcat
    <3>8. s2c' \in Seq(InAt(mppe.master, p_chal))
      <4>1. Ctl("CHAP", "Success", 0) \in InAt(mppe.master, p_chal)
        BY <3>5 DEF Plain, InAt
      <4> QED
        BY <2>4, <3>2, <4>1, AppendProperties
    <3> QED
      BY <2>1, <2>4, <3>2, <3>3, <3>4, <3>7, <3>8 DEF ChapInv
  <2> QED
    BY <1>15, <2>2, <2>3, <2>4 DEF PeerChap
<1>16. ASSUME PeerLcpReopen PROVE ChapInv'
  <2>1. Quiet /\ s2c' = s2c \o <<LcpConfReq>>
    BY <1>16 DEF PeerLcpReopen, PeerSends, clientVars, txVars, peerVars
  <2> QED
    BY <1>b, <2>1, PlainFrames DEF Codes
<1>17. ASSUME SendRefused PROVE ChapInv'
  <2> SUFFICES ASSUME failed' = "none" PROVE ChapInv'
    BY DEF ChapInv
  <2>1. /\ failed = "none"
        /\ UNCHANGED <<mppe, c2s, s2c, p_chal, p_master, p_await>>
        /\ txq' = SubSeq(txq, 2, Len(txq)) /\ tx_inflight' = NoItem
    BY <1>17 DEF SendRefused, Refused, clientVars, peerVars
  <2>2. txq' \in Seq(OutAt(mppe.master))
    <3>1. txq \in Seq(OutAt(mppe.master))
      BY <2>1 DEF ChapInv
    <3>2. \A i \in 2 .. Len(txq) : txq[i] \in OutAt(mppe.master)
      BY <3>1, ElementOfSeq
    <3> QED
      BY <2>1, <3>2, SubSeqProperties
  <2> QED
    BY <2>1, <2>2 DEF ChapInv
<1> QED
  BY <1>1, <1>2, <1>3, <1>4, <1>5, <1>6, <1>7, <1>8, <1>9, <1>10, <1>11, <1>12,
     <1>13, <1>14, <1>15, <1>16, <1>17 DEF PeerOpens, PeerReceives

\* No step breaks ChapInv.
LEMMA ChapStep == TypeOK /\ TxNotStalled /\ ChapInv /\ [Next]_vars => ChapInv'
<1> SUFFICES ASSUME TypeOK, TxNotStalled, ChapInv, [Next]_vars PROVE ChapInv'
  OBVIOUS
<1>1. CASE Start \/ ClientReceives \/ SendComplete \/ SendIp
  BY <1>1, ClientStepChap
<1>2. CASE \/ PeerOpens \/ PeerReceives \/ PeerCcpRepeat \/ PeerEcho
           \/ PeerTerminate \/ PeerSendIp \/ StreamError
           \/ SendRefused \/ PeerLcpReopen \/ PeerRechallenge
  BY <1>2, PeerStepChap
<1>3. CASE UNCHANGED vars
  BY <1>3 DEF vars, ChapInv, clientVars, txVars, peerVars
<1> QED
  BY <1>1, <1>2, <1>3 DEF Next

\* ChapInv holds when a context is created.
LEMMA ChapInit == Init => ChapInv
BY NoneIn DEF Init, ChapInv, Increasing, MppeOff

\* However often the server repeats its Challenge or restarts authentication
\* by renegotiating LCP, the keys ios_pppd_cb derived last are the keys of the
\* exchange the server accepted.
THEOREM MasterKeysAgree == Spec => []KeysAgree
<1>1. Init => TypeOK /\ TxNotStalled /\ ChapInv
  BY TypeInit, ChapInit
<1>2. TypeOK /\ TxNotStalled /\ ChapInv /\ [Next]_vars
        => (TypeOK /\ TxNotStalled /\ ChapInv)'
  BY TypeStep, ChapStep
<1>3. ChapInv => KeysAgree
  BY DEF ChapInv, KeysAgree
<1> QED
  BY <1>1, <1>2, <1>3, PTL DEF Spec

-----------------------------------------------------------------------------
(* The order of frames in a sequence.                                      *)

\* A frame of A is in s.
Has(s, A) == \E i \in 1 .. Len(s) : s[i] \in A
\* No frame of B comes after one of A.
NoneAfter(s, A, B) ==
    \A i, j \in 1 .. Len(s) : i < j /\ s[i] \in A => s[j] \notin B
\* Every frame of B comes after one of A.
Guarded(s, A, B) ==
    \A j \in 1 .. Len(s) :
        s[j] \in B => \E i \in 1 .. Len(s) : i < j /\ s[i] \in A

\* The kinds of frames the argument tells apart.
Kind(p, cs) == {f \in Frames : f.proto = p /\ f.code \in cs}
Reqs   == Kind("LCP", {"ConfReq"})
Acks   == Kind("LCP", {"ConfAck"})
Naks   == Kind("LCP", {"ConfNak", "ConfRej"})
Chaps  == Kind("CHAP", Codes)
Chals  == Kind("CHAP", {"Challenge"})
Succs  == Kind("CHAP", {"Success"})
Ipcps  == Kind("IPCP", Codes)
IpAcks == Kind("IPCP", {"ConfAck"})
\* An answer that names an address other than the one the server assigns.
IpWrong == {f \in Kind("IPCP", {"ConfAck", "ConfNak"}) : f.val # Assigned}

\* The frame the stream holds, and all frames on their way to the server: on
\* the wire, in the stream's hands, and in the transmit queue.
Held == IF tx_inflight = NoItem THEN << >> ELSE <<tx_inflight>>
Out == c2s \o Held \o txq

-----------------------------------------------------------------------------
(* The inductive invariant.                                                *)

\* Nothing more arrives over a broken stream.
BrokenInv == ~stream_ok => s2c = << >>

\* The server acknowledges the client's LCP request once, after its last
\* Configure-Nak and before its first Challenge.
LcpInv ==
    /\ lcp_opened => started
    /\ stream_ok /\ "tx" \in p_lcp /\ ~lcp_opened => Has(s2c, Acks)
    /\ "tx" \notin p_lcp /\ "term" \notin p_lcp => ~lcp_opened /\ ~Has(s2c, Acks)
    /\ lcp_opened => ~Has(s2c, Naks)
    /\ NoneAfter(s2c, Acks, Naks)
    /\ ~lcp_opened => Guarded(s2c, Acks, Chals)

\* No LCP request of the client follows a CHAP Response, and none is on its
\* way once the server has accepted one.
OutInv ==
    stream_ok =>
        /\ ~lcp_opened => p_master = 0 /\ ~Has(Out, Chaps)
        /\ NoneAfter(Out, Chaps, Reqs)
        /\ p_master # 0 => ~Has(Out, Reqs)

\* The server judges one Response only, and its Success precedes all its IPCP
\* frames.
AuthInv ==
    /\ p_await => p_master = 0
    /\ stream_ok /\ p_master # 0 /\ ~auth_done => Has(s2c, Succs)
    /\ ~auth_done => Guarded(s2c, Succs, Ipcps)

\* What the client takes for its address is what the server acknowledged.
AddrInv ==
    /\ ~Has(s2c, IpWrong)
    /\ Has(s2c, IpAcks) => p_master # 0 /\ "tx" \in p_ipcp
    /\ ip_configured => /\ auth_done /\ local_ip = Assigned
                        /\ p_master # 0 /\ "tx" \in p_ipcp
    /\ up_notified => ip_configured /\ ccp_done

UpInv == BrokenInv /\ LcpInv /\ OutInv /\ AuthInv /\ AddrInv

\* What of it is left once a frame was refused, LCP renegotiated or an
\* authenticated client challenged.
BaseInv ==
    /\ BrokenInv
    /\ stream_ok /\ p_master # 0 /\ ~auth_done => Has(s2c, Succs)
    /\ ~auth_done => Guarded(s2c, Succs, Ipcps)
    /\ ~Has(s2c, IpWrong)
    /\ ip_configured => auth_done /\ local_ip = Assigned
    /\ up_notified => ip_configured /\ ccp_done

-----------------------------------------------------------------------------
(* Facts about the order.                                                  *)

\* What a concatenation has.
LEMMA HasConcat ==
    ASSUME NEW S, NEW s \in Seq(S), NEW t \in Seq(S), NEW A
    PROVE  Has(s \o t, A) <=> Has(s, A) \/ Has(t, A)
<1>1. /\ Len(s \o t) = Len(s) + Len(t) /\ Len(s) \in Nat /\ Len(t) \in Nat
      /\ \A i \in 1 .. Len(s) + Len(t) :
           (s \o t)[i] = IF i <= Len(s) THEN s[i] ELSE t[i - Len(s)]
  BY ConcatProperties, LenProperties
<1>2. ASSUME Has(s \o t, A) PROVE Has(s, A) \/ Has(t, A)
  <2>1. PICK i \in 1 .. Len(s) + Len(t) : (s \o t)[i] \in A
    BY <1>1, <1>2 DEF Has
  <2>2. CASE i <= Len(s)
    <3>1. i \in 1 .. Len(s) /\ s[i] \in A
      BY <1>1, <2>1, <2>2
    <3> QED  BY <3>1 DEF Has
  <2>3. CASE ~(i <= Len(s))
    <3>1. i - Len(s) \in 1 .. Len(t) /\ t[i - Len(s)] \in A
      BY <1>1, <2>1, <2>3
    <3> QED  BY <3>1 DEF Has
  <2> QED  BY <2>2, <2>3
<1>3. ASSUME Has(s, A) PROVE Has(s \o t, A)
  <2>1. PICK i \in 1 .. Len(s) : s[i] \in A
    BY <1>3 DEF Has
  <2>2. i \in 1 .. Len(s \o t) /\ (s \o t)[i] \in A
    BY <1>1, <2>1
  <2> QED  BY <2>2 DEF Has
<1>4. ASSUME Has(t, A) PROVE Has(s \o t, A)
  <2>1. PICK i \in 1 .. Len(t) : t[i] \in A
    BY <1>4 DEF Has
  <2>2. i + Len(s) \in 1 .. Len(s) + Len(t) /\ ~(i + Len(s) <= Len(s))
        /\ (i + Len(s)) - Len(s) = i
    BY <1>1
  <2>3. i + Len(s) \in 1 .. Len(s \o t) /\ (s \o t)[i + Len(s)] \in A
    BY <1>1, <2>1, <2>2
  <2> QED  BY <2>3 DEF Has
<1> QED  BY <1>2, <1>3, <1>4

\* What one frame, and none, have.
LEMMA HasOne ==
    ASSUME NEW x, NEW A
    PROVE  (Has(<<x>>, A) <=> x \in A) /\ ~Has(<< >>, A)
<1>1. Len(<<x>>) = 1 /\ <<x>>[1] = x /\ Len(<< >>) = 0
  OBVIOUS
<1> QED  BY <1>1 DEF Has

\* The head and the tail of a sequence.
LEMMA TailShape ==
    ASSUME NEW S, NEW s \in Seq(S), s # << >>
    PROVE  /\ Len(s) \in Nat \ {0} /\ Len(Tail(s)) = Len(s) - 1
           /\ 1 \in 1 .. Len(s) /\ s[1] = Head(s)
           /\ \A i \in 1 .. Len(s) - 1 : Tail(s)[i] = s[i + 1]
<1>1. Len(s) \in Nat \ {0} /\ Len(Tail(s)) = Len(s) - 1
  BY HeadTailProperties, EmptySeq
<1>2. s[1] = Head(s)
  OBVIOUS
<1>3. \A i \in 1 .. Len(Tail(s)) : Tail(s)[i] = s[i + 1]
  BY HeadTailProperties
<1> QED  BY <1>1, <1>2, <1>3

\* What a sequence has, its head or its tail has.
LEMMA HasTail ==
    ASSUME NEW S, NEW s \in Seq(S), s # << >>, NEW A
    PROVE  Has(s, A) <=> Head(s) \in A \/ Has(Tail(s), A)
<1>1. /\ Len(s) \in Nat \ {0} /\ Len(Tail(s)) = Len(s) - 1
      /\ 1 \in 1 .. Len(s) /\ s[1] = Head(s)
      /\ \A i \in 1 .. Len(s) - 1 : Tail(s)[i] = s[i + 1]
  BY TailShape
<1>2. ASSUME Has(s, A) PROVE Head(s) \in A \/ Has(Tail(s), A)
  <2>1. PICK i \in 1 .. Len(s) : s[i] \in A
    BY <1>2 DEF Has
  <2>2. CASE i = 1
    BY <1>1, <2>1, <2>2
  <2>3. CASE i # 1
    <3>1. i - 1 \in 1 .. Len(s) - 1 /\ (i - 1) + 1 = i
      BY <1>1, <2>1, <2>3
    <3>2. i - 1 \in 1 .. Len(Tail(s)) /\ Tail(s)[i - 1] \in A
      BY <1>1, <2>1, <3>1
    <3> QED  BY <3>2 DEF Has
  <2> QED  BY <2>2, <2>3
<1>3. ASSUME Head(s) \in A PROVE Has(s, A)
  BY <1>1, <1>3 DEF Has
<1>4. ASSUME Has(Tail(s), A) PROVE Has(s, A)
  <2>1. PICK i \in 1 .. Len(s) - 1 : Tail(s)[i] \in A
    BY <1>1, <1>4 DEF Has
  <2>2. i + 1 \in 1 .. Len(s) /\ s[i + 1] \in A
    BY <1>1, <2>1
  <2> QED  BY <2>2 DEF Has
<1> QED  BY <1>2, <1>3, <1>4

\* Frames added behind keep the order.
LEMMA OrderConcat ==
    ASSUME NEW S, NEW s \in Seq(S), NEW t \in Seq(S), NEW A, NEW B,
           NoneAfter(s, A, B), ~Has(t, B) \/ (~Has(s, A) /\ ~Has(t, A))
    PROVE  NoneAfter(s \o t, A, B)
<1>1. /\ Len(s \o t) = Len(s) + Len(t) /\ Len(s) \in Nat /\ Len(t) \in Nat
      /\ \A i \in 1 .. Len(s) + Len(t) :
           (s \o t)[i] = IF i <= Len(s) THEN s[i] ELSE t[i - Len(s)]
  BY ConcatProperties, LenProperties
<1>2. CASE ~Has(s, A) /\ ~Has(t, A)
  <2>1. ~Has(s \o t, A)
    BY <1>2, HasConcat
  <2> QED  BY <2>1 DEF Has, NoneAfter
<1>3. CASE ~Has(t, B)
  <2> SUFFICES ASSUME NEW i \in 1 .. Len(s) + Len(t), NEW j \in 1 .. Len(s) + Len(t),
                      i < j, (s \o t)[i] \in A, (s \o t)[j] \in B
               PROVE  FALSE
    BY <1>1 DEF NoneAfter
  <2>1. j <= Len(s)
    <3> SUFFICES ASSUME ~(j <= Len(s)) PROVE FALSE
      OBVIOUS
    <3>1. j - Len(s) \in 1 .. Len(t) /\ t[j - Len(s)] \in B
      BY <1>1
    <3> QED  BY <1>3, <3>1 DEF Has
  <2>2. i \in 1 .. Len(s) /\ j \in 1 .. Len(s) /\ s[i] \in A /\ s[j] \in B
    BY <1>1, <2>1
  <2> QED  BY <2>2 DEF NoneAfter
<1> QED  BY <1>2, <1>3

\* A sequence without its head keeps the order.
LEMMA OrderTail ==
    ASSUME NEW S, NEW s \in Seq(S), s # << >>, NEW A, NEW B, NoneAfter(s, A, B)
    PROVE  /\ NoneAfter(Tail(s), A, B)
           /\ Head(s) \in A => ~Has(Tail(s), B)
<1>1. /\ Len(s) \in Nat \ {0} /\ Len(Tail(s)) = Len(s) - 1
      /\ 1 \in 1 .. Len(s) /\ s[1] = Head(s)
      /\ \A i \in 1 .. Len(s) - 1 : Tail(s)[i] = s[i + 1]
  BY TailShape
<1>2. \A i \in 1 .. Len(s) - 1 : i + 1 \in 1 .. Len(s) /\ 1 < i + 1
  BY <1>1
<1>3. NoneAfter(Tail(s), A, B)
  <2> SUFFICES ASSUME NEW i \in 1 .. Len(s) - 1, NEW j \in 1 .. Len(s) - 1,
                      i < j, Tail(s)[i] \in A, Tail(s)[j] \in B
               PROVE  FALSE
    BY <1>1 DEF NoneAfter
  <2>1. s[i + 1] \in A /\ s[j + 1] \in B /\ i + 1 < j + 1
    BY <1>1
  <2> QED  BY <1>2, <2>1 DEF NoneAfter
<1>4. ASSUME Head(s) \in A, Has(Tail(s), B) PROVE FALSE
  <2>1. PICK j \in 1 .. Len(s) - 1 : Tail(s)[j] \in B
    BY <1>1, <1>4 DEF Has
  <2>2. s[j + 1] \in B
    BY <1>1, <2>1
  <2> QED  BY <1>1, <1>2, <1>4, <2>2 DEF NoneAfter
<1> QED  BY <1>3, <1>4

\* Frames added behind stay guarded.
LEMMA GuardConcat ==
    ASSUME NEW S, NEW s \in Seq(S), NEW t \in Seq(S), NEW A, NEW B,
           Guarded(s, A, B), Has(s, A) \/ ~Has(t, B)
    PROVE  Guarded(s \o t, A, B)
<1>1. /\ Len(s \o t) = Len(s) + Len(t) /\ Len(s) \in Nat /\ Len(t) \in Nat
      /\ \A i \in 1 .. Len(s) + Len(t) :
           (s \o t)[i] = IF i <= Len(s) THEN s[i] ELSE t[i - Len(s)]
  BY ConcatProperties, LenProperties
<1>2. \A i \in 1 .. Len(s) : i \in 1 .. Len(s) + Len(t) /\ (s \o t)[i] = s[i]
  BY <1>1
<1> SUFFICES ASSUME NEW j \in 1 .. Len(s) + Len(t), (s \o t)[j] \in B
             PROVE  \E i \in 1 .. Len(s) + Len(t) : i < j /\ (s \o t)[i] \in A
  BY <1>1 DEF Guarded
<1>3. CASE j <= Len(s)
  <2>1. j \in 1 .. Len(s) /\ s[j] \in B
    BY <1>1, <1>3
  <2>2. PICK i \in 1 .. Len(s) : i < j /\ s[i] \in A
    BY <2>1 DEF Guarded
  <2> QED  BY <1>2, <2>2
<1>4. CASE ~(j <= Len(s))
  <2>1. j - Len(s) \in 1 .. Len(t) /\ t[j - Len(s)] \in B
    BY <1>1, <1>4
  <2>2. Has(s, A)
    BY <2>1 DEF Has
  <2>3. PICK i \in 1 .. Len(s) : s[i] \in A
    BY <2>2 DEF Has
  <2>4. i < j
    BY <1>1, <1>4
  <2> QED  BY <1>2, <2>3, <2>4
<1> QED  BY <1>3, <1>4

\* The head is never a guarded frame, and one that is no guard may go.
LEMMA GuardTail ==
    ASSUME NEW S, NEW s \in Seq(S), s # << >>, NEW A, NEW B, Guarded(s, A, B)
    PROVE  /\ Head(s) \notin B
           /\ Head(s) \notin A => Guarded(Tail(s), A, B)
<1>1. /\ Len(s) \in Nat \ {0} /\ Len(Tail(s)) = Len(s) - 1
      /\ 1 \in 1 .. Len(s) /\ s[1] = Head(s)
      /\ \A i \in 1 .. Len(s) - 1 : Tail(s)[i] = s[i + 1]
  BY TailShape
<1>2. Head(s) \notin B
  <2>1. \A i \in 1 .. Len(s) : ~(i < 1)
    BY <1>1
  <2> QED  BY <1>1, <2>1 DEF Guarded
<1>3. ASSUME Head(s) \notin A PROVE Guarded(Tail(s), A, B)
  <2> SUFFICES ASSUME NEW j \in 1 .. Len(s) - 1, Tail(s)[j] \in B
               PROVE  \E i \in 1 .. Len(s) - 1 : i < j /\ Tail(s)[i] \in A
    BY <1>1 DEF Guarded
  <2>1. s[j + 1] \in B /\ j + 1 \in 1 .. Len(s)
    BY <1>1
  <2>2. PICK k \in 1 .. Len(s) : k < j + 1 /\ s[k] \in A
    BY <2>1 DEF Guarded
  <2>3. k # 1
    BY <1>1, <1>3, <2>2
  <2>4. k - 1 \in 1 .. Len(s) - 1 /\ k - 1 < j /\ (k - 1) + 1 = k
    BY <1>1, <2>2, <2>3
  <2>5. Tail(s)[k - 1] \in A
    BY <1>1, <2>2, <2>4
  <2> QED  BY <2>4, <2>5
<1> QED  BY <1>2, <1>3

-----------------------------------------------------------------------------
(* The frames on their way to the server.                                  *)

\* A flush splits the queue into wire, held frame and rest, in order.
LEMMA SplitQueue ==
    ASSUME NEW S, NEW q \in Seq(S), NoItem \notin S, NEW k \in 0 .. Len(q)
    PROVE  LET x == IF k < Len(q) THEN q[k + 1] ELSE NoItem
               h == IF x = NoItem THEN << >> ELSE <<x>>
           IN  /\ SubSeq(q, 1, k) \in Seq(S) /\ h \in Seq(S)
               /\ SubSeq(q, k + 2, Len(q)) \in Seq(S)
               /\ SubSeq(q, 1, k) \o (h \o SubSeq(q, k + 2, Len(q))) = q
<1> DEFINE x == IF k < Len(q) THEN q[k + 1] ELSE NoItem
           h == IF x = NoItem THEN << >> ELSE <<x>>
           r == SubSeq(q, k + 2, Len(q))
<1>1. Len(q) \in Nat /\ \A i \in 1 .. Len(q) : q[i] \in S
  BY LenProperties, ElementOfSeq
<1>2. SubSeq(q, 1, k) \in Seq(S) /\ r \in Seq(S)
  <2>1. \A i \in 1 .. k : q[i] \in S
    BY <1>1
  <2>2. \A i \in k + 2 .. Len(q) : q[i] \in S
    BY <1>1
  <2> QED  BY <1>1, <2>1, <2>2, SubSeqProperties
<1>3. CASE k < Len(q)
  <2>1. x = q[k + 1] /\ x \in S /\ h = <<q[k + 1]>> /\ h \in Seq(S)
    BY <1>1, <1>3
  <2>2. k + 1 \in 1 .. Len(q) /\ Len(q) \in k + 1 .. Len(q) /\ (k + 1) + 1 = k + 2
    BY <1>1, <1>3
  <2>3. SubSeq(q, k + 1, Len(q)) = <<q[k + 1]>> \o SubSeq(q, k + 2, Len(q))
    BY <2>2, SubSeqRecursiveFirst
  <2>4. SubSeq(q, 1, k) \o SubSeq(q, k + 1, Len(q)) = SubSeq(q, 1, Len(q))
    <3>1. 1 \in 1 .. Len(q) + 1 /\ k \in 1 - 1 .. Len(q) /\ Len(q) \in k .. Len(q)
      BY <1>1
    <3> QED  BY <3>1, ConcatAdjacentSubSeq
  <2>5. SubSeq(q, 1, Len(q)) = q
    BY SubSeqFull
  <2> QED  BY <1>2, <2>1, <2>3, <2>4, <2>5
<1>4. CASE ~(k < Len(q))
  <2>1. k = Len(q)
    BY <1>1, <1>4
  <2>2. h = << >> /\ h \in Seq(S)
    BY <1>4
  <2>3. r = << >>
    <3>1. Len(q) < k + 2 /\ k + 2 \in Int /\ Len(q) \in Int
      BY <1>1, <2>1
    <3> QED  BY <3>1, SubSeqEmpty
  <2>4. SubSeq(q, 1, k) = q
    BY <2>1, SubSeqFull
  <2>5. q \o (<< >> \o << >>) = q
    BY ConcatEmptySeq, NoneIn
  <2> QED  BY <1>2, <2>2, <2>3, <2>4, <2>5
<1> QED  BY <1>3, <1>4

\* Concatenations of frames may be grouped either way.
LEMMA Regroup ==
    ASSUME NEW s \in Seq(Frames), NEW t \in Seq(Frames), NEW u \in Seq(Frames)
    PROVE  (s \o t) \o u = s \o (t \o u)
OBVIOUS

\* The frames under way are frames.
LEMMA OutType ==
    ASSUME TypeOK
    PROVE  Held \in Seq(Frames) /\ Out \in Seq(Frames)
<1>1. /\ c2s \in Seq(Frames) /\ txq \in Seq(Frames)
      /\ tx_inflight \in Frames \cup {NoItem}
  BY DEF TypeOK
<1>2. Held \in Seq(Frames)
  BY <1>1, OneIn, NoneIn DEF Held
<1>3. c2s \o Held \in Seq(Frames)
  BY <1>1, <1>2, ConcatProperties
<1>4. Out \in Seq(Frames)
  BY <1>1, <1>3, ConcatProperties DEF Out
<1> QED  BY <1>2, <1>4

\* ppp_flush_start on a working stream loses and reorders nothing.
LEMMA FlushOut ==
    ASSUME stream_ok, NEW wire \in Seq(Frames), NEW q \in Seq(Frames), NEW n,
           Flush(wire, q, n)
    PROVE  Out' = wire \o q
<1>1. PICK k \in 0 .. Len(q) :
          /\ c2s' = wire \o SubSeq(q, 1, k)
          /\ tx_inflight' = IF k < Len(q) THEN q[k + 1] ELSE NoItem
          /\ txq' = SubSeq(q, k + 2, Len(q))
  BY DEF Flush
<1> DEFINE a == SubSeq(q, 1, k)
           r == SubSeq(q, k + 2, Len(q))
           x == IF k < Len(q) THEN q[k + 1] ELSE NoItem
           h == IF x = NoItem THEN << >> ELSE <<x>>
<1>2. /\ a \in Seq(Frames) /\ h \in Seq(Frames) /\ r \in Seq(Frames)
      /\ a \o (h \o r) = q
  BY NoItemNotFrame, SplitQueue
<1>3. Out' = ((wire \o a) \o h) \o r
  BY <1>1 DEF Out, Held
<1> HIDE DEF a, r, x, h
<1>4. wire \o a \in Seq(Frames) /\ h \o r \in Seq(Frames)
  BY <1>2, ConcatProperties
<1>t. a \in Seq(Frames) /\ h \in Seq(Frames) /\ r \in Seq(Frames)
  BY <1>2
<1>5. ((wire \o a) \o h) \o r = (wire \o a) \o (h \o r)
  <2> DEFINE w == wire \o a
  <2>1. w \in Seq(Frames)
    BY <1>4
  <2> HIDE DEF w
  <2>2. (w \o h) \o r = w \o (h \o r)
    BY ONLY <1>t, <2>1, Regroup
  <2> QED  BY ONLY <2>2 DEF w
<1>6. (wire \o a) \o (h \o r) = wire \o (a \o (h \o r))
  BY ONLY <1>t, <1>4, Regroup, wire \in Seq(Frames)
<1> QED  BY <1>2, <1>3, <1>5, <1>6

\* Frames the client sends go behind all those under way.
LEMMA TransmitOut ==
    ASSUME TypeOK, TxNotStalled, stream_ok, NEW fs \in Seq(Frames), Transmit(fs)
    PROVE  Out' = Out \o fs
<1>1. /\ c2s \in Seq(Frames) /\ txq \in Seq(Frames) /\ Held \in Seq(Frames)
  BY OutType DEF TypeOK
<1>2. CASE tx_busy
  <2>1. txq' = txq \o fs /\ tx_inflight' = tx_inflight /\ c2s' = c2s
    BY <1>2 DEF Transmit
  <2>2. Held' = Held
    BY <2>1 DEF Held
  <2>3. Out' = (c2s \o Held) \o (txq \o fs)
    BY <2>1, <2>2 DEF Out
  <2>4. c2s \o Held \in Seq(Frames)
    BY <1>1, ConcatProperties
  <2>5. ((c2s \o Held) \o txq) \o fs = (c2s \o Held) \o (txq \o fs)
    BY <1>1, <2>4, Regroup
  <2> QED  BY <2>3, <2>5 DEF Out
<1>3. CASE ~tx_busy
  <2>1. Held = << >> /\ Flush(c2s, txq \o fs, Len(fs))
    BY <1>3 DEF tx_busy, Held, Transmit
  <2>2. txq \o fs \in Seq(Frames)
    BY <1>1, ConcatProperties
  <2>3. Out' = c2s \o (txq \o fs)
    BY <1>1, <2>1, <2>2, FlushOut
  <2>4. Out = c2s \o txq
    BY <1>1, <2>1, ConcatEmptySeq DEF Out
  <2>5. (c2s \o txq) \o fs = c2s \o (txq \o fs)
    BY <1>1, Regroup
  <2> QED  BY <2>3, <2>4, <2>5
<1> QED  BY <1>2, <1>3

\* ppp_send_complete and the flush it starts change nothing under way.
LEMMA CompleteOut ==
    ASSUME TypeOK, stream_ok, SendComplete
    PROVE  Out' = Out
<1>1. /\ c2s \in Seq(Frames) /\ txq \in Seq(Frames) /\ tx_inflight \in Frames
      /\ Flush(Append(c2s, tx_inflight), txq, 1) /\ Held = <<tx_inflight>>
  BY DEF TypeOK, SendComplete, tx_busy, Held
<1>2. Append(c2s, tx_inflight) \in Seq(Frames)
      /\ Append(c2s, tx_inflight) = c2s \o <<tx_inflight>>
  BY <1>1, AppendProperties, AppendIsConcat
<1>3. Out' = Append(c2s, tx_inflight) \o txq
  BY <1>1, <1>2, FlushOut
<1> QED  BY <1>1, <1>2, <1>3 DEF Out

\* The head and the tail of a concatenation.
LEMMA HeadTailConcat ==
    ASSUME NEW S, NEW s \in Seq(S), NEW t \in Seq(S), s # << >>
    PROVE  /\ s \o t # << >> /\ Head(s \o t) = Head(s)
           /\ Tail(s \o t) = Tail(s) \o t
<1>1. /\ Len(s) \in Nat \ {0} /\ Len(t) \in Nat
      /\ s \o t \in Seq(S) /\ Len(s \o t) = Len(s) + Len(t)
      /\ \A i \in 1 .. Len(s) + Len(t) :
           (s \o t)[i] = IF i <= Len(s) THEN s[i] ELSE t[i - Len(s)]
  BY ConcatProperties, LenProperties, EmptySeq
<1>2. s \o t # << >>
  BY <1>1, EmptySeq
<1>3. Head(s \o t) = Head(s)
  <2>1. Head(s \o t) = (s \o t)[1] /\ Head(s) = s[1]
    BY <1>1, <1>2
  <2>2. 1 \in 1 .. Len(s) + Len(t) /\ 1 <= Len(s)
    BY <1>1
  <2> QED  BY <1>1, <2>1, <2>2
<1>4. /\ Tail(s \o t) \in Seq(S) /\ Len(Tail(s \o t)) = Len(s) + Len(t) - 1
      /\ \A i \in 1 .. Len(s) + Len(t) - 1 : Tail(s \o t)[i] = (s \o t)[i + 1]
  BY <1>1, <1>2, HeadTailProperties
<1>5. /\ Tail(s) \in Seq(S) /\ Len(Tail(s)) = Len(s) - 1
      /\ \A i \in 1 .. Len(s) - 1 : Tail(s)[i] = s[i + 1]
  BY <1>1, HeadTailProperties
<1>6. /\ Tail(s) \o t \in Seq(S) /\ Len(Tail(s) \o t) = Len(s) - 1 + Len(t)
      /\ \A i \in 1 .. Len(s) - 1 + Len(t) :
           (Tail(s) \o t)[i] = IF i <= Len(s) - 1 THEN Tail(s)[i]
                                                  ELSE t[i - (Len(s) - 1)]
  BY <1>5, ConcatProperties
<1>7. ASSUME NEW i \in 1 .. Len(s) + Len(t) - 1
      PROVE  Tail(s \o t)[i] = (Tail(s) \o t)[i]
  <2>1. i + 1 \in 1 .. Len(s) + Len(t) /\ i \in 1 .. Len(s) - 1 + Len(t)
    BY <1>1
  <2>2. CASE i <= Len(s) - 1
    <3>1. i \in 1 .. Len(s) - 1 /\ i + 1 <= Len(s)
      BY <1>1, <2>2
    <3> QED  BY <1>1, <1>4, <1>5, <1>6, <2>1, <2>2, <3>1
  <2>3. CASE ~(i <= Len(s) - 1)
    <3>1. ~(i + 1 <= Len(s)) /\ (i + 1) - Len(s) = i - (Len(s) - 1)
      BY <1>1, <2>3
    <3> QED  BY <1>1, <1>4, <1>6, <2>1, <2>3, <3>1
  <2> QED  BY <2>2, <2>3
<1>8. Len(Tail(s \o t)) = Len(Tail(s) \o t)
  BY <1>1, <1>4, <1>6
<1>9. Tail(s \o t) = Tail(s) \o t
  BY <1>4, <1>6, <1>7, <1>8, SeqEqual
<1> QED  BY <1>2, <1>3, <1>9

\* The server takes the first of the frames under way.
LEMMA TakesOut ==
    ASSUME TypeOK, NEW ps, PeerTakes(ps)
    PROVE  Out # << >> /\ Head(Out) = Head(c2s) /\ Out' = Tail(Out)
<1>1. /\ c2s \in Seq(Frames) /\ txq \in Seq(Frames) /\ Held \in Seq(Frames)
      /\ c2s # << >> /\ c2s' = Tail(c2s) /\ txq' = txq /\ Held' = Held
  BY OutType DEF TypeOK, PeerTakes, Held
<1>2. /\ c2s \o Held # << >> /\ Head(c2s \o Held) = Head(c2s)
      /\ Tail(c2s \o Held) = Tail(c2s) \o Held /\ c2s \o Held \in Seq(Frames)
  BY <1>1, HeadTailConcat, ConcatProperties
<1>3. /\ (c2s \o Held) \o txq # << >>
      /\ Head((c2s \o Held) \o txq) = Head(c2s \o Held)
      /\ Tail((c2s \o Held) \o txq) = Tail(c2s \o Held) \o txq
  BY <1>1, <1>2, HeadTailConcat
<1> QED  BY <1>1, <1>2, <1>3 DEF Out

-----------------------------------------------------------------------------
(* What a step of the client does to the order of frames.                  *)

\* Frames that are neither LCP requests nor CHAP answers.
Quiet(fs) == ~Has(fs, Reqs) /\ ~Has(fs, Chaps)

\* The client sends LCP requests only while it starts or as an answer to a
\* Configure-Nak, and CHAP frames only as an answer to a Challenge.
Says ==
    \E fs \in Seq(Frames) :
        /\ Out' = Out \o fs
        /\ \/ Quiet(fs)
           \/ /\ ~Has(fs, Chaps)
              /\ ~lcp_opened \/ ~started \/ (s2c # << >> /\ Head(s2c) \in Naks)
           \/ ~Has(fs, Reqs) /\ s2c # << >> /\ Head(s2c) \in Chals

Receives ==
    /\ s2c # << >> /\ s2c' = Tail(s2c) /\ started
    /\ lcp_opened' <=> lcp_opened \/ Head(s2c) \in Acks
    /\ auth_done' <=> auth_done \/ Head(s2c) \in Succs

ClientShape ==
    /\ stream_ok' = stream_ok
    /\ p_lcp' = p_lcp /\ p_ipcp' = p_ipcp
    /\ p_master' = p_master /\ p_await' = p_await
    /\ started => started'
    /\ \/ Receives
       \/ s2c' = s2c /\ lcp_opened' = lcp_opened /\ auth_done' = auth_done
    /\ stream_ok => Says

\* The client's address comes from an IPCP answer, and the link is reported up
\* when it is set and CCP has ended.
AddrShape ==
    /\ ccp_done => ccp_done'
    /\ up_notified' /\ ~up_notified => ip_configured' /\ ccp_done'
    /\ \/ local_ip' = local_ip /\ ip_configured' = ip_configured
       \/ /\ s2c # << >> /\ Head(s2c) \in Kind("IPCP", {"ConfAck", "ConfNak"})
          /\ s2c' = Tail(s2c)
          /\ local_ip' = Head(s2c).val
          /\ ip_configured => ip_configured'
          /\ Head(s2c) \in IpAcks \/ ip_configured' = ip_configured

\* Handlers that send nothing.
LEMMA SaysNothing ==
    ASSUME TypeOK, UNCHANGED txVars
    PROVE  Says
<1>1. Out' = Out
  BY DEF txVars, Out, Held
<1>2. Out = Out \o << >> /\ << >> \in Seq(Frames)
  BY OutType, ConcatEmptySeq, NoneIn
<1>3. Quiet(<< >>)
  BY HasOne DEF Quiet
<1> QED  BY <1>1, <1>2, <1>3 DEF Says

\* Handlers that send neither LCP requests nor CHAP answers.
LEMMA SaysQuiet ==
    ASSUME TypeOK, TxNotStalled, stream_ok, NEW fs \in Seq(Frames), Quiet(fs),
           Transmit(fs)
    PROVE  Says
<1>1. Out' = Out \o fs
  BY TransmitOut
<1> QED  BY <1>1 DEF Says

\* One quiet frame.
LEMMA QuietOne ==
    ASSUME NEW x \in Frames,
           x.proto \notin {"LCP", "CHAP"} \/ (x.proto = "LCP" /\ x.code # "ConfReq")
    PROVE  <<x>> \in Seq(Frames) /\ Quiet(<<x>>)
<1>1. x \notin Reqs /\ x \notin Chaps
  BY DEF Reqs, Chaps, Kind
<1> QED  BY <1>1, HasOne, OneIn DEF Quiet

\* Two runs of quiet frames.
LEMMA QuietConcat ==
    ASSUME NEW s \in Seq(Frames), NEW t \in Seq(Frames), Quiet(s), Quiet(t)
    PROVE  s \o t \in Seq(Frames) /\ Quiet(s \o t)
<1>1. s \o t \in Seq(Frames)
  BY ConcatProperties
<1>2. ~Has(s \o t, Reqs) /\ ~Has(s \o t, Chaps)
  BY HasConcat DEF Quiet
<1> QED  BY <1>1, <1>2 DEF Quiet

\* A control frame of IPCP or CCP, and an LCP answer, are quiet.
LEMMA QuietCtl ==
    ASSUME NEW p \in {"LCP", "CCP", "IPCP", "IP"}, NEW c \in Codes, NEW v \in Nat,
           p # "LCP" \/ c # "ConfReq"
    PROVE  <<Ctl(p, c, v)>> \in Seq(Frames) /\ Quiet(<<Ctl(p, c, v)>>)
<1>1. Ctl(p, c, v) \in Frames
  BY CtlFrame DEF Protos
<1>2. Ctl(p, c, v).proto = p /\ Ctl(p, c, v).code = c
  BY DEF Ctl
<1> QED  BY <1>1, <1>2, QuietOne

\* The IPCP request ccp_finished sends is quiet.
LEMMA CcpFinishedQuiet ==
    ASSUME TypeOK
    PROVE  CcpFinishedFrames \in Seq(Frames) /\ Quiet(CcpFinishedFrames)
<1>1. /\ <<IpcpConfReq(local_ip)>> \in Seq(Frames)
      /\ Quiet(<<IpcpConfReq(local_ip)>>)
  BY QuietCtl DEF IpcpConfReq, TypeOK, Codes
<1>2. Quiet(<< >>) /\ << >> \in Seq(Frames)
  BY HasOne, NoneIn DEF Quiet
<1> QED  BY <1>1, <1>2 DEF CcpFinishedFrames

\* What a handler receives.
LEMMA Received ==
    ASSUME TypeOK, NEW p, NEW cs, Dispatch(p, cs)
    PROVE  /\ s2c # << >> /\ s2c' = Tail(s2c) /\ started /\ started'
           /\ stream_ok' = stream_ok
           /\ p_lcp' = p_lcp /\ p_ipcp' = p_ipcp
           /\ p_master' = p_master /\ p_await' = p_await
           /\ Head(s2c) \in Kind(p, cs) /\ Head(s2c).val \in Nat
           /\ Head(s2c) \in Frames /\ Head(s2c).proto = p /\ Head(s2c).code \in cs
BY DispatchType DEF Dispatch, peerVars, Kind


\* Every received frame is handled as ClientShape says.
LEMMA ReceivesShape ==
    ASSUME TypeOK, TxNotStalled, ClientReceives
    PROVE  ClientShape
<1> USE DEF Codes

<1>1. ASSUME LcpConfReqRcvd PROVE ClientShape
  <2>1. /\ s2c # << >> /\ s2c' = Tail(s2c) /\ started /\ started' /\ stream_ok' = stream_ok
        /\ p_lcp' = p_lcp /\ p_ipcp' = p_ipcp
        /\ p_master' = p_master /\ p_await' = p_await
        /\ Head(s2c) \in Frames /\ Head(s2c).val \in Nat
        /\ Head(s2c).proto = "LCP" /\ Head(s2c).code \in {"ConfReq"}
    BY <1>1, Received DEF LcpConfReqRcvd
  <2>2. Receives
    BY <1>1, <2>1 DEF LcpConfReqRcvd, Receives, Acks, Succs, Kind, TypeOK
  <2>3. ASSUME stream_ok PROVE Says
    <3>1. /\ <<Ctl("LCP", "ConfAck", 0)>> \in Seq(Frames)
          /\ Quiet(<<Ctl("LCP", "ConfAck", 0)>>)
      BY QuietCtl
    <3>2. CASE lcp_opened
      <4>1. Transmit(<<Ctl("LCP", "ConfAck", 0)>> \o << >>)
        BY <1>1, <3>2 DEF LcpConfReqRcvd
      <4>2. <<Ctl("LCP", "ConfAck", 0)>> \o << >> = <<Ctl("LCP", "ConfAck", 0)>>
        BY <3>1, ConcatEmptySeq
      <4> QED  BY <2>3, <3>1, <4>1, <4>2, SaysQuiet
    <3>3. CASE ~lcp_opened
      <4> DEFINE fs == <<Ctl("LCP", "ConfAck", 0)>> \o <<LcpConfReq>>
      <4>1. Transmit(fs)
        BY <1>1, <3>3 DEF LcpConfReqRcvd
      <4>2. LcpConfReq \in Frames /\ LcpConfReq \notin Chaps
        BY CtlFrame DEF LcpConfReq, Ctl, Chaps, Kind, Protos
      <4>3. <<LcpConfReq>> \in Seq(Frames) /\ ~Has(<<LcpConfReq>>, Chaps)
        BY <4>2, HasOne, OneIn
      <4>4. fs \in Seq(Frames) /\ ~Has(fs, Chaps)
        <5>1. ~Has(<<Ctl("LCP", "ConfAck", 0)>>, Chaps)
          BY <3>1 DEF Quiet
        <5>2. fs \in Seq(Frames)
          BY <3>1, <4>3, ConcatProperties
        <5>3. ~Has(fs, Chaps)
          <6> DEFINE a == <<Ctl("LCP", "ConfAck", 0)>>
                     b == <<LcpConfReq>>
          <6>1. a \in Seq(Frames) /\ b \in Seq(Frames) /\ fs = a \o b
                /\ ~Has(a, Chaps) /\ ~Has(b, Chaps)
            BY <3>1, <4>3, <5>1
          <6> HIDE DEF a, b, fs
          <6> QED  BY <6>1, HasConcat
        <5> QED  BY <5>2, <5>3
      <4> HIDE DEF fs
      <4>5. Out' = Out \o fs
        BY <2>3, <4>1, <4>4, TransmitOut
      <4> QED  BY <3>3, <4>4, <4>5 DEF Says
    <3> QED  BY <3>2, <3>3
  <2> QED  BY <2>1, <2>2, <2>3 DEF ClientShape
<1>2. ASSUME LcpConfAckRcvd PROVE ClientShape
  <2>1. /\ s2c # << >> /\ s2c' = Tail(s2c) /\ started /\ started' /\ stream_ok' = stream_ok
        /\ p_lcp' = p_lcp /\ p_ipcp' = p_ipcp
        /\ p_master' = p_master /\ p_await' = p_await
        /\ Head(s2c) \in Frames /\ Head(s2c).val \in Nat
        /\ Head(s2c).proto = "LCP" /\ Head(s2c).code \in {"ConfAck"}
    BY <1>2, Received DEF LcpConfAckRcvd
  <2>2. Receives
    BY <1>2, <2>1 DEF LcpConfAckRcvd, Receives, Acks, Succs, Kind, TypeOK
  <2>3. Says
    BY <1>2, SaysNothing DEF LcpConfAckRcvd
  <2> QED  BY <2>1, <2>2, <2>3 DEF ClientShape
<1>3. ASSUME LcpConfNakRcvd PROVE ClientShape
  <2>1. /\ s2c # << >> /\ s2c' = Tail(s2c) /\ started /\ started' /\ stream_ok' = stream_ok
        /\ p_lcp' = p_lcp /\ p_ipcp' = p_ipcp
        /\ p_master' = p_master /\ p_await' = p_await
        /\ Head(s2c) \in Frames /\ Head(s2c).val \in Nat
        /\ Head(s2c).proto = "LCP" /\ Head(s2c).code \in {"ConfNak", "ConfRej"}
    BY <1>3, Received DEF LcpConfNakRcvd
  <2>2. Receives
    BY <1>3, <2>1 DEF LcpConfNakRcvd, Receives, Acks, Succs, Kind, TypeOK
  <2>3. ASSUME stream_ok PROVE Says
    <3>1. LcpConfReq \in Frames /\ LcpConfReq \notin Chaps
      BY CtlFrame DEF LcpConfReq, Ctl, Chaps, Kind, Protos
    <3>2. <<LcpConfReq>> \in Seq(Frames) /\ ~Has(<<LcpConfReq>>, Chaps)
      BY <3>1, HasOne, OneIn
    <3>3. Out' = Out \o <<LcpConfReq>>
      BY <1>3, <2>3, <3>2, TransmitOut DEF LcpConfNakRcvd
    <3>4. Head(s2c) \in Naks
      BY <2>1 DEF Naks, Kind
    <3> QED  BY <2>1, <3>2, <3>3, <3>4 DEF Says
  <2> QED  BY <2>1, <2>2, <2>3 DEF ClientShape
<1>4. ASSUME LcpTermReqRcvd PROVE ClientShape
  <2>1. /\ s2c # << >> /\ s2c' = Tail(s2c) /\ started /\ started' /\ stream_ok' = stream_ok
        /\ p_lcp' = p_lcp /\ p_ipcp' = p_ipcp
        /\ p_master' = p_master /\ p_await' = p_await
        /\ Head(s2c) \in Frames /\ Head(s2c).val \in Nat
        /\ Head(s2c).proto = "LCP" /\ Head(s2c).code \in {"TermReq"}
    BY <1>4, Received DEF LcpTermReqRcvd
  <2>2. Receives
    BY <1>4, <2>1 DEF LcpTermReqRcvd, Receives, Acks, Succs, Kind, TypeOK
  <2>3. ASSUME stream_ok PROVE Says
    <3> DEFINE fs == <<Ctl("LCP", "TermAck", 0)>>
    <3>1. fs \in Seq(Frames) /\ Quiet(fs)
      BY <2>1, QuietCtl
    <3>2. Transmit(fs)
      BY <1>4 DEF LcpTermReqRcvd
    <3> HIDE DEF fs
    <3> QED  BY <2>3, <3>1, <3>2, SaysQuiet
  <2> QED  BY <2>1, <2>2, <2>3 DEF ClientShape
<1>5. ASSUME LcpEchoReqRcvd PROVE ClientShape
  <2>1. /\ s2c # << >> /\ s2c' = Tail(s2c) /\ started /\ started' /\ stream_ok' = stream_ok
        /\ p_lcp' = p_lcp /\ p_ipcp' = p_ipcp
        /\ p_master' = p_master /\ p_await' = p_await
        /\ Head(s2c) \in Frames /\ Head(s2c).val \in Nat
        /\ Head(s2c).proto = "LCP" /\ Head(s2c).code \in {"EchoReq"}
    BY <1>5, Received DEF LcpEchoReqRcvd
  <2>2. Receives
    BY <1>5, <2>1 DEF LcpEchoReqRcvd, Receives, Acks, Succs, Kind, TypeOK
  <2>3. ASSUME stream_ok PROVE Says
    <3> DEFINE fs == <<Ctl("LCP", "EchoRep", 0)>>
    <3>1. fs \in Seq(Frames) /\ Quiet(fs)
      BY <2>1, QuietCtl
    <3>2. Transmit(fs)
      BY <1>5 DEF LcpEchoReqRcvd
    <3> HIDE DEF fs
    <3> QED  BY <2>3, <3>1, <3>2, SaysQuiet
  <2> QED  BY <2>1, <2>2, <2>3 DEF ClientShape
<1>6. ASSUME LcpOtherRcvd PROVE ClientShape
  <2>1. /\ s2c # << >> /\ s2c' = Tail(s2c) /\ started /\ started' /\ stream_ok' = stream_ok
        /\ p_lcp' = p_lcp /\ p_ipcp' = p_ipcp
        /\ p_master' = p_master /\ p_await' = p_await
        /\ Head(s2c) \in Frames /\ Head(s2c).val \in Nat
        /\ Head(s2c).proto = "LCP" /\ Head(s2c).code \in Codes \ {"ConfReq", "ConfAck", "ConfNak", "ConfRej", "TermReq", "EchoReq"}
    BY <1>6, Received DEF LcpOtherRcvd
  <2>2. Receives
    BY <1>6, <2>1 DEF LcpOtherRcvd, Receives, Acks, Succs, Kind, TypeOK
  <2>3. Says
    BY <1>6, SaysNothing DEF LcpOtherRcvd
  <2> QED  BY <2>1, <2>2, <2>3 DEF ClientShape
<1>7. ASSUME ChapChallengeRcvd PROVE ClientShape
  <2>1. /\ s2c # << >> /\ s2c' = Tail(s2c) /\ started /\ started' /\ stream_ok' = stream_ok
        /\ p_lcp' = p_lcp /\ p_ipcp' = p_ipcp
        /\ p_master' = p_master /\ p_await' = p_await
        /\ Head(s2c) \in Frames /\ Head(s2c).val \in Nat
        /\ Head(s2c).proto = "CHAP" /\ Head(s2c).code \in {"Challenge"}
    BY <1>7, Received DEF ChapChallengeRcvd
  <2>2. Receives
    BY <1>7, <2>1 DEF ChapChallengeRcvd, Receives, Acks, Succs, Kind, TypeOK
  <2>3. ASSUME stream_ok PROVE Says
    <3> DEFINE x == Ctl("CHAP", "Response", Head(s2c).val)
    <3>1. x \in Frames /\ x \notin Reqs
      BY <2>1, CtlFrame DEF Ctl, Reqs, Kind, Protos
    <3>2. <<x>> \in Seq(Frames) /\ ~Has(<<x>>, Reqs)
      BY <3>1, HasOne, OneIn
    <3>3. Transmit(<<x>>)
      BY <1>7 DEF ChapChallengeRcvd
    <3> HIDE DEF x
    <3>4. Out' = Out \o <<x>>
      BY <2>3, <3>2, <3>3, TransmitOut
    <3>5. Head(s2c) \in Chals
      BY <2>1 DEF Chals, Kind
    <3> QED  BY <2>1, <3>2, <3>4, <3>5 DEF Says
  <2> QED  BY <2>1, <2>2, <2>3 DEF ClientShape
<1>8. ASSUME ChapSuccessRcvd PROVE ClientShape
  <2>1. /\ s2c # << >> /\ s2c' = Tail(s2c) /\ started /\ started' /\ stream_ok' = stream_ok
        /\ p_lcp' = p_lcp /\ p_ipcp' = p_ipcp
        /\ p_master' = p_master /\ p_await' = p_await
        /\ Head(s2c) \in Frames /\ Head(s2c).val \in Nat
        /\ Head(s2c).proto = "CHAP" /\ Head(s2c).code \in {"Success"}
    BY <1>8, Received DEF ChapSuccessRcvd
  <2>2. Receives
    BY <1>8, <2>1 DEF ChapSuccessRcvd, Receives, Acks, Succs, Kind, TypeOK
  <2>3. ASSUME stream_ok PROVE Says
    <3> DEFINE fs == <<CcpConfReq>>
    <3>1. fs \in Seq(Frames) /\ Quiet(fs)
      BY <2>1, QuietCtl DEF CcpConfReq
    <3>2. Transmit(fs)
      BY <1>8 DEF ChapSuccessRcvd
    <3> HIDE DEF fs
    <3> QED  BY <2>3, <3>1, <3>2, SaysQuiet
  <2> QED  BY <2>1, <2>2, <2>3 DEF ClientShape
<1>9. ASSUME ChapFailureRcvd PROVE ClientShape
  <2>1. /\ s2c # << >> /\ s2c' = Tail(s2c) /\ started /\ started' /\ stream_ok' = stream_ok
        /\ p_lcp' = p_lcp /\ p_ipcp' = p_ipcp
        /\ p_master' = p_master /\ p_await' = p_await
        /\ Head(s2c) \in Frames /\ Head(s2c).val \in Nat
        /\ Head(s2c).proto = "CHAP" /\ Head(s2c).code \in {"Failure"}
    BY <1>9, Received DEF ChapFailureRcvd
  <2>2. Receives
    BY <1>9, <2>1 DEF ChapFailureRcvd, Receives, Acks, Succs, Kind, TypeOK
  <2>3. Says
    BY <1>9, SaysNothing DEF ChapFailureRcvd
  <2> QED  BY <2>1, <2>2, <2>3 DEF ClientShape
<1>10. ASSUME CcpConfReqRcvd PROVE ClientShape
  <2>1. /\ s2c # << >> /\ s2c' = Tail(s2c) /\ started /\ started' /\ stream_ok' = stream_ok
        /\ p_lcp' = p_lcp /\ p_ipcp' = p_ipcp
        /\ p_master' = p_master /\ p_await' = p_await
        /\ Head(s2c) \in Frames /\ Head(s2c).val \in Nat
        /\ Head(s2c).proto = "CCP" /\ Head(s2c).code \in {"ConfReq"}
    BY <1>10, Received DEF CcpConfReqRcvd
  <2>2. Receives
    BY <1>10, <2>1 DEF CcpConfReqRcvd, Receives, Acks, Succs, Kind, TypeOK
  <2>3. ASSUME stream_ok PROVE Says
    <3> DEFINE fs == <<Ctl("CCP", "ConfAck", 0)>> \o CcpFinishedFrames
    <3>1. fs \in Seq(Frames) /\ Quiet(fs)
      <4>1. <<Ctl("CCP", "ConfAck", 0)>> \in Seq(Frames) /\ Quiet(<<Ctl("CCP", "ConfAck", 0)>>)
        BY <2>1, QuietCtl
      <4>2. CcpFinishedFrames \in Seq(Frames) /\ Quiet(CcpFinishedFrames)
        BY CcpFinishedQuiet
      <4> QED  BY <4>1, <4>2, QuietConcat
    <3>2. Transmit(fs)
      BY <1>10 DEF CcpConfReqRcvd
    <3> HIDE DEF fs
    <3> QED  BY <2>3, <3>1, <3>2, SaysQuiet
  <2> QED  BY <2>1, <2>2, <2>3 DEF ClientShape
<1>11. ASSUME CcpConfAckRcvd PROVE ClientShape
  <2>1. /\ s2c # << >> /\ s2c' = Tail(s2c) /\ started /\ started' /\ stream_ok' = stream_ok
        /\ p_lcp' = p_lcp /\ p_ipcp' = p_ipcp
        /\ p_master' = p_master /\ p_await' = p_await
        /\ Head(s2c) \in Frames /\ Head(s2c).val \in Nat
        /\ Head(s2c).proto = "CCP" /\ Head(s2c).code \in {"ConfAck"}
    BY <1>11, Received DEF CcpConfAckRcvd
  <2>2. Receives
    BY <1>11, <2>1 DEF CcpConfAckRcvd, Receives, Acks, Succs, Kind, TypeOK
  <2>3. ASSUME stream_ok PROVE Says
    <3> DEFINE fs == CcpFinishedFrames
    <3>1. fs \in Seq(Frames) /\ Quiet(fs)
      BY CcpFinishedQuiet
    <3>2. Transmit(fs)
      BY <1>11 DEF CcpConfAckRcvd
    <3> HIDE DEF fs
    <3> QED  BY <2>3, <3>1, <3>2, SaysQuiet
  <2> QED  BY <2>1, <2>2, <2>3 DEF ClientShape
<1>12. ASSUME CcpConfRejRcvd PROVE ClientShape
  <2>1. /\ s2c # << >> /\ s2c' = Tail(s2c) /\ started /\ started' /\ stream_ok' = stream_ok
        /\ p_lcp' = p_lcp /\ p_ipcp' = p_ipcp
        /\ p_master' = p_master /\ p_await' = p_await
        /\ Head(s2c) \in Frames /\ Head(s2c).val \in Nat
        /\ Head(s2c).proto = "CCP" /\ Head(s2c).code \in {"ConfRej", "ConfNak"}
    BY <1>12, Received DEF CcpConfRejRcvd
  <2>2. Receives
    BY <1>12, <2>1 DEF CcpConfRejRcvd, Receives, Acks, Succs, Kind, TypeOK
  <2>3. ASSUME stream_ok PROVE Says
    <3> DEFINE fs == CcpFinishedFrames
    <3>1. fs \in Seq(Frames) /\ Quiet(fs)
      BY CcpFinishedQuiet
    <3>2. Transmit(fs)
      BY <1>12 DEF CcpConfRejRcvd
    <3> HIDE DEF fs
    <3> QED  BY <2>3, <3>1, <3>2, SaysQuiet
  <2> QED  BY <2>1, <2>2, <2>3 DEF ClientShape
<1>13. ASSUME IpcpConfReqRcvd PROVE ClientShape
  <2>1. /\ s2c # << >> /\ s2c' = Tail(s2c) /\ started /\ started' /\ stream_ok' = stream_ok
        /\ p_lcp' = p_lcp /\ p_ipcp' = p_ipcp
        /\ p_master' = p_master /\ p_await' = p_await
        /\ Head(s2c) \in Frames /\ Head(s2c).val \in Nat
        /\ Head(s2c).proto = "IPCP" /\ Head(s2c).code \in {"ConfReq"}
    BY <1>13, Received DEF IpcpConfReqRcvd
  <2>2. Receives
    BY <1>13, <2>1 DEF IpcpConfReqRcvd, Receives, Acks, Succs, Kind, TypeOK
  <2>3. ASSUME stream_ok PROVE Says
    <3> DEFINE fs == CcpFinishedFrames \o <<Ctl("IPCP", "ConfAck", Head(s2c).val)>>
    <3>1. fs \in Seq(Frames) /\ Quiet(fs)
      <4>1. CcpFinishedFrames \in Seq(Frames) /\ Quiet(CcpFinishedFrames)
        BY CcpFinishedQuiet
      <4>2. <<Ctl("IPCP", "ConfAck", Head(s2c).val)>> \in Seq(Frames) /\ Quiet(<<Ctl("IPCP", "ConfAck", Head(s2c).val)>>)
        BY <2>1, QuietCtl
      <4> QED  BY <4>1, <4>2, QuietConcat
    <3>2. Transmit(fs)
      BY <1>13 DEF IpcpConfReqRcvd
    <3> HIDE DEF fs
    <3> QED  BY <2>3, <3>1, <3>2, SaysQuiet
  <2> QED  BY <2>1, <2>2, <2>3 DEF ClientShape
<1>14. ASSUME IpcpConfAckRcvd PROVE ClientShape
  <2>1. /\ s2c # << >> /\ s2c' = Tail(s2c) /\ started /\ started' /\ stream_ok' = stream_ok
        /\ p_lcp' = p_lcp /\ p_ipcp' = p_ipcp
        /\ p_master' = p_master /\ p_await' = p_await
        /\ Head(s2c) \in Frames /\ Head(s2c).val \in Nat
        /\ Head(s2c).proto = "IPCP" /\ Head(s2c).code \in {"ConfAck"}
    BY <1>14, Received DEF IpcpConfAckRcvd
  <2>2. Receives
    BY <1>14, <2>1 DEF IpcpConfAckRcvd, Receives, Acks, Succs, Kind, TypeOK
  <2>3. ASSUME stream_ok PROVE Says
    <3> DEFINE fs == CcpFinishedFrames
    <3>1. fs \in Seq(Frames) /\ Quiet(fs)
      BY CcpFinishedQuiet
    <3>2. Transmit(fs)
      BY <1>14 DEF IpcpConfAckRcvd
    <3> HIDE DEF fs
    <3> QED  BY <2>3, <3>1, <3>2, SaysQuiet
  <2> QED  BY <2>1, <2>2, <2>3 DEF ClientShape
<1>15. ASSUME IpcpConfNakRcvd PROVE ClientShape
  <2>1. /\ s2c # << >> /\ s2c' = Tail(s2c) /\ started /\ started' /\ stream_ok' = stream_ok
        /\ p_lcp' = p_lcp /\ p_ipcp' = p_ipcp
        /\ p_master' = p_master /\ p_await' = p_await
        /\ Head(s2c) \in Frames /\ Head(s2c).val \in Nat
        /\ Head(s2c).proto = "IPCP" /\ Head(s2c).code \in {"ConfNak"}
    BY <1>15, Received DEF IpcpConfNakRcvd
  <2>2. Receives
    BY <1>15, <2>1 DEF IpcpConfNakRcvd, Receives, Acks, Succs, Kind, TypeOK
  <2>3. ASSUME stream_ok PROVE Says
    <3> DEFINE fs == CcpFinishedFrames \o <<IpcpConfReq(Head(s2c).val)>>
    <3>1. fs \in Seq(Frames) /\ Quiet(fs)
      <4>1. CcpFinishedFrames \in Seq(Frames) /\ Quiet(CcpFinishedFrames)
        BY CcpFinishedQuiet
      <4>2. <<IpcpConfReq(Head(s2c).val)>> \in Seq(Frames) /\ Quiet(<<IpcpConfReq(Head(s2c).val)>>)
        BY <2>1, QuietCtl DEF IpcpConfReq
      <4> QED  BY <4>1, <4>2, QuietConcat
    <3>2. Transmit(fs)
      BY <1>15 DEF IpcpConfNakRcvd
    <3> HIDE DEF fs
    <3> QED  BY <2>3, <3>1, <3>2, SaysQuiet
  <2> QED  BY <2>1, <2>2, <2>3 DEF ClientShape
<1>16. ASSUME IpcpOtherRcvd PROVE ClientShape
  <2>1. /\ s2c # << >> /\ s2c' = Tail(s2c) /\ started /\ started' /\ stream_ok' = stream_ok
        /\ p_lcp' = p_lcp /\ p_ipcp' = p_ipcp
        /\ p_master' = p_master /\ p_await' = p_await
        /\ Head(s2c) \in Frames /\ Head(s2c).val \in Nat
        /\ Head(s2c).proto = "IPCP" /\ Head(s2c).code \in Codes \ {"ConfReq", "ConfAck", "ConfNak"}
    BY <1>16, Received DEF IpcpOtherRcvd
  <2>2. Receives
    BY <1>16, <2>1 DEF IpcpOtherRcvd, Receives, Acks, Succs, Kind, TypeOK
  <2>3. ASSUME stream_ok PROVE Says
    <3> DEFINE fs == CcpFinishedFrames
    <3>1. fs \in Seq(Frames) /\ Quiet(fs)
      BY CcpFinishedQuiet
    <3>2. Transmit(fs)
      BY <1>16 DEF IpcpOtherRcvd
    <3> HIDE DEF fs
    <3> QED  BY <2>3, <3>1, <3>2, SaysQuiet
  <2> QED  BY <2>1, <2>2, <2>3 DEF ClientShape
<1>17. ASSUME MppeRcvd PROVE ClientShape
  <2>1. /\ s2c # << >> /\ s2c' = Tail(s2c) /\ started /\ started' /\ stream_ok' = stream_ok
        /\ p_lcp' = p_lcp /\ p_ipcp' = p_ipcp
        /\ p_master' = p_master /\ p_await' = p_await
        /\ Head(s2c) \in Frames /\ Head(s2c).val \in Nat
        /\ Head(s2c).proto = "MPPE" /\ Head(s2c).code \in {"Data"}
    BY <1>17, Received DEF MppeRcvd
  <2>2. Receives
    BY <1>17, <2>1 DEF MppeRcvd, Receives, Acks, Succs, Kind, TypeOK
  <2>3. Says
    BY <1>17, SaysNothing DEF MppeRcvd
  <2> QED  BY <2>1, <2>2, <2>3 DEF ClientShape
<1>18. ASSUME IpRcvd PROVE ClientShape
  <2>1. /\ s2c # << >> /\ s2c' = Tail(s2c) /\ started /\ started' /\ stream_ok' = stream_ok
        /\ p_lcp' = p_lcp /\ p_ipcp' = p_ipcp
        /\ p_master' = p_master /\ p_await' = p_await
        /\ Head(s2c) \in Frames /\ Head(s2c).val \in Nat
        /\ Head(s2c).proto = "IP" /\ Head(s2c).code \in {"Data"}
    BY <1>18, Received DEF IpRcvd
  <2>2. Receives
    BY <1>18, <2>1 DEF IpRcvd, Receives, Acks, Succs, Kind, TypeOK
  <2>3. Says
    BY <1>18, SaysNothing DEF IpRcvd
  <2> QED  BY <2>1, <2>2, <2>3 DEF ClientShape
<1> QED
  BY <1>1, <1>2, <1>3, <1>4, <1>5, <1>6, <1>7, <1>8, <1>9, <1>10, <1>11, <1>12, <1>13, <1>14, <1>15, <1>16, <1>17, <1>18 DEF ClientReceives

\* Every received frame changes the address as AddrShape says.
LEMMA ReceivesAddr ==
    ASSUME TypeOK, ClientReceives
    PROVE  AddrShape

<1>1. ASSUME LcpConfReqRcvd PROVE AddrShape
  BY <1>1 DEF LcpConfReqRcvd, AddrShape, upVars, Dispatch
<1>2. ASSUME LcpConfAckRcvd PROVE AddrShape
  BY <1>2 DEF LcpConfAckRcvd, AddrShape, upVars, Dispatch
<1>3. ASSUME LcpConfNakRcvd PROVE AddrShape
  BY <1>3 DEF LcpConfNakRcvd, AddrShape, upVars, Dispatch
<1>4. ASSUME LcpTermReqRcvd PROVE AddrShape
  BY <1>4 DEF LcpTermReqRcvd, AddrShape, upVars, Dispatch
<1>5. ASSUME LcpEchoReqRcvd PROVE AddrShape
  BY <1>5 DEF LcpEchoReqRcvd, AddrShape, upVars, Dispatch
<1>6. ASSUME LcpOtherRcvd PROVE AddrShape
  BY <1>6 DEF LcpOtherRcvd, AddrShape, upVars, Dispatch
<1>7. ASSUME ChapChallengeRcvd PROVE AddrShape
  BY <1>7 DEF ChapChallengeRcvd, AddrShape, upVars, Dispatch
<1>8. ASSUME ChapSuccessRcvd PROVE AddrShape
  BY <1>8 DEF ChapSuccessRcvd, AddrShape, upVars, Dispatch
<1>9. ASSUME ChapFailureRcvd PROVE AddrShape
  BY <1>9 DEF ChapFailureRcvd, AddrShape, upVars, Dispatch
<1>10. ASSUME CcpConfReqRcvd PROVE AddrShape
  <2>1. /\ ccp_done' /\ ip_configured' = ip_configured /\ local_ip' = local_ip
        /\ NotifyUp(ReadyForUp(ip_configured, local_ip, TRUE))
    BY <1>10 DEF CcpConfReqRcvd
  <2>2. up_notified' /\ ~up_notified => ip_configured' /\ ccp_done'
    BY <2>1 DEF NotifyUp, ReadyForUp
  <2> QED  BY <2>1, <2>2 DEF AddrShape
<1>11. ASSUME CcpConfAckRcvd PROVE AddrShape
  <2>1. /\ ccp_done' /\ ip_configured' = ip_configured /\ local_ip' = local_ip
        /\ NotifyUp(ReadyForUp(ip_configured, local_ip, TRUE))
    BY <1>11 DEF CcpConfAckRcvd
  <2>2. up_notified' /\ ~up_notified => ip_configured' /\ ccp_done'
    BY <2>1 DEF NotifyUp, ReadyForUp
  <2> QED  BY <2>1, <2>2 DEF AddrShape
<1>12. ASSUME CcpConfRejRcvd PROVE AddrShape
  <2>1. /\ ccp_done' /\ ip_configured' = ip_configured /\ local_ip' = local_ip
        /\ NotifyUp(ReadyForUp(ip_configured, local_ip, TRUE))
    BY <1>12 DEF CcpConfRejRcvd
  <2>2. up_notified' /\ ~up_notified => ip_configured' /\ ccp_done'
    BY <2>1 DEF NotifyUp, ReadyForUp
  <2> QED  BY <2>1, <2>2 DEF AddrShape
<1>13. ASSUME IpcpConfReqRcvd PROVE AddrShape
  <2>1. /\ ccp_done' = (ccp_done \/ IpcpEarly)
        /\ ip_configured' = ip_configured /\ local_ip' = local_ip
        /\ NotifyUp(IpcpEarly /\ ReadyForUp(ip_configured, local_ip, TRUE))
    BY <1>13 DEF IpcpConfReqRcvd, IpcpPreamble
  <2>2. up_notified' /\ ~up_notified => ip_configured' /\ ccp_done'
    BY <2>1 DEF NotifyUp, ReadyForUp
  <2> QED  BY <2>1, <2>2 DEF AddrShape
<1>14. ASSUME IpcpConfAckRcvd PROVE AddrShape
  <2>1. /\ ccp_done' = (ccp_done \/ IpcpEarly) /\ local_ip' = Head(s2c).val
        /\ ip_configured' = (ip_configured \/ local_ip' # 0)
        /\ NotifyUp(\/ IpcpEarly /\ ReadyForUp(ip_configured, local_ip, TRUE)
                    \/ ReadyForUp(local_ip' # 0, local_ip', ccp_done'))
    BY <1>14 DEF IpcpConfAckRcvd, IpcpPreamble
  <2>2. up_notified' /\ ~up_notified => ip_configured' /\ ccp_done'
    BY <2>1 DEF NotifyUp, ReadyForUp
  <2>3. /\ s2c # << >> /\ s2c' = Tail(s2c) /\ Head(s2c) \in Frames
        /\ Head(s2c).proto = "IPCP" /\ Head(s2c).code \in {"ConfAck"}
    BY <1>14, Received DEF IpcpConfAckRcvd
  <2>4. Head(s2c) \in Kind("IPCP", {"ConfAck", "ConfNak"})
        /\ (Head(s2c) \in IpAcks \/ ip_configured' = ip_configured)
    BY <2>1, <2>3 DEF Kind, IpAcks
  <2> QED  BY <2>1, <2>2, <2>3, <2>4 DEF AddrShape, TypeOK
<1>15. ASSUME IpcpConfNakRcvd PROVE AddrShape
  <2>1. /\ ccp_done' = (ccp_done \/ IpcpEarly) /\ local_ip' = Head(s2c).val
        /\ ip_configured' = ip_configured
        /\ NotifyUp(IpcpEarly /\ ReadyForUp(ip_configured, local_ip, TRUE))
    BY <1>15 DEF IpcpConfNakRcvd, IpcpPreamble
  <2>2. up_notified' /\ ~up_notified => ip_configured' /\ ccp_done'
    BY <2>1 DEF NotifyUp, ReadyForUp
  <2>3. /\ s2c # << >> /\ s2c' = Tail(s2c) /\ Head(s2c) \in Frames
        /\ Head(s2c).proto = "IPCP" /\ Head(s2c).code \in {"ConfNak"}
    BY <1>15, Received DEF IpcpConfNakRcvd
  <2>4. Head(s2c) \in Kind("IPCP", {"ConfAck", "ConfNak"})
        /\ (Head(s2c) \in IpAcks \/ ip_configured' = ip_configured)
    BY <2>1, <2>3 DEF Kind, IpAcks
  <2> QED  BY <2>1, <2>2, <2>3, <2>4 DEF AddrShape, TypeOK
<1>16. ASSUME IpcpOtherRcvd PROVE AddrShape
  <2>1. /\ ccp_done' = (ccp_done \/ IpcpEarly)
        /\ ip_configured' = ip_configured /\ local_ip' = local_ip
        /\ NotifyUp(IpcpEarly /\ ReadyForUp(ip_configured, local_ip, TRUE))
    BY <1>16 DEF IpcpOtherRcvd, IpcpPreamble
  <2>2. up_notified' /\ ~up_notified => ip_configured' /\ ccp_done'
    BY <2>1 DEF NotifyUp, ReadyForUp
  <2> QED  BY <2>1, <2>2 DEF AddrShape
<1>17. ASSUME MppeRcvd PROVE AddrShape
  BY <1>17 DEF MppeRcvd, AddrShape, upVars, Dispatch
<1>18. ASSUME IpRcvd PROVE AddrShape
  BY <1>18 DEF IpRcvd, AddrShape, upVars, Dispatch
<1> QED
  BY <1>1, <1>2, <1>3, <1>4, <1>5, <1>6, <1>7, <1>8, <1>9, <1>10, <1>11, <1>12, <1>13, <1>14, <1>15, <1>16, <1>17, <1>18 DEF ClientReceives

\* The client's own steps: starting, completing a frame, sending a packet.
LEMMA OwnShape ==
    ASSUME TypeOK, TxNotStalled, Start \/ SendComplete \/ SendIp
    PROVE  ClientShape /\ AddrShape
<1>1. ASSUME Start PROVE ClientShape /\ AddrShape
  <2>1. ASSUME stream_ok PROVE Says
    <3>1. LcpConfReq \in Frames /\ LcpConfReq \notin Chaps
      BY CtlFrame DEF LcpConfReq, Ctl, Chaps, Kind, Protos, Codes
    <3>2. <<LcpConfReq>> \in Seq(Frames) /\ ~Has(<<LcpConfReq>>, Chaps)
      BY <3>1, HasOne, OneIn
    <3>3. Out' = Out \o <<LcpConfReq>>
      BY <1>1, <2>1, <3>2, TransmitOut DEF Start
    <3> QED  BY <1>1, <3>2, <3>3 DEF Says, Start
  <2> QED  BY <1>1, <2>1 DEF Start, ClientShape, AddrShape, upVars, peerVars
<1>2. ASSUME SendComplete PROVE ClientShape /\ AddrShape
  <2>1. ASSUME stream_ok PROVE Says
    <3>1. Out' = Out
      BY <1>2, <2>1, CompleteOut
    <3>2. Out = Out \o << >> /\ << >> \in Seq(Frames)
      BY OutType, ConcatEmptySeq, NoneIn
    <3>3. Quiet(<< >>)
      BY HasOne DEF Quiet
    <3> QED  BY <3>1, <3>2, <3>3 DEF Says
  <2> QED  BY <1>2, <2>1 DEF SendComplete, ClientShape, AddrShape, clientVars, linkVars, upVars, peerVars
<1>3. ASSUME SendIp PROVE ClientShape /\ AddrShape
  <2>1. ASSUME stream_ok PROVE Says
    <3>1. CASE mppe.enabled
      <4> DEFINE x == MppeFrame(mppe')
      <4>1. Transmit(<<x>>) /\ mppe' = MppeAdvance(mppe)
        BY <1>3, <3>1 DEF SendIp
      <4>2. x \in Frames /\ x.proto = "MPPE"
        <5>1. mppe' \in MppeStates
          BY <1>3, ClientStepType DEF TypeOK
        <5>2. mppe'.scount \in 0 .. CcMod - 1 /\ mppe'.skey \in Keys
          BY <5>1 DEF MppeStates
        <5>3. mppe'.scount \in Nat
          BY <5>2, ConstantsAssumption
        <5> QED  BY <5>2, <5>3 DEF MppeFrame, Frames, Protos, Codes
      <4> HIDE DEF x
      <4>3. <<x>> \in Seq(Frames) /\ Quiet(<<x>>)
        BY <4>2, QuietOne
      <4> QED  BY <2>1, <4>1, <4>3, SaysQuiet
    <3>2. CASE ~mppe.enabled
      <4>1. Transmit(<<IpFrame>>)
        BY <1>3, <3>2 DEF SendIp
      <4>2. <<IpFrame>> \in Seq(Frames) /\ Quiet(<<IpFrame>>)
        BY QuietCtl DEF IpFrame, Codes
      <4> QED  BY <2>1, <4>1, <4>2, SaysQuiet
    <3> QED  BY <3>1, <3>2
  <2> QED  BY <1>3, <2>1 DEF SendIp, ClientShape, AddrShape, linkVars, upVars, peerVars
<1> QED  BY <1>1, <1>2, <1>3

\* The client's steps keep the order of the LCP answers.
LEMMA ClientKeepsLcp ==
    ASSUME TypeOK, BrokenInv, LcpInv, ClientShape
    PROVE  BrokenInv' /\ LcpInv'
<1>1. s2c \in Seq(Frames) /\ lcp_opened \in BOOLEAN
  BY DEF TypeOK
<1>2. /\ stream_ok' = stream_ok /\ p_lcp' = p_lcp /\ (started => started')
  BY DEF ClientShape
<1>3. CASE s2c' = s2c /\ lcp_opened' = lcp_opened
  BY <1>2, <1>3 DEF BrokenInv, LcpInv
<1>4. CASE Receives
  <2> DEFINE h == Head(s2c)
             t == Tail(s2c)
  <2>1. /\ s2c # << >> /\ s2c' = t /\ started /\ stream_ok
        /\ lcp_opened' <=> lcp_opened \/ h \in Acks
    BY <1>4 DEF Receives, BrokenInv
  <2>2. /\ Has(s2c, Acks) <=> h \in Acks \/ Has(t, Acks)
        /\ Has(s2c, Naks) <=> h \in Naks \/ Has(t, Naks)
    BY <1>1, <2>1, HasTail
  <2>3. NoneAfter(t, Acks, Naks) /\ (h \in Acks => ~Has(t, Naks))
    BY <1>1, <2>1, OrderTail DEF LcpInv
  <2>4. ~lcp_opened /\ h \notin Acks => Guarded(t, Acks, Chals)
    BY <1>1, <2>1, GuardTail DEF LcpInv
  <2> HIDE DEF h, t
  <2>5. /\ lcp_opened' => started'
        /\ "tx" \in p_lcp' /\ ~lcp_opened' => Has(t, Acks)
        /\ "tx" \notin p_lcp' /\ "term" \notin p_lcp' => ~lcp_opened' /\ ~Has(t, Acks)
        /\ lcp_opened' => ~Has(t, Naks)
        /\ ~lcp_opened' => Guarded(t, Acks, Chals)
    BY <1>2, <2>1, <2>2, <2>3, <2>4 DEF LcpInv
  <2> QED  BY <1>2, <2>1, <2>3, <2>5 DEF BrokenInv, LcpInv
<1> QED  BY <1>3, <1>4 DEF ClientShape

\* The client sends no LCP request behind a Response.
LEMMA ClientKeepsOut ==
    ASSUME TypeOK, LcpInv, OutInv, ClientShape
    PROVE  OutInv'
<1> SUFFICES ASSUME stream_ok' PROVE OutInv'
  BY DEF OutInv
<1>1. /\ stream_ok /\ p_master' = p_master /\ Says
      /\ lcp_opened => lcp_opened'
  BY DEF ClientShape, Receives
<1>2. PICK fs \in Seq(Frames) :
        /\ Out' = Out \o fs
        /\ \/ Quiet(fs)
           \/ /\ ~Has(fs, Chaps)
              /\ ~lcp_opened \/ ~started \/ (s2c # << >> /\ Head(s2c) \in Naks)
           \/ ~Has(fs, Reqs) /\ s2c # << >> /\ Head(s2c) \in Chals
  BY <1>1 DEF Says
<1>3. Out \in Seq(Frames) /\ s2c \in Seq(Frames)
  BY OutType DEF TypeOK
<1>4. /\ ~lcp_opened => p_master = 0 /\ ~Has(Out, Chaps)
      /\ NoneAfter(Out, Chaps, Reqs)
      /\ p_master # 0 => ~Has(Out, Reqs)
  BY <1>1 DEF OutInv
<1>5. ~Has(fs, Reqs) \/ (~Has(fs, Chaps) /\ ~lcp_opened)
  <2>1. s2c # << >> /\ Head(s2c) \in Naks => ~lcp_opened
    BY <1>3, HasTail DEF LcpInv
  <2>2. ~started => ~lcp_opened
    BY DEF LcpInv
  <2> QED  BY <1>2, <2>1, <2>2 DEF Quiet
<1>6. ~Has(fs, Chaps) \/ lcp_opened
  <2>1. s2c # << >> /\ Head(s2c) \in Chals => lcp_opened
    BY <1>3, GuardTail DEF LcpInv
  <2> QED  BY <1>2, <2>1 DEF Quiet
<1>7. /\ Has(Out \o fs, Chaps) <=> Has(Out, Chaps) \/ Has(fs, Chaps)
      /\ Has(Out \o fs, Reqs) <=> Has(Out, Reqs) \/ Has(fs, Reqs)
  BY <1>3, HasConcat
<1>8. NoneAfter(Out \o fs, Chaps, Reqs)
  BY <1>3, <1>4, <1>5, OrderConcat
<1>9. /\ ~lcp_opened' => p_master' = 0 /\ ~Has(Out', Chaps)
      /\ NoneAfter(Out', Chaps, Reqs)
      /\ p_master' # 0 => ~Has(Out', Reqs)
  BY <1>1, <1>2, <1>4, <1>5, <1>6, <1>7, <1>8
<1> QED  BY <1>9 DEF OutInv

\* The client's steps keep the Success before the IPCP frames.
LEMMA ClientKeepsAuth ==
    ASSUME TypeOK, AuthInv, ClientShape
    PROVE  AuthInv'
<1>1. /\ s2c \in Seq(Frames) /\ stream_ok' = stream_ok
      /\ p_master' = p_master /\ p_await' = p_await
  BY DEF TypeOK, ClientShape
<1>2. CASE s2c' = s2c /\ auth_done' = auth_done
  BY <1>1, <1>2 DEF AuthInv
<1>3. CASE Receives
  <2> DEFINE h == Head(s2c)
             t == Tail(s2c)
  <2>1. /\ s2c # << >> /\ s2c' = t /\ (auth_done' <=> auth_done \/ h \in Succs)
    BY <1>3 DEF Receives
  <2>2. Has(s2c, Succs) <=> h \in Succs \/ Has(t, Succs)
    BY <1>1, <2>1, HasTail
  <2>3. ~auth_done /\ h \notin Succs => Guarded(t, Succs, Ipcps)
    BY <1>1, <2>1, GuardTail DEF AuthInv
  <2> HIDE DEF h, t
  <2>4. /\ stream_ok' /\ p_master' # 0 /\ ~auth_done' => Has(t, Succs)
        /\ ~auth_done' => Guarded(t, Succs, Ipcps)
    BY <1>1, <2>1, <2>2, <2>3 DEF AuthInv
  <2> QED  BY <1>1, <2>1, <2>4 DEF AuthInv
<1> QED  BY <1>2, <1>3 DEF ClientShape

\* An address the client takes is the one the server acknowledged.
LEMMA ClientKeepsAddr ==
    ASSUME TypeOK, AuthInv, AddrInv, ClientShape, AddrShape
    PROVE  AddrInv'
<1>1. /\ s2c \in Seq(Frames) /\ p_ipcp' = p_ipcp /\ p_master' = p_master
      /\ auth_done => auth_done'
  BY DEF TypeOK, ClientShape, Receives
<1>2. ~Has(s2c', IpWrong) /\ (Has(s2c', IpAcks) => Has(s2c, IpAcks))
  <2>1. s2c' = s2c \/ (s2c # << >> /\ s2c' = Tail(s2c))
    BY DEF ClientShape, Receives
  <2>2. ASSUME s2c # << >>
        PROVE  /\ Has(Tail(s2c), IpWrong) => Has(s2c, IpWrong)
               /\ Has(Tail(s2c), IpAcks) => Has(s2c, IpAcks)
    BY <1>1, <2>2, HasTail
  <2> QED  BY <2>1, <2>2 DEF AddrInv
<1>3. up_notified' => ip_configured' /\ ccp_done'
  <2>1. /\ ccp_done => ccp_done'
        /\ up_notified' /\ ~up_notified => ip_configured' /\ ccp_done'
        /\ ip_configured => ip_configured'
    BY DEF AddrShape
  <2> QED  BY <2>1 DEF AddrInv
<1>4. ip_configured' => /\ auth_done' /\ local_ip' = Assigned
                        /\ p_master' # 0 /\ "tx" \in p_ipcp'
  <2>1. CASE local_ip' = local_ip /\ ip_configured' = ip_configured
    BY <1>1, <2>1 DEF AddrInv
  <2>2. CASE /\ s2c # << >> /\ Head(s2c) \in Kind("IPCP", {"ConfAck", "ConfNak"})
             /\ local_ip' = Head(s2c).val
             /\ Head(s2c) \in IpAcks \/ ip_configured' = ip_configured
    <3>1. Head(s2c) \notin IpWrong /\ (Head(s2c) \in IpAcks => Has(s2c, IpAcks))
      BY <1>1, <2>2, HasTail DEF AddrInv
    <3>2. local_ip' = Assigned
      BY <2>2, <3>1 DEF IpWrong
    <3>3. Head(s2c) \in IpAcks => auth_done
      <4>1. Head(s2c) \in IpAcks => Head(s2c) \in Ipcps
        BY DEF IpAcks, Ipcps, Kind, Codes
      <4>2. ~auth_done => Head(s2c) \notin Ipcps
        BY <1>1, <2>2, GuardTail DEF AuthInv
      <4> QED  BY <4>1, <4>2
    <3>4. CASE Head(s2c) \in IpAcks
      BY <1>1, <3>1, <3>2, <3>3, <3>4 DEF AddrInv
    <3>5. CASE ip_configured' = ip_configured
      BY <1>1, <3>2, <3>5 DEF AddrInv
    <3> QED  BY <2>2, <3>4, <3>5
  <2> QED  BY <2>1, <2>2 DEF AddrShape
<1> QED  BY <1>1, <1>2, <1>3, <1>4 DEF AddrInv

\* The same, when the server may have begun anew.
LEMMA ClientKeepsBase ==
    ASSUME TypeOK, BaseInv, ClientShape, AddrShape
    PROVE  BaseInv'
<1>1. /\ s2c \in Seq(Frames) /\ stream_ok' = stream_ok /\ p_master' = p_master
      /\ auth_done => auth_done'
      /\ \/ s2c' = s2c /\ auth_done' = auth_done
         \/ /\ s2c # << >> /\ s2c' = Tail(s2c)
            /\ auth_done' <=> auth_done \/ Head(s2c) \in Succs
  BY DEF TypeOK, ClientShape, Receives
<1>2. ASSUME s2c # << >>
      PROVE  /\ Has(s2c, Succs) <=> Head(s2c) \in Succs \/ Has(Tail(s2c), Succs)
             /\ Has(s2c, IpWrong) <=> Head(s2c) \in IpWrong \/ Has(Tail(s2c), IpWrong)
             /\ ~auth_done => Head(s2c) \notin Ipcps
             /\ ~auth_done /\ Head(s2c) \notin Succs
                   => Guarded(Tail(s2c), Succs, Ipcps)
  BY <1>1, <1>2, HasTail, GuardTail DEF BaseInv
<1>3. /\ stream_ok' /\ p_master' # 0 /\ ~auth_done' => Has(s2c', Succs)
      /\ ~auth_done' => Guarded(s2c', Succs, Ipcps)
      /\ ~Has(s2c', IpWrong)
  BY <1>1, <1>2 DEF BaseInv
<1>4. BrokenInv'
  BY <1>1 DEF BaseInv, BrokenInv
<1>5. up_notified' => ip_configured' /\ ccp_done'
  BY DEF AddrShape, BaseInv
<1>6. ip_configured' => auth_done' /\ local_ip' = Assigned
  <2>1. CASE local_ip' = local_ip /\ ip_configured' = ip_configured
    BY <1>1, <2>1 DEF BaseInv
  <2>2. CASE /\ s2c # << >> /\ Head(s2c) \in Kind("IPCP", {"ConfAck", "ConfNak"})
             /\ local_ip' = Head(s2c).val
             /\ Head(s2c) \in IpAcks \/ ip_configured' = ip_configured
    <3>1. Head(s2c) \notin IpWrong /\ Head(s2c) \in Ipcps
      BY <1>2, <2>2 DEF BaseInv, Ipcps, Kind, Codes
    <3>2. local_ip' = Assigned /\ auth_done
      BY <1>2, <2>2, <3>1 DEF IpWrong
    <3> QED  BY <1>1, <3>2
  <2> QED  BY <2>1, <2>2 DEF AddrShape
<1> QED  BY <1>3, <1>4, <1>5, <1>6 DEF BaseInv

\* Every step of the client keeps the invariant.
LEMMA ClientKeepsUp ==
    ASSUME TypeOK, TxNotStalled, UpInv,
           Start \/ ClientReceives \/ SendComplete \/ SendIp
    PROVE  UpInv'
<1>1. ClientShape /\ AddrShape
  BY ReceivesShape, ReceivesAddr, OwnShape
<1>2. BrokenInv /\ LcpInv /\ OutInv /\ AuthInv /\ AddrInv
  BY DEF UpInv
<1>3. BrokenInv' /\ LcpInv'
  BY <1>1, <1>2, ClientKeepsLcp
<1>4. OutInv'
  BY <1>1, <1>2, ClientKeepsOut
<1>5. AuthInv'
  BY <1>1, <1>2, ClientKeepsAuth
<1>6. AddrInv'
  BY <1>1, <1>2, ClientKeepsAddr
<1> QED  BY <1>3, <1>4, <1>5, <1>6 DEF UpInv

-----------------------------------------------------------------------------
(* What a step of the server does to the order of frames.                  *)

\* The server's Configure-Naks, Configure-Acks and Challenges of LCP and CHAP,
\* and the marks they leave.
LcpMoves(fs) ==
    \/ /\ "tx" \in p_lcp' <=> "tx" \in p_lcp
       /\ "term" \in p_lcp' <=> "term" \in p_lcp
       /\ ~Has(fs, Acks) /\ ~Has(fs, Naks)
       /\ Has(fs, Chals) => "tx" \in p_lcp
    \/ /\ "term" \in p_lcp' /\ "tx" \notin p_lcp'
       /\ ~Has(fs, Acks) /\ ~Has(fs, Naks) /\ ~Has(fs, Chals)
    \/ /\ "tx" \notin p_lcp /\ "term" \notin p_lcp /\ "tx" \notin p_lcp'
       /\ ~Has(fs, Acks) /\ ~Has(fs, Chals)
    \/ "tx" \in p_lcp' /\ Has(fs, Acks) /\ ~Has(fs, Naks) /\ ~Has(fs, Chals)

\* An exchange is accepted with a Response, and given up with an LCP request.
MasterMoves(fs) ==
    \/ p_master' = p_master /\ p_await' = p_await
    \/ p_master' = p_master /\ ~p_await'
    \/ p_master' = p_master /\ p_master = 0
    \/ /\ Out # << >> /\ Out' = Tail(Out) /\ Head(Out) \in Chaps
       /\ p_await /\ ~p_await' /\ Has(fs, Succs)
    \/ p_master' = 0 /\ Out # << >> /\ Head(Out) \in Reqs

\* IPCP answers come after authentication and name the assigned address.
IpcpMoves(fs) ==
    /\ Has(fs, Ipcps) => p_master # 0
    /\ ~Has(fs, IpWrong)
    /\ Has(fs, IpAcks) => /\ p_master # 0 /\ p_master' = p_master
                          /\ "tx" \in p_ipcp'
    /\ "tx" \in p_ipcp => "tx" \in p_ipcp' \/ p_master' = 0

\* A step of the server leaves the client alone but for the frames it takes.
PeerOnly ==
    /\ stream_ok /\ stream_ok' = stream_ok
    /\ UNCHANGED <<started, lcp_opened, auth_done, ccp_done, ip_configured,
                   up_notified, local_ip>>
    /\ Out' = Out \/ (Out # << >> /\ Out' = Tail(Out))

PeerShape ==
    /\ PeerOnly
    /\ \E fs \in Seq(Frames) :
         s2c' = s2c \o fs /\ LcpMoves(fs) /\ MasterMoves(fs) /\ IpcpMoves(fs)

\* The server's steps keep the invariant when they have that shape.
LEMMA PeerKeepsUp ==
    ASSUME TypeOK, UpInv, PeerShape
    PROVE  UpInv'
<1>1. PICK fs \in Seq(Frames) :
        s2c' = s2c \o fs /\ LcpMoves(fs) /\ MasterMoves(fs) /\ IpcpMoves(fs)
  BY DEF PeerShape
<1>2. s2c \in Seq(Frames) /\ Out \in Seq(Frames) /\ stream_ok /\ stream_ok'
  BY OutType DEF TypeOK, PeerShape, PeerOnly
<1>3. /\ started' = started /\ lcp_opened' = lcp_opened /\ auth_done' = auth_done
      /\ ccp_done' = ccp_done /\ ip_configured' = ip_configured
      /\ up_notified' = up_notified /\ local_ip' = local_ip
      /\ Out' = Out \/ (Out # << >> /\ Out' = Tail(Out))
  BY DEF PeerShape, PeerOnly
<1>4. BrokenInv /\ LcpInv /\ OutInv /\ AuthInv /\ AddrInv
  BY DEF UpInv
<1>5. \A A : Has(s2c', A) <=> Has(s2c, A) \/ Has(fs, A)
  BY <1>1, <1>2, HasConcat
<1>6. /\ ~lcp_opened => p_master = 0 /\ ~Has(Out, Chaps)
      /\ NoneAfter(Out, Chaps, Reqs)
      /\ p_master # 0 => ~Has(Out, Reqs)
  BY <1>2, <1>4 DEF OutInv
<1>7. LcpInv'
  <2>1. /\ lcp_opened => started
        /\ "tx" \in p_lcp /\ ~lcp_opened => Has(s2c, Acks)
        /\ "tx" \notin p_lcp /\ "term" \notin p_lcp => ~lcp_opened /\ ~Has(s2c, Acks)
        /\ lcp_opened => ~Has(s2c, Naks)
        /\ NoneAfter(s2c, Acks, Naks)
        /\ ~lcp_opened => Guarded(s2c, Acks, Chals)
    BY <1>2, <1>4 DEF LcpInv
  <2>2. /\ Has(s2c', Acks) <=> Has(s2c, Acks) \/ Has(fs, Acks)
        /\ Has(s2c', Naks) <=> Has(s2c, Naks) \/ Has(fs, Naks)
    BY <1>5
  <2>3. ~Has(fs, Naks) \/ (~Has(s2c, Acks) /\ ~Has(fs, Acks))
    BY <1>1, <2>1 DEF LcpMoves
  <2>4. NoneAfter(s2c', Acks, Naks)
    BY <1>1, <1>2, <2>1, <2>3, OrderConcat
  <2>5. ~lcp_opened => Has(s2c, Acks) \/ ~Has(fs, Chals)
    BY <1>1, <2>1 DEF LcpMoves
  <2>6. ~lcp_opened => Guarded(s2c', Acks, Chals)
    BY <1>1, <1>2, <2>1, <2>5, GuardConcat
  <2>7. /\ "tx" \in p_lcp' /\ ~lcp_opened => Has(s2c', Acks)
        /\ "tx" \notin p_lcp' /\ "term" \notin p_lcp' => ~lcp_opened /\ ~Has(s2c', Acks)
        /\ lcp_opened => ~Has(s2c', Naks)
    BY <1>1, <2>1, <2>2 DEF LcpMoves
  <2> QED  BY <1>3, <2>1, <2>4, <2>6, <2>7 DEF LcpInv
\* an LCP request finds nobody authenticated
<1>8. \/ p_master' = p_master /\ (p_await' => p_await \/ p_master = 0)
      \/ /\ Out # << >> /\ Out' = Tail(Out) /\ Head(Out) \in Chaps
         /\ p_await /\ ~p_await' /\ Has(fs, Succs)
  <2>1. ASSUME p_master' = 0, Out # << >>, Head(Out) \in Reqs
        PROVE  p_master' = p_master /\ p_master = 0
    <3>1. Has(Out, Reqs)
      BY <1>2, <2>1, HasTail
    <3> QED  BY <1>6, <2>1, <3>1
  <2> QED  BY <1>1, <2>1 DEF MasterMoves
<1>9. OutInv'
  <2>1. /\ Has(Out', Chaps) => Has(Out, Chaps)
        /\ Has(Out', Reqs) => Has(Out, Reqs)
        /\ NoneAfter(Out', Chaps, Reqs)
    <3>1. ASSUME Out # << >>
          PROVE  /\ Has(Tail(Out), Chaps) => Has(Out, Chaps)
                 /\ Has(Tail(Out), Reqs) => Has(Out, Reqs)
                 /\ NoneAfter(Tail(Out), Chaps, Reqs)
      BY <1>2, <1>6, <3>1, HasTail, OrderTail
    <3> QED  BY <1>3, <1>6, <3>1
  <2>2. CASE p_master' = p_master
    <3>1. /\ ~lcp_opened' => p_master' = 0 /\ ~Has(Out', Chaps)
          /\ p_master' # 0 => ~Has(Out', Reqs)
      BY <1>3, <1>6, <2>1, <2>2
    <3> QED  BY <2>1, <3>1 DEF OutInv
  <2>3. CASE Out # << >> /\ Out' = Tail(Out) /\ Head(Out) \in Chaps
    <3>1. ~Has(Out', Reqs) /\ Has(Out, Chaps)
      BY <1>2, <1>6, <2>3, OrderTail, HasTail
    <3>2. lcp_opened'
      BY <1>3, <1>6, <3>1
    <3> QED  BY <2>1, <3>1, <3>2 DEF OutInv
  <2> QED  BY <1>8, <2>2, <2>3
<1>10. AuthInv'
  <2>1. /\ p_await => p_master = 0
        /\ p_master # 0 /\ ~auth_done => Has(s2c, Succs)
        /\ ~auth_done => Guarded(s2c, Succs, Ipcps)
    BY <1>2, <1>4 DEF AuthInv
  <2>2. p_await' => p_master' = 0
    BY <1>8, <2>1
  <2>3. Has(s2c', Succs) <=> Has(s2c, Succs) \/ Has(fs, Succs)
    BY <1>5
  <2>4. p_master' # 0 /\ ~auth_done => Has(s2c', Succs)
    BY <1>8, <2>1, <2>3
  <2>5. ~auth_done => Has(s2c, Succs) \/ ~Has(fs, Ipcps)
    BY <1>1, <2>1 DEF IpcpMoves
  <2>6. ~auth_done => Guarded(s2c', Succs, Ipcps)
    BY <1>1, <1>2, <2>1, <2>5, GuardConcat
  <2> QED  BY <1>3, <2>2, <2>4, <2>6 DEF AuthInv
<1>11. AddrInv'
  <2>1. /\ Has(s2c', IpWrong) <=> Has(s2c, IpWrong) \/ Has(fs, IpWrong)
        /\ Has(s2c', IpAcks) <=> Has(s2c, IpAcks) \/ Has(fs, IpAcks)
    BY <1>5
  <2>2. p_master # 0 => p_master' = p_master
    BY <1>4, <1>8 DEF AuthInv
  <2>3. p_master # 0 /\ "tx" \in p_ipcp => "tx" \in p_ipcp'
    BY <1>1, <2>2 DEF IpcpMoves
  <2>4. ~Has(s2c', IpWrong)
    BY <1>1, <1>4, <2>1 DEF IpcpMoves, AddrInv
  <2>5. Has(s2c', IpAcks) => p_master' # 0 /\ "tx" \in p_ipcp'
    BY <1>1, <1>4, <2>1, <2>2, <2>3 DEF IpcpMoves, AddrInv
  <2>6. ip_configured => /\ auth_done /\ local_ip = Assigned
                         /\ p_master' # 0 /\ "tx" \in p_ipcp'
    BY <1>4, <2>2, <2>3 DEF AddrInv
  <2>7. up_notified => ip_configured /\ ccp_done
    BY <1>4 DEF AddrInv
  <2> QED  BY <1>3, <2>4, <2>5, <2>6, <2>7 DEF AddrInv
<1>12. BrokenInv'
  BY <1>2 DEF BrokenInv
<1> QED  BY <1>7, <1>9, <1>10, <1>11, <1>12 DEF UpInv

\* What is left is kept by every step of the server that sends IPCP frames
\* only to an authenticated client, and accepts one with a Success.
LEMMA PeerKeepsBase ==
    ASSUME TypeOK, BaseInv, PeerOnly, NEW fs \in Seq(Frames), s2c' = s2c \o fs,
           Has(fs, Ipcps) => p_master # 0, ~Has(fs, IpWrong),
           p_master' = p_master \/ p_master' = 0 \/ Has(fs, Succs)
    PROVE  BaseInv'
<1>1. s2c \in Seq(Frames) /\ stream_ok /\ stream_ok'
  BY DEF TypeOK, PeerOnly
<1>2. \A A : Has(s2c', A) <=> Has(s2c, A) \/ Has(fs, A)
  BY <1>1, HasConcat
<1>3. ~auth_done => Has(s2c, Succs) \/ ~Has(fs, Ipcps)
  BY <1>1 DEF BaseInv
<1>4. ~auth_done => Guarded(s2c', Succs, Ipcps)
  BY <1>1, <1>3, GuardConcat DEF BaseInv
<1>5. /\ ~Has(s2c', IpWrong)
      /\ p_master' # 0 /\ ~auth_done => Has(s2c', Succs)
  BY <1>1, <1>2 DEF BaseInv
<1> QED  BY <1>1, <1>4, <1>5 DEF BaseInv, BrokenInv, PeerOnly

\* PeerShape is more than that.
LEMMA PeerShapeBase ==
    ASSUME TypeOK, BaseInv, PeerShape
    PROVE  BaseInv'
<1>1. PICK fs \in Seq(Frames) :
        s2c' = s2c \o fs /\ LcpMoves(fs) /\ MasterMoves(fs) /\ IpcpMoves(fs)
  BY DEF PeerShape
<1>2. /\ Has(fs, Ipcps) => p_master # 0
      /\ ~Has(fs, IpWrong)
  BY <1>1 DEF IpcpMoves
<1>3. p_master' = p_master \/ p_master' = 0 \/ Has(fs, Succs)
  BY <1>1 DEF MasterMoves
<1> QED  BY <1>1, <1>2, <1>3, PeerKeepsBase DEF PeerShape

\* Frames of the server the argument does not look at.
Neutral == {f \in Frames : /\ f \notin Acks /\ f \notin Naks
                           /\ f \notin Chals /\ f \notin Ipcps}

\* A run of them has none of the frames it looks at.
LEMMA NeutralHas ==
    ASSUME NEW fs \in Seq(Neutral)
    PROVE  /\ fs \in Seq(Frames)
           /\ ~Has(fs, Acks) /\ ~Has(fs, Naks) /\ ~Has(fs, Chals)
           /\ ~Has(fs, Ipcps) /\ ~Has(fs, IpAcks) /\ ~Has(fs, IpWrong)
<1>1. \A i \in 1 .. Len(fs) : fs[i] \in Neutral
  BY ElementOfSeq
<1>2. Neutral \subseteq Frames
  BY DEF Neutral
<1>3. fs \in Seq(Frames)
  BY <1>2, SeqMonotonic
<1>4. \A f \in Neutral : /\ f \notin Acks /\ f \notin Naks /\ f \notin Chals
                         /\ f \notin Ipcps /\ f \notin IpAcks /\ f \notin IpWrong
  BY DEF Neutral, Ipcps, IpAcks, IpWrong, Kind, Codes
<1> QED  BY <1>1, <1>3, <1>4 DEF Has

\* A control frame of another kind is neutral.
LEMMA NeutralCtl ==
    ASSUME NEW p \in {"LCP", "CHAP", "CCP", "IP"}, NEW c \in Codes, NEW v \in Nat,
           p = "LCP" => c \notin {"ConfAck", "ConfNak", "ConfRej"},
           p = "CHAP" => c # "Challenge"
    PROVE  Ctl(p, c, v) \in Neutral
<1>1. Ctl(p, c, v) \in Frames
  BY CtlFrame DEF Protos
<1>2. Ctl(p, c, v).proto = p /\ Ctl(p, c, v).code = c
  BY DEF Ctl
<1> QED  BY <1>1, <1>2 DEF Neutral, Acks, Naks, Chals, Ipcps, Kind

\* The neutral frames of the server.
LEMMA NeutralFrames ==
    /\ LcpConfReq \in Neutral /\ CcpConfReq \in Neutral /\ IpFrame \in Neutral
    /\ \A c \in Codes : Ctl("CCP", c, 0) \in Neutral
    /\ \A c \in Codes \ {"ConfAck", "ConfNak", "ConfRej"} : Ctl("LCP", c, 0) \in Neutral
    /\ Ctl("CHAP", "Success", 0) \in Neutral /\ Ctl("CHAP", "Failure", 0) \in Neutral
BY NeutralCtl DEF LcpConfReq, CcpConfReq, IpFrame, Codes

\* A request, unless it was sent before, and an answer.
Answer(b, x, y) == (IF b THEN << >> ELSE <<x>>) \o <<y>>

\* What such an answer has.
LEMMA AnswerFrames ==
    ASSUME NEW S, NEW b \in BOOLEAN, NEW x \in S, NEW y \in S
    PROVE  /\ Answer(b, x, y) \in Seq(S)
           /\ \A A : Has(Answer(b, x, y), A) <=> (~b /\ x \in A) \/ y \in A
<1> DEFINE r == IF b THEN << >> ELSE <<x>>
           a == <<y>>
<1>1. r \in Seq(S) /\ a \in Seq(S)
  BY OneIn, NoneIn
<1>2. \A A : /\ Has(a, A) <=> y \in A
             /\ Has(r, A) <=> ~b /\ x \in A
  BY HasOne
<1>3. Answer(b, x, y) = r \o a
  BY DEF Answer
<1> HIDE DEF r, a
<1>4. r \o a \in Seq(S) /\ \A A : Has(r \o a, A) <=> Has(r, A) \/ Has(a, A)
  BY <1>1, ConcatProperties, HasConcat
<1> QED  BY <1>2, <1>3, <1>4

\* How it goes behind the frames under way.
LEMMA AnswerBehind ==
    ASSUME NEW s \in Seq(Frames), NEW b \in BOOLEAN, NEW x \in Frames, NEW y \in Frames
    PROVE  s \o (IF b THEN << >> ELSE <<x>>) \o <<y>> = s \o Answer(b, x, y)
<1> DEFINE r == IF b THEN << >> ELSE <<x>>
           a == <<y>>
<1>1. r \in Seq(Frames) /\ a \in Seq(Frames)
  BY OneIn, NoneIn
<1>2. Answer(b, x, y) = r \o a
  BY DEF Answer
<1> HIDE DEF r, a
<1>3. (s \o r) \o a = s \o (r \o a)
  BY <1>1, Regroup
<1> QED  BY <1>2, <1>3 DEF r, a

\* A step of the server that sends on its own.
LEMMA SendsOnly ==
    ASSUME stream_ok, UNCHANGED <<clientVars, txVars, stream_ok>>
    PROVE  PeerOnly /\ Out' = Out
<1>1. Out' = Out
  BY DEF txVars, Out, Held
<1> QED  BY <1>1 DEF PeerOnly, clientVars, linkVars, upVars

\* A step of the server that takes a frame.
LEMMA TakesOnly ==
    ASSUME TypeOK, NEW ps, PeerTakes(ps)
    PROVE  /\ PeerOnly /\ Out # << >> /\ Out' = Tail(Out) /\ Head(Out) = Head(c2s)
           /\ Head(Out) \in Frames /\ Head(Out).proto \in ps /\ stream_ok
<1>1. Out # << >> /\ Head(Out) = Head(c2s) /\ Out' = Tail(Out)
  BY TakesOut
<1>2. Head(c2s) \in Frames /\ Head(c2s).proto \in ps
  BY PeerTakesType
<1>3. /\ stream_ok /\ stream_ok' = stream_ok
      /\ UNCHANGED <<started, lcp_opened, auth_done, ccp_done, ip_configured,
                     up_notified, local_ip>>
  BY DEF PeerTakes, clientVars, linkVars, upVars
<1> QED  BY <1>1, <1>2, <1>3 DEF PeerOnly

\* Most steps leave the negotiation of LCP, CHAP and IPCP where it was.
LEMMA CalmShape ==
    ASSUME PeerOnly, NEW fs \in Seq(Neutral), s2c' = s2c \o fs,
           "tx" \in p_lcp' <=> "tx" \in p_lcp,
           "term" \in p_lcp' <=> "term" \in p_lcp,
           p_master' = p_master, p_await' = p_await \/ ~p_await',
           p_ipcp \subseteq p_ipcp'
    PROVE  PeerShape
<1>1. /\ fs \in Seq(Frames)
      /\ ~Has(fs, Acks) /\ ~Has(fs, Naks) /\ ~Has(fs, Chals)
      /\ ~Has(fs, Ipcps) /\ ~Has(fs, IpAcks) /\ ~Has(fs, IpWrong)
  BY NeutralHas
<1>2. LcpMoves(fs)
  BY <1>1 DEF LcpMoves
<1>3. MasterMoves(fs)
  BY DEF MasterMoves
<1>4. IpcpMoves(fs)
  BY <1>1 DEF IpcpMoves
<1> QED  BY <1>1, <1>2, <1>3, <1>4 DEF PeerShape

\* What the server sends on its own.
LEMMA PeerSendsShape ==
    ASSUME TypeOK, TxNotStalled,
           \/ PeerOpens \/ PeerCcpRepeat \/ PeerEcho \/ PeerTerminate
           \/ PeerSendIp
    PROVE  PeerShape
<1> USE DEF Codes
<1>1. ASSUME PeerLcpOpen PROVE PeerShape
  <2>1. PeerOnly /\ s2c' = s2c \o <<LcpConfReq>>
    BY <1>1, SendsOnly DEF PeerLcpOpen, PeerSends
  <2>2. <<LcpConfReq>> \in Seq(Neutral)
    BY NeutralFrames, OneIn
  <2>3. /\ "tx" \in p_lcp' <=> "tx" \in p_lcp
        /\ "term" \in p_lcp' <=> "term" \in p_lcp
        /\ p_master' = p_master /\ p_await' = p_await /\ p_ipcp' = p_ipcp
    BY <1>1 DEF PeerLcpOpen, peerVars
  <2> QED  BY <2>1, <2>2, <2>3, CalmShape
<1>2. ASSUME PeerCcpOpen PROVE PeerShape
  <2>1. PeerOnly /\ s2c' = s2c \o <<CcpConfReq>>
    BY <1>2, SendsOnly DEF PeerCcpOpen, PeerSends
  <2>2. <<CcpConfReq>> \in Seq(Neutral)
    BY NeutralFrames, OneIn
  <2>3. /\ "tx" \in p_lcp' <=> "tx" \in p_lcp
        /\ "term" \in p_lcp' <=> "term" \in p_lcp
        /\ p_master' = p_master /\ p_await' = p_await /\ p_ipcp' = p_ipcp
    BY <1>2 DEF PeerCcpOpen, peerVars
  <2> QED  BY <2>1, <2>2, <2>3, CalmShape
<1>3. ASSUME PeerCcpRepeat PROVE PeerShape
  <2>1. PeerOnly /\ s2c' = s2c \o <<CcpConfReq>>
    BY <1>3, SendsOnly DEF PeerCcpRepeat, PeerSends
  <2>2. <<CcpConfReq>> \in Seq(Neutral)
    BY NeutralFrames, OneIn
  <2>3. /\ "tx" \in p_lcp' <=> "tx" \in p_lcp
        /\ "term" \in p_lcp' <=> "term" \in p_lcp
        /\ p_master' = p_master /\ p_await' = p_await /\ p_ipcp' = p_ipcp
    BY <1>3 DEF PeerCcpRepeat, peerVars
  <2> QED  BY <2>1, <2>2, <2>3, CalmShape
<1>4. ASSUME PeerEcho PROVE PeerShape
  <2>1. PeerOnly /\ s2c' = s2c \o <<Ctl("LCP", "EchoReq", 0)>>
    BY <1>4, SendsOnly DEF PeerEcho, PeerSends
  <2>2. <<Ctl("LCP", "EchoReq", 0)>> \in Seq(Neutral)
    BY NeutralFrames, OneIn
  <2>3. /\ "tx" \in p_lcp' <=> "tx" \in p_lcp
        /\ "term" \in p_lcp' <=> "term" \in p_lcp
        /\ p_master' = p_master /\ p_await' = p_await /\ p_ipcp' = p_ipcp
    BY <1>4 DEF PeerEcho, peerVars
  <2> QED  BY <2>1, <2>2, <2>3, CalmShape
<1>5. ASSUME PeerTerminate PROVE PeerShape
  <2> DEFINE fs == <<Ctl("LCP", "TermReq", 0)>>
  <2>1. PeerOnly /\ s2c' = s2c \o fs
    BY <1>5, SendsOnly DEF PeerTerminate, PeerSends
  <2>2. fs \in Seq(Neutral)
    BY NeutralFrames, OneIn
  <2>3. /\ p_lcp' = {"term"} /\ p_master' = p_master /\ p_await' = p_await
        /\ p_ipcp' = p_ipcp
    BY <1>5 DEF PeerTerminate
  <2> HIDE DEF fs
  <2>4. /\ fs \in Seq(Frames)
        /\ ~Has(fs, Acks) /\ ~Has(fs, Naks) /\ ~Has(fs, Chals)
        /\ ~Has(fs, Ipcps) /\ ~Has(fs, IpAcks) /\ ~Has(fs, IpWrong)
    BY <2>2, NeutralHas
  <2>5. LcpMoves(fs)
    BY <2>3, <2>4 DEF LcpMoves
  <2>6. MasterMoves(fs) /\ IpcpMoves(fs)
    BY <2>3, <2>4 DEF MasterMoves, IpcpMoves
  <2> QED  BY <2>1, <2>4, <2>5, <2>6 DEF PeerShape
<1>6. ASSUME PeerSendIp PROVE PeerShape
  <2>1. PICK x \in {MppeFrame(p_mppe'), IpFrame} : PeerSends(<<x>>)
    BY <1>6 DEF PeerSendIp
  <2>2. PeerOnly /\ s2c' = s2c \o <<x>>
    BY <1>6, <2>1, SendsOnly DEF PeerSendIp, PeerSends
  <2>3. x \in Neutral
    <3>1. p_mppe' \in MppeStates
      BY <1>6, PeerStepType DEF TypeOK
    <3>2. p_mppe'.scount \in 0 .. CcMod - 1 /\ p_mppe'.skey \in Keys
      BY <3>1 DEF MppeStates
    <3>3. p_mppe'.scount \in Nat
      BY <3>2, ConstantsAssumption
    <3>4. MppeFrame(p_mppe') \in Frames /\ MppeFrame(p_mppe').proto = "MPPE"
      BY <3>2, <3>3 DEF MppeFrame, Frames, Protos
    <3>5. MppeFrame(p_mppe') \in Neutral
      BY <3>4 DEF Neutral, Acks, Naks, Chals, Ipcps, Kind
    <3> QED  BY <2>1, <3>5, NeutralFrames
  <2>4. <<x>> \in Seq(Neutral)
    BY <2>3, OneIn
  <2>5. p_lcp' = p_lcp /\ p_master' = p_master /\ p_await' = p_await /\ p_ipcp' = p_ipcp
    BY <1>6 DEF PeerSendIp
  <2> QED  BY <2>2, <2>4, <2>5, CalmShape
<1>7. ASSUME PeerChallenge PROVE PeerShape
  <2> DEFINE x == Ctl("CHAP", "Challenge", p_chal + 1)
             fs == <<x>>
  <2>1. PeerOnly /\ s2c' = s2c \o fs
    BY <1>7, SendsOnly DEF PeerChallenge, PeerSends
  <2>2. p_chal + 1 \in Nat
    BY DEF TypeOK
  <2>3. x \in Frames /\ x.proto = "CHAP"
    BY <2>2, CtlFrame DEF Ctl, Protos
  <2>4. /\ "tx" \in p_lcp /\ p_lcp' = p_lcp /\ p_master = 0 /\ p_master' = p_master
        /\ p_ipcp' = p_ipcp
    BY <1>7 DEF PeerChallenge, Opened
  <2> HIDE DEF x
  <2>5. x \notin Acks /\ x \notin Naks /\ x \notin Ipcps /\ x \notin IpAcks /\ x \notin IpWrong
    BY <2>3 DEF Acks, Naks, Ipcps, IpAcks, IpWrong, Kind
  <2>6. /\ fs \in Seq(Frames) /\ ~Has(fs, Acks) /\ ~Has(fs, Naks)
        /\ ~Has(fs, Ipcps) /\ ~Has(fs, IpAcks) /\ ~Has(fs, IpWrong)
    BY <2>3, <2>5, HasOne, OneIn
  <2> HIDE DEF fs
  <2>7. LcpMoves(fs)
    BY <2>4, <2>6 DEF LcpMoves
  <2>8. MasterMoves(fs) /\ IpcpMoves(fs)
    BY <2>4, <2>6 DEF MasterMoves, IpcpMoves
  <2> QED  BY <2>1, <2>6, <2>7, <2>8 DEF PeerShape
<1>8. ASSUME PeerIpcpOpen PROVE PeerShape
  <2> DEFINE x == IpcpConfReq(PeerAddr)
             fs == <<x>>
  <2>1. PeerOnly /\ s2c' = s2c \o fs
    BY <1>8, SendsOnly DEF PeerIpcpOpen, PeerSends
  <2>2. x \in Frames /\ x.proto = "IPCP" /\ x.code = "ConfReq"
    BY PeerFrames DEF IpcpConfReq, Ctl
  <2>3. /\ p_lcp' = p_lcp /\ p_master # 0 /\ p_master' = p_master /\ p_await' = p_await
        /\ p_ipcp = {}
    BY <1>8 DEF PeerIpcpOpen
  <2> HIDE DEF x
  <2>4. /\ x \notin Acks /\ x \notin Naks /\ x \notin Chals
        /\ x \notin IpAcks /\ x \notin IpWrong
    BY <2>2 DEF Acks, Naks, Chals, IpAcks, IpWrong, Kind
  <2>5. /\ fs \in Seq(Frames) /\ ~Has(fs, Acks) /\ ~Has(fs, Naks) /\ ~Has(fs, Chals)
        /\ ~Has(fs, IpAcks) /\ ~Has(fs, IpWrong)
    BY <2>2, <2>4, HasOne, OneIn
  <2> HIDE DEF fs
  <2>6. LcpMoves(fs)
    BY <2>3, <2>5 DEF LcpMoves
  <2>7. MasterMoves(fs) /\ IpcpMoves(fs)
    BY <2>3, <2>5 DEF MasterMoves, IpcpMoves
  <2> QED  BY <2>1, <2>5, <2>6, <2>7 DEF PeerShape
<1> QED
  BY <1>1, <1>2, <1>3, <1>4, <1>5, <1>6, <1>7, <1>8 DEF PeerOpens

\* An LCP request of the client: the server naks it only before it has
\* acknowledged one, and renegotiates when the link was open.
LEMMA PeerLcpConfReqShape ==
    ASSUME TypeOK, PeerLcpConfReq
    PROVE  PeerShape
<1>1. /\ PeerOnly /\ Out # << >> /\ Out' = Tail(Out) /\ Head(Out) = Head(c2s)
      /\ Head(Out) \in Frames /\ Head(Out).proto = "LCP" /\ Head(c2s).code = "ConfReq"
      /\ "term" \notin p_lcp
  BY TakesOnly DEF PeerLcpConfReq
<1>2. Head(Out) \in Reqs
  BY <1>1 DEF Reqs, Kind
<1>3. s2c \in Seq(Frames)
  BY DEF TypeOK
<1>4. LcpConfReq \in Frames /\ LcpConfReq.proto = "LCP" /\ LcpConfReq.code = "ConfReq"
  BY PeerFrames DEF LcpConfReq, Ctl
<1>5. CASE /\ "tx" \notin p_lcp
           /\ s2c' = s2c \o (IF "req" \in p_lcp THEN << >> ELSE <<LcpConfReq>>)
                         \o <<Ctl("LCP", "ConfNak", 0)>>
           /\ p_lcp' = p_lcp \cup {"req"}
           /\ UNCHANGED <<p_await, p_master, p_ccp, p_ipcp>>
  <2> DEFINE b == "req" \in p_lcp
             y == Ctl("LCP", "ConfNak", 0)
             fs == Answer(b, LcpConfReq, y)
  <2>1. y \in Frames /\ y.proto = "LCP" /\ y.code = "ConfNak" /\ b \in BOOLEAN
    BY PeerFrames DEF Ctl, Codes
  <2>2. s2c' = s2c \o (IF b THEN << >> ELSE <<LcpConfReq>>) \o <<y>>
    BY <1>5
  <2> HIDE DEF b, y
  <2>3. s2c' = s2c \o fs
    BY <1>3, <1>4, <2>1, <2>2, AnswerBehind
  <2>4. /\ fs \in Seq(Frames)
        /\ \A A : Has(fs, A) <=> (~b /\ LcpConfReq \in A) \/ y \in A
    BY <1>4, <2>1, AnswerFrames
  <2>5. /\ y \notin Acks /\ y \notin Chals /\ y \notin Ipcps /\ y \notin IpAcks /\ y \notin IpWrong
        /\ LcpConfReq \notin Acks /\ LcpConfReq \notin Chals /\ LcpConfReq \notin Ipcps
        /\ LcpConfReq \notin IpAcks /\ LcpConfReq \notin IpWrong
    BY <1>4, <2>1 DEF Acks, Chals, Ipcps, IpAcks, IpWrong, Kind
  <2> HIDE DEF fs
  <2>6. /\ ~Has(fs, Acks) /\ ~Has(fs, Chals) /\ ~Has(fs, Ipcps)
        /\ ~Has(fs, IpAcks) /\ ~Has(fs, IpWrong)
    BY <2>4, <2>5
  <2>7. LcpMoves(fs)
    BY <1>1, <1>5, <2>6 DEF LcpMoves
  <2>8. MasterMoves(fs) /\ IpcpMoves(fs)
    BY <1>5, <2>6 DEF MasterMoves, IpcpMoves
  <2> QED  BY <1>1, <2>3, <2>4, <2>7, <2>8 DEF PeerShape
<1>6. CASE /\ s2c' = s2c \o (IF "req" \in p_lcp /\ ~Opened(p_lcp)
                               THEN << >> ELSE <<LcpConfReq>>)
                         \o <<Ctl("LCP", "ConfAck", 0)>>
           /\ p_lcp' = IF Opened(p_lcp) THEN {"req", "tx"}
                                        ELSE p_lcp \cup {"req", "tx"}
           /\ IF Opened(p_lcp)
                THEN /\ p_await' = FALSE /\ p_master' = 0
                     /\ p_ccp' = {} /\ p_ipcp' = {}
                ELSE UNCHANGED <<p_await, p_master, p_ccp, p_ipcp>>
  <2> DEFINE b == "req" \in p_lcp /\ ~Opened(p_lcp)
             y == Ctl("LCP", "ConfAck", 0)
             fs == Answer(b, LcpConfReq, y)
  <2>1. y \in Frames /\ y.proto = "LCP" /\ y.code = "ConfAck" /\ b \in BOOLEAN
    BY PeerFrames DEF Ctl, Codes
  <2>2. s2c' = s2c \o (IF b THEN << >> ELSE <<LcpConfReq>>) \o <<y>>
    BY <1>6
  <2> HIDE DEF b, y
  <2>3. s2c' = s2c \o fs
    BY <1>3, <1>4, <2>1, <2>2, AnswerBehind
  <2>4. /\ fs \in Seq(Frames)
        /\ \A A : Has(fs, A) <=> (~b /\ LcpConfReq \in A) \/ y \in A
    BY <1>4, <2>1, AnswerFrames
  <2>5. /\ y \in Acks /\ y \notin Naks /\ y \notin Chals
        /\ y \notin Ipcps /\ y \notin IpAcks /\ y \notin IpWrong
        /\ LcpConfReq \notin Naks /\ LcpConfReq \notin Chals /\ LcpConfReq \notin Ipcps
        /\ LcpConfReq \notin IpAcks /\ LcpConfReq \notin IpWrong
    BY <1>4, <2>1 DEF Acks, Naks, Chals, Ipcps, IpAcks, IpWrong, Kind
  <2> HIDE DEF fs
  <2>6. /\ Has(fs, Acks) /\ ~Has(fs, Naks) /\ ~Has(fs, Chals)
        /\ ~Has(fs, Ipcps) /\ ~Has(fs, IpAcks) /\ ~Has(fs, IpWrong)
    BY <2>4, <2>5
  <2>7. LcpMoves(fs)
    BY <1>6, <2>6 DEF LcpMoves
  <2>8. \/ p_master' = 0
        \/ p_master' = p_master /\ p_await' = p_await /\ p_ipcp' = p_ipcp
    BY <1>6
  <2>9. MasterMoves(fs) /\ IpcpMoves(fs)
    BY <1>1, <1>2, <2>6, <2>8 DEF MasterMoves, IpcpMoves
  <2> QED  BY <1>1, <2>3, <2>4, <2>7, <2>9 DEF PeerShape
<1> QED  BY <1>5, <1>6 DEF PeerLcpConfReq

\* The server judges the answer to its current Challenge.
LEMMA PeerChapShape ==
    ASSUME TypeOK, AuthInv, PeerChap
    PROVE  PeerShape
<1>1. /\ PeerOnly /\ Out # << >> /\ Out' = Tail(Out)
      /\ Head(Out) \in Frames /\ Head(Out).proto = "CHAP"
  BY TakesOnly DEF PeerChap
<1>2. s2c \in Seq(Frames) /\ Head(Out) \in Chaps
  BY <1>1 DEF TypeOK, Chaps, Kind, Frames
<1>3. p_lcp' = p_lcp /\ p_ipcp' = p_ipcp
  BY DEF PeerChap
<1>4. CASE s2c' = s2c /\ p_await' = p_await /\ p_master' = p_master
  <2>1. s2c' = s2c \o << >> /\ << >> \in Seq(Neutral)
    BY <1>2, <1>4, ConcatEmptySeq, NoneIn
  <2> QED  BY <1>1, <1>3, <1>4, <2>1, CalmShape
<1>5. CASE /\ ~p_await' /\ p_master' = p_master
           /\ s2c' = Append(s2c, Ctl("CHAP", "Failure", 0))
  <2> DEFINE y == Ctl("CHAP", "Failure", 0)
  <2>1. y \in Neutral /\ y \in Frames /\ s2c' = Append(s2c, y)
    BY <1>5, NeutralFrames DEF Neutral
  <2> HIDE DEF y
  <2>2. s2c' = s2c \o <<y>> /\ <<y>> \in Seq(Neutral)
    BY <1>2, <2>1, AppendIsConcat, OneIn
  <2> QED  BY <1>1, <1>3, <1>5, <2>2, CalmShape
<1>6. CASE /\ p_await /\ ~p_await'
           /\ s2c' = Append(s2c, Ctl("CHAP", "Success", 0))
  <2> DEFINE y == Ctl("CHAP", "Success", 0)
             fs == <<y>>
  <2>1. y \in Neutral /\ y \in Frames /\ s2c' = Append(s2c, y) /\ y \in Succs
    BY <1>6, NeutralFrames DEF Neutral, Succs, Kind, Ctl
  <2> HIDE DEF y
  <2>2. s2c' = s2c \o fs /\ fs \in Seq(Neutral) /\ Has(fs, Succs)
    BY <1>2, <2>1, AppendIsConcat, OneIn, HasOne
  <2> HIDE DEF fs
  <2>3. /\ fs \in Seq(Frames)
        /\ ~Has(fs, Acks) /\ ~Has(fs, Naks) /\ ~Has(fs, Chals)
        /\ ~Has(fs, Ipcps) /\ ~Has(fs, IpAcks) /\ ~Has(fs, IpWrong)
    BY <2>2, NeutralHas
  <2>4. LcpMoves(fs)
    BY <1>3, <2>3 DEF LcpMoves
  <2>5. MasterMoves(fs) /\ IpcpMoves(fs)
    BY <1>1, <1>2, <1>3, <1>6, <2>2, <2>3 DEF MasterMoves, IpcpMoves
  <2> QED  BY <1>1, <2>2, <2>3, <2>4, <2>5 DEF PeerShape
<1>7. \/ s2c' = s2c /\ p_await' = p_await /\ p_master' = p_master
      \/ /\ ~p_await' /\ p_master' = p_master
         /\ s2c' = Append(s2c, Ctl("CHAP", "Failure", 0))
      \/ /\ p_await /\ ~p_await'
         /\ s2c' = Append(s2c, Ctl("CHAP", "Success", 0))
  BY DEF PeerChap, AuthInv
<1> QED  BY <1>4, <1>5, <1>6, <1>7

\* Whatever came before, the server accepts a client with a Success only.
LEMMA PeerChapBase ==
    ASSUME TypeOK, BaseInv, PeerChap
    PROVE  BaseInv'
<1>1. PeerOnly /\ s2c \in Seq(Frames)
  BY TakesOnly DEF PeerChap, TypeOK
<1>2. /\ Ctl("CHAP", "Success", 0) \in Neutral /\ Ctl("CHAP", "Failure", 0) \in Neutral
      /\ Ctl("CHAP", "Success", 0) \in Succs /\ Neutral \subseteq Frames
  BY NeutralFrames DEF Neutral, Succs, Kind, Ctl
<1>3. ASSUME NEW fs \in Seq(Neutral), s2c' = s2c \o fs,
             p_master' = p_master \/ p_master' = 0 \/ Has(fs, Succs)
      PROVE  BaseInv'
  <2>1. fs \in Seq(Frames) /\ ~Has(fs, Ipcps) /\ ~Has(fs, IpWrong)
    BY NeutralHas
  <2> QED  BY <1>1, <1>3, <2>1, PeerKeepsBase
<1>4. CASE s2c' = s2c /\ p_master' = p_master
  <2>1. s2c' = s2c \o << >> /\ << >> \in Seq(Neutral)
    BY <1>1, <1>4, ConcatEmptySeq, NoneIn
  <2> QED  BY <1>3, <1>4, <2>1
<1>5. ASSUME NEW y \in Neutral, s2c' = Append(s2c, y), p_master' = 0 \/ y \in Succs
      PROVE  BaseInv'
  <2>1. s2c' = s2c \o <<y>> /\ <<y>> \in Seq(Neutral)
    BY <1>1, <1>2, <1>5, AppendIsConcat, OneIn
  <2>2. p_master' = 0 \/ Has(<<y>>, Succs)
    BY <1>5, HasOne
  <2> QED  BY <1>3, <2>1, <2>2
<1>6. \/ s2c' = s2c /\ p_master' = p_master
      \/ s2c' = Append(s2c, Ctl("CHAP", "Success", 0))
      \/ s2c' = Append(s2c, Ctl("CHAP", "Failure", 0)) /\ p_master' = 0
  BY DEF PeerChap
<1> QED  BY <1>2, <1>4, <1>5, <1>6

\* Neither a renegotiation of LCP nor a late Challenge, nor a refused frame
\* takes away what is left.
LEMMA UpsetBase ==
    ASSUME TypeOK, BaseInv, SendRefused \/ PeerLcpReopen \/ PeerRechallenge
    PROVE  BaseInv'
<1>1. CASE SendRefused
  BY <1>1 DEF SendRefused, BaseInv, BrokenInv, clientVars, upVars, peerVars
<1>2. CASE PeerLcpReopen
  <2>1. PeerOnly /\ s2c' = s2c \o <<LcpConfReq>> /\ p_master' = 0
    BY <1>2, SendsOnly DEF PeerLcpReopen, PeerSends
  <2>2. <<LcpConfReq>> \in Seq(Neutral)
    BY NeutralFrames, OneIn
  <2> HIDE DEF LcpConfReq
  <2>3. /\ <<LcpConfReq>> \in Seq(Frames)
        /\ ~Has(<<LcpConfReq>>, Ipcps) /\ ~Has(<<LcpConfReq>>, IpWrong)
    BY <2>2, NeutralHas
  <2> QED  BY <2>1, <2>3, PeerKeepsBase
<1>3. CASE PeerRechallenge
  <2> DEFINE x == Ctl("CHAP", "Challenge", p_chal + 1)
  <2>1. PeerOnly /\ s2c' = s2c \o <<x>> /\ p_master' = p_master
    BY <1>3, SendsOnly DEF PeerRechallenge, PeerSends
  <2>2. x \in Frames /\ x.proto = "CHAP"
    BY CtlFrame DEF TypeOK, Ctl, Protos, Codes
  <2> HIDE DEF x
  <2>3. x \notin Ipcps /\ x \notin IpWrong
    BY <2>2 DEF Ipcps, IpWrong, Kind
  <2>4. /\ <<x>> \in Seq(Frames)
        /\ ~Has(<<x>>, Ipcps) /\ ~Has(<<x>>, IpWrong)
    BY <2>2, <2>3, HasOne, OneIn
  <2> QED  BY <2>1, <2>4, PeerKeepsBase
<1> QED  BY <1>1, <1>2, <1>3

\* The server answers CCP without touching LCP, CHAP or IPCP.
LEMMA PeerCcpShape ==
    ASSUME TypeOK, PeerCcp
    PROVE  PeerShape
<1>1. PeerOnly /\ s2c \in Seq(Frames)
  BY TakesOnly DEF PeerCcp, TypeOK
<1>2. /\ p_lcp' = p_lcp /\ p_ipcp' = p_ipcp /\ p_await' = p_await
      /\ p_master' = p_master
  BY DEF PeerCcp
<1> DEFINE b == "req" \in p_ccp /\ ~Opened(p_ccp)
           Ans(y) == s2c' = s2c \o (IF b THEN << >> ELSE <<CcpConfReq>>) \o <<y>>
<1>3. \/ s2c' = s2c
      \/ Ans(Ctl("CCP", "ConfAck", 0)) \/ Ans(Ctl("CCP", "ConfNak", 0))
      \/ s2c' = Append(s2c, Ctl("CCP", "ConfRej", 0))
      \/ s2c' = Append(s2c, Ctl("LCP", "ProtRej", 0))
  BY DEF PeerCcp
<1>4. /\ CcpConfReq \in Neutral /\ Ctl("CCP", "ConfAck", 0) \in Neutral
      /\ Ctl("CCP", "ConfNak", 0) \in Neutral /\ Ctl("CCP", "ConfRej", 0) \in Neutral
      /\ Ctl("LCP", "ProtRej", 0) \in Neutral /\ Neutral \subseteq Frames
  BY NeutralFrames DEF Codes, Neutral
<1>5. CASE s2c' = s2c
  <2>1. s2c' = s2c \o << >> /\ << >> \in Seq(Neutral)
    BY <1>1, <1>5, ConcatEmptySeq, NoneIn
  <2> QED  BY <1>1, <1>2, <2>1, CalmShape
<1>6. ASSUME NEW y \in Neutral, s2c' = Append(s2c, y) PROVE PeerShape
  <2>1. s2c' = s2c \o <<y>> /\ <<y>> \in Seq(Neutral)
    BY <1>1, <1>4, <1>6, AppendIsConcat, OneIn
  <2> QED  BY <1>1, <1>2, <2>1, CalmShape
<1>7. ASSUME NEW y \in Neutral, Ans(y) PROVE PeerShape
  <2> DEFINE fs == Answer(b, CcpConfReq, y)
  <2>1. b \in BOOLEAN /\ y \in Frames /\ CcpConfReq \in Frames
    BY <1>4, <1>7
  <2>2. s2c' = s2c \o (IF b THEN << >> ELSE <<CcpConfReq>>) \o <<y>>
    BY <1>7
  <2> HIDE DEF b
  <2>3. s2c' = s2c \o fs
    BY <1>1, <2>1, <2>2, AnswerBehind
  <2>4. fs \in Seq(Neutral)
    BY <1>4, <1>7, <2>1, AnswerFrames
  <2> HIDE DEF fs
  <2> QED  BY <1>1, <1>2, <2>3, <2>4, CalmShape
<1> HIDE DEF Ans
<1> QED  BY <1>3, <1>4, <1>5, <1>6, <1>7

\* The server's other steps on a frame of the client.
LEMMA PeerOtherShape ==
    ASSUME TypeOK, PeerLcpOther \/ PeerData
    PROVE  PeerShape
<1>1. PeerOnly /\ s2c \in Seq(Frames)
  BY TakesOnly DEF PeerLcpOther, PeerData, TypeOK
<1>2. /\ "tx" \in p_lcp' <=> "tx" \in p_lcp
      /\ "term" \in p_lcp' <=> "term" \in p_lcp
      /\ p_ipcp' = p_ipcp /\ p_await' = p_await /\ p_master' = p_master
      /\ s2c' = s2c
  BY DEF PeerLcpOther, PeerData
<1>3. s2c' = s2c \o << >> /\ << >> \in Seq(Neutral)
  BY <1>1, <1>2, ConcatEmptySeq, NoneIn
<1> QED  BY <1>1, <1>2, <1>3, CalmShape

\* The server answers IPCP once the client is authenticated, and acknowledges
\* no address but the assigned one.
LEMMA PeerIpcpShape ==
    ASSUME TypeOK, PeerIpcp
    PROVE  PeerShape
<1>1. PeerOnly /\ s2c \in Seq(Frames)
  BY TakesOnly DEF PeerIpcp, TypeOK
<1>2. /\ p_lcp' = p_lcp /\ p_await' = p_await /\ p_master' = p_master
  BY DEF PeerIpcp
<1> DEFINE b == "req" \in p_ipcp
           Ans(y) == s2c' = s2c \o (IF b THEN << >> ELSE <<IpcpConfReq(PeerAddr)>>) \o <<y>>
<1>3. CASE ~Opened(p_lcp) \/ p_master = 0
  <2>1. s2c' = s2c /\ p_ipcp' = p_ipcp
    BY <1>3 DEF PeerIpcp
  <2>2. s2c' = s2c \o << >> /\ << >> \in Seq(Neutral)
    BY <1>1, <2>1, ConcatEmptySeq, NoneIn
  <2> QED  BY <1>1, <1>2, <2>1, <2>2, CalmShape
<1>4. CASE s2c' = s2c /\ p_ipcp' = p_ipcp \cup {"rx"}
  <2>1. s2c' = s2c \o << >> /\ << >> \in Seq(Neutral)
    BY <1>1, <1>4, ConcatEmptySeq, NoneIn
  <2> QED  BY <1>1, <1>2, <1>4, <2>1, CalmShape
<1>5. ASSUME NEW c \in {"ConfRej", "ConfAck", "ConfNak"}, NEW v \in Nat,
             Ans(Ctl("IPCP", c, v)), p_master # 0, p_ipcp \subseteq p_ipcp',
             c # "ConfRej" => v = Assigned,
             c = "ConfAck" => "tx" \in p_ipcp'
      PROVE  PeerShape
  <2> DEFINE x == IpcpConfReq(PeerAddr)
             y == Ctl("IPCP", c, v)
             fs == Answer(b, x, y)
  <2>1. /\ b \in BOOLEAN /\ x \in Frames /\ x.proto = "IPCP" /\ x.code = "ConfReq"
        /\ y.proto = "IPCP" /\ y.code = c /\ y.val = v
    BY PeerFrames DEF IpcpConfReq, Ctl
  <2>2. y \in Frames
    BY <1>5, CtlFrame DEF Protos, Codes
  <2>3. s2c' = s2c \o (IF b THEN << >> ELSE <<x>>) \o <<y>>
    BY <1>5
  <2> HIDE DEF b, x, y
  <2>4. s2c' = s2c \o fs
    BY <1>1, <2>1, <2>2, <2>3, AnswerBehind
  <2>5. /\ fs \in Seq(Frames)
        /\ \A A : Has(fs, A) <=> (~b /\ x \in A) \/ y \in A
    BY <2>1, <2>2, AnswerFrames
  <2>6. /\ x \notin Acks /\ x \notin Naks /\ x \notin Chals /\ x \notin IpAcks
        /\ x \notin IpWrong
        /\ y \notin Acks /\ y \notin Naks /\ y \notin Chals /\ y \notin IpWrong
        /\ y \in IpAcks => c = "ConfAck"
    BY <1>5, <2>1, <2>2 DEF Acks, Naks, Chals, IpAcks, IpWrong, Kind
  <2> HIDE DEF fs
  <2>7. /\ ~Has(fs, Acks) /\ ~Has(fs, Naks) /\ ~Has(fs, Chals) /\ ~Has(fs, IpWrong)
        /\ Has(fs, IpAcks) => c = "ConfAck"
    BY <2>5, <2>6
  <2>8. LcpMoves(fs)
    BY <1>2, <2>7 DEF LcpMoves
  <2>9. MasterMoves(fs) /\ IpcpMoves(fs)
    BY <1>2, <1>5, <2>7 DEF MasterMoves, IpcpMoves
  <2> QED  BY <1>1, <2>4, <2>5, <2>8, <2>9 DEF PeerShape
<1>6. CASE ~(~Opened(p_lcp) \/ p_master = 0)
  <2>1. \/ s2c' = s2c /\ p_ipcp' = p_ipcp \cup {"rx"}
        \/ Ans(Ctl("IPCP", "ConfRej", 0)) /\ p_ipcp' = p_ipcp \cup {"req"}
        \/ Ans(Ctl("IPCP", "ConfAck", Assigned)) /\ p_ipcp' = p_ipcp \cup {"req", "tx"}
        \/ Ans(Ctl("IPCP", "ConfNak", Assigned)) /\ p_ipcp' = p_ipcp \cup {"req"}
    BY <1>6 DEF PeerIpcp
  <2>2. 0 \in Nat /\ Assigned \in Nat
    BY ConstantsAssumption
  <2> HIDE DEF Ans
  <2>3. CASE Ans(Ctl("IPCP", "ConfRej", 0)) /\ p_ipcp' = p_ipcp \cup {"req"}
    BY <1>5, <1>6, <2>2, <2>3
  <2>4. CASE Ans(Ctl("IPCP", "ConfAck", Assigned)) /\ p_ipcp' = p_ipcp \cup {"req", "tx"}
    BY <1>5, <1>6, <2>2, <2>4
  <2>5. CASE Ans(Ctl("IPCP", "ConfNak", Assigned)) /\ p_ipcp' = p_ipcp \cup {"req"}
    BY <1>5, <1>6, <2>2, <2>5
  <2> QED  BY <1>4, <2>1, <2>3, <2>4, <2>5
<1> QED  BY <1>3, <1>6

-----------------------------------------------------------------------------
(* The theorem.                                                            *)

\* The invariant before the client starts.
LEMMA UpInit == Init => UpInv
<1> SUFFICES ASSUME Init PROVE UpInv
  OBVIOUS
<1>1. Out = << >>
  <2>1. c2s = << >> /\ txq = << >> /\ Held = << >>
    BY DEF Init, Held
  <2> QED  BY <2>1, ConcatEmptySeq, NoneIn DEF Out
<1>2. \A A, B : /\ ~Has(<< >>, A) /\ NoneAfter(<< >>, A, B) /\ Guarded(<< >>, A, B)
  BY DEF Has, NoneAfter, Guarded
<1> QED  BY <1>1, <1>2 DEF Init, UpInv, BrokenInv, LcpInv, OutInv, AuthInv, AddrInv

\* A broken stream carries nothing.
LEMMA BreakKeepsUp ==
    ASSUME UpInv, StreamError
    PROVE  UpInv'
<1>1. /\ ~stream_ok' /\ s2c' = << >> /\ UNCHANGED <<clientVars, peerVars>>
  BY DEF StreamError
<1>2. \A A, B : /\ ~Has(<< >>, A) /\ NoneAfter(<< >>, A, B) /\ Guarded(<< >>, A, B)
  BY DEF Has, NoneAfter, Guarded
<1>3. LcpInv'
  BY <1>1, <1>2 DEF UpInv, LcpInv, clientVars, linkVars, peerVars
<1>4. BrokenInv' /\ OutInv'
  BY <1>1 DEF BrokenInv, OutInv
<1>5. AuthInv' /\ AddrInv'
  BY <1>1, <1>2 DEF UpInv, AuthInv, AddrInv, clientVars, linkVars, upVars, peerVars
<1> QED  BY <1>3, <1>4, <1>5 DEF UpInv

\* Every usual step keeps the invariant.
LEMMA UpStep ==
    ASSUME TypeOK, TxNotStalled, UpInv, [Next]_vars,
           ~(SendRefused \/ PeerLcpReopen \/ PeerRechallenge)
    PROVE  UpInv'
<1>1. CASE Start \/ ClientReceives \/ SendComplete \/ SendIp
  BY <1>1, ClientKeepsUp
<1>2. CASE PeerOpens \/ PeerCcpRepeat \/ PeerEcho \/ PeerTerminate \/ PeerSendIp
  BY <1>2, PeerSendsShape, PeerKeepsUp
<1>3. CASE PeerReceives
  <2>1. PeerShape
    BY <1>3, PeerLcpConfReqShape, PeerChapShape, PeerCcpShape, PeerIpcpShape,
       PeerOtherShape DEF PeerReceives, UpInv
  <2> QED  BY <2>1, PeerKeepsUp
<1>4. CASE StreamError
  BY <1>4, BreakKeepsUp
<1>5. CASE UNCHANGED vars
  <2>1. /\ UNCHANGED <<started, lcp_opened, auth_done, ccp_done, ip_configured,
                       up_notified, local_ip, stream_ok, s2c, p_lcp, p_ipcp,
                       p_await, p_master>>
        /\ Out' = Out
    BY <1>5 DEF vars, clientVars, linkVars, upVars, txVars, peerVars, Out, Held
  <2> QED  BY <2>1 DEF UpInv, BrokenInv, LcpInv, OutInv, AuthInv, AddrInv
<1> QED  BY <1>1, <1>2, <1>3, <1>4, <1>5 DEF Next

\* Every step keeps what is left of it.
LEMMA BaseStep ==
    ASSUME TypeOK, TxNotStalled, BaseInv, [Next]_vars
    PROVE  BaseInv'
<1>1. CASE Start \/ ClientReceives \/ SendComplete \/ SendIp
  <2>1. ClientShape /\ AddrShape
    BY <1>1, ReceivesShape, ReceivesAddr, OwnShape
  <2> QED  BY <2>1, ClientKeepsBase
<1>2. CASE PeerOpens \/ PeerCcpRepeat \/ PeerEcho \/ PeerTerminate \/ PeerSendIp
  BY <1>2, PeerSendsShape, PeerShapeBase
<1>3. CASE PeerReceives
  <2>1. PeerChap \/ PeerShape
    BY <1>3, PeerLcpConfReqShape, PeerCcpShape, PeerIpcpShape, PeerOtherShape
    DEF PeerReceives
  <2> QED  BY <2>1, PeerChapBase, PeerShapeBase
<1>4. CASE SendRefused \/ PeerLcpReopen \/ PeerRechallenge
  BY <1>4, UpsetBase
<1>5. CASE StreamError
  <2>1. /\ ~stream_ok' /\ s2c' = << >> /\ UNCHANGED <<clientVars, peerVars>>
    BY <1>5 DEF StreamError
  <2>2. \A A, B : ~Has(<< >>, A) /\ Guarded(<< >>, A, B)
    BY DEF Has, Guarded
  <2> QED
    BY <2>1, <2>2 DEF BaseInv, BrokenInv, clientVars, upVars, peerVars
<1>6. CASE UNCHANGED vars
  BY <1>6 DEF vars, BaseInv, BrokenInv, clientVars, upVars, peerVars
<1> QED  BY <1>1, <1>2, <1>3, <1>4, <1>5, <1>6 DEF Next

\* A step before which something unusual has happened, or that is unusual
\* itself, leaves an unusual state.
LEMMA CalmStep ==
    ASSUME TypeOK, [Next]_vars, Undisturbed'
    PROVE  Undisturbed /\ ~(SendRefused \/ PeerLcpReopen \/ PeerRechallenge)
<1>1. sent \in SentCounts
  BY DEF TypeOK
<1>2. ~SendRefused
  BY <1>1 DEF SendRefused, Undisturbed, SentCounts
<1>3. ~PeerLcpReopen
  BY <1>1 DEF PeerLcpReopen, Undisturbed, SentCounts
<1>4. ~PeerRechallenge
  BY <1>1 DEF PeerRechallenge, Undisturbed, SentCounts
<1>5. Undisturbed
  <2>1. CASE UNCHANGED vars
    BY <2>1 DEF vars, Undisturbed
  <2>2. CASE Next
    <3>1. \/ Start \/ ClientReceives \/ SendComplete \/ SendIp
          \/ PeerOpens \/ PeerReceives \/ PeerCcpRepeat \/ PeerEcho
          \/ PeerTerminate \/ PeerSendIp \/ StreamError
      BY <1>2, <1>3, <1>4, <2>2 DEF Next
    <3> QED  BY <3>1, SentSame DEF Undisturbed
  <2> QED  BY <2>1, <2>2
<1> QED  BY <1>2, <1>3, <1>4, <1>5

\* The whole invariant: what always holds, and what holds until then.
LinkInv == BaseInv /\ (Undisturbed => UpInv)

\* It holds when a context is created.
LEMMA LinkInit == Init => LinkInv
BY UpInit DEF LinkInv, UpInv, BaseInv, AuthInv, AddrInv

\* No step breaks it.
LEMMA LinkStep == TypeOK /\ TxNotStalled /\ LinkInv /\ [Next]_vars => LinkInv'
<1> SUFFICES ASSUME TypeOK, TxNotStalled, LinkInv, [Next]_vars PROVE LinkInv'
  OBVIOUS
<1>1. BaseInv'
  BY BaseStep DEF LinkInv
<1>2. ASSUME Undisturbed' PROVE UpInv'
  BY <1>2, CalmStep, UpStep DEF LinkInv
<1> QED  BY <1>1, <1>2 DEF LinkInv

\* ios_pppd_cb reports the tunnel up only for a client that is authenticated,
\* whose CCP has ended, and whose address is the server's choice, whatever the
\* server renegotiates and whatever frame is refused; without those, neither a
\* repeated Challenge nor a late LCP request of the client takes the exchange
\* and the acknowledged address back at the server.
THEOREM UpIsAgreed == Spec => []UpAgreed
<1>1. Init => TypeOK /\ TxNotStalled /\ LinkInv
  BY TypeInit, LinkInit
<1>2. TypeOK /\ TxNotStalled /\ LinkInv /\ [Next]_vars => (TypeOK /\ TxNotStalled /\ LinkInv)'
  BY TypeStep, LinkStep
<1>3. LinkInv => UpAgreed
  BY DEF LinkInv, BaseInv, UpInv, AddrInv, UpAgreed
<1> QED
  BY <1>1, <1>2, <1>3, PTL DEF Spec

=============================================================================
