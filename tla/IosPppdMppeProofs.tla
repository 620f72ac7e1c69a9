------------------------- MODULE IosPppdMppeProofs -------------------------
(***************************************************************************)
(* Proof about the PPP client of IosPppd that every packet is readable     *)
(* where it arrives.                                                       *)
(*                                                                         *)
(* The frames under way, as one sequence in each direction, carry the keys *)
(* from one end to the other: each MPPE frame has the key and count one    *)
(* step after the one before it, the first one step after what the         *)
(* receiver holds, the last what the sender holds (Chain).  That both ends *)
(* restart the keys at the same place follows from the order of the other  *)
(* frames: with a server that grants MPPE, no packet and no address        *)
(* acknowledgement is sent before CCP is open in both directions, and no   *)
(* CCP frame after; with one that refuses it, the refusal reaches the      *)
(* client before the address does.                                         *)
(***************************************************************************)
EXTENDS IosPppdProofs

-----------------------------------------------------------------------------
(* MPPE in step: the frames the argument tells apart.                      *)

CcpReqs == Kind("CCP", {"ConfReq"})
CcpAcks == Kind("CCP", {"ConfAck"})
CcpNaks == Kind("CCP", {"ConfNak"})
CcpRefs == Kind("CCP", {"ConfNak", "ConfRej"})
Ccps    == Kind("CCP", Codes)
IpNaks  == Kind("IPCP", {"ConfNak"})
Mppes   == Kind("MPPE", Codes)
Ips     == Kind("IP", Codes)
Nets    == {f \in Frames : f.proto \in {"CCP", "IPCP", "MPPE", "IP"}}
\* The server's frames that come after its CCP request, and those after which
\* it sends no CCP frame.
Later   == CcpAcks \cup IpNaks \cup IpAcks \cup Mppes
Sealed  == IpAcks \cup Mppes
\* What the server takes for a CCP or IPCP request of the client, the requests
\* for the assigned address, and all that the client sends after its Success.
CcpAsks  == Kind("CCP", Codes \ {"ConfAck"})
IpcpAsks == Kind("IPCP", Codes \ {"ConfAck"})
AddrAsks == {f \in IpcpAsks : f.val = Assigned}
Asks     == CcpAsks \cup IpcpAsks \cup CcpAcks

\* The sets in terms of protocol and code.
LEMMA Kinds ==
    ASSUME NEW f \in Frames
    PROVE  /\ f \in CcpReqs <=> f.proto = "CCP" /\ f.code = "ConfReq"
           /\ f \in CcpAcks <=> f.proto = "CCP" /\ f.code = "ConfAck"
           /\ f \in CcpNaks <=> f.proto = "CCP" /\ f.code = "ConfNak"
           /\ f \in CcpRefs <=> f.proto = "CCP" /\ f.code \in {"ConfNak", "ConfRej"}
           /\ f \in Ccps <=> f.proto = "CCP"
           /\ f \in IpNaks <=> f.proto = "IPCP" /\ f.code = "ConfNak"
           /\ f \in IpAcks <=> f.proto = "IPCP" /\ f.code = "ConfAck"
           /\ f \in Mppes <=> f.proto = "MPPE"
           /\ f \in Ips <=> f.proto = "IP"
           /\ f \in Nets <=> f.proto \in {"CCP", "IPCP", "MPPE", "IP"}
           /\ f \in Succs <=> f.proto = "CHAP" /\ f.code = "Success"
           /\ f \in CcpAsks <=> f.proto = "CCP" /\ f.code # "ConfAck"
           /\ f \in IpcpAsks <=> f.proto = "IPCP" /\ f.code # "ConfAck"
           /\ f \in AddrAsks <=> /\ f.proto = "IPCP" /\ f.code # "ConfAck"
                                 /\ f.val = Assigned
           /\ f \in Later <=> f \in CcpAcks \/ f \in IpNaks \/ f \in IpAcks \/ f \in Mppes
           /\ f \in Sealed <=> f \in IpAcks \/ f \in Mppes
           /\ f \in Asks <=> f \in CcpAsks \/ f \in IpcpAsks \/ f \in CcpAcks
<1>1. f.proto \in Protos /\ f.code \in Codes
  BY DEF Frames
<1> QED
  BY <1>1 DEF CcpReqs, CcpAcks, CcpNaks, CcpRefs, Ccps, IpNaks, IpAcks, Mppes, Ips,
              Nets, Succs, CcpAsks, IpcpAsks, AddrAsks, Later, Sealed, Asks, Kind

-----------------------------------------------------------------------------
(* The keys and counts of the MPPE frames under way.                       *)

\* One end of a direction: the key and the coherency count it is at.
Ends == [key : Keys, cnt : 0 .. CcMod - 1]
Succ(x) == [key |-> [m |-> x.key.m, n |-> x.key.n + 1], cnt |-> Ccount(x.cnt + 1)]
First(m) == [key |-> [m |-> m, n |-> 1], cnt |-> CcMod - 1]
SendEnd(x) == [key |-> x.skey, cnt |-> x.scount]
RecvEnd(x) == [key |-> x.rkey, cnt |-> x.rcount]
\* Both session keys come from the master key the next rekeying hashes.
Named(x) == x.skey.m = x.master /\ x.rkey.m = x.master

\* The MPPE frames of s lead from x, one rekeying at a time, to y.
Chain(s, x, y) ==
    \E n \in [0 .. Len(s) -> Ends] :
        /\ n[0] = x /\ n[Len(s)] = y
        /\ \A i \in 1 .. Len(s) :
             IF s[i] \in Mppes
               THEN n[i] = Succ(n[i - 1]) /\ s[i].key = n[i].key /\ s[i].val = n[i].cnt
               ELSE n[i] = n[i - 1]

\* The ends of a typed MPPE state.
LEMMA EndTypes ==
    /\ \A x \in MppeStates : SendEnd(x) \in Ends /\ RecvEnd(x) \in Ends
    /\ \A x \in Ends : Succ(x) \in Ends
    /\ \A m \in Nat : First(m) \in Ends
<1>1. CcMod - 1 \in 0 .. CcMod - 1 /\ CcMod \in Nat
  BY ConstantsAssumption
<1>2. \A x \in MppeStates : SendEnd(x) \in Ends /\ RecvEnd(x) \in Ends
  BY DEF SendEnd, RecvEnd, Ends, MppeStates
<1>3. ASSUME NEW x \in Ends PROVE Succ(x) \in Ends
  <2>1. x.key \in Keys /\ x.cnt \in 0 .. CcMod - 1
    BY DEF Ends
  <2>2. Ccount(x.cnt + 1) \in 0 .. CcMod - 1
    BY <1>1, <2>1, CcountRange
  <2>3. [m |-> x.key.m, n |-> x.key.n + 1] \in Keys
    BY <2>1 DEF Keys
  <2> QED  BY <2>2, <2>3 DEF Succ, Ends
<1>4. \A m \in Nat : First(m) \in Ends
  BY <1>1 DEF First, Ends, Keys
<1> QED  BY <1>2, <1>3, <1>4

\* Frames without MPPE leave both ends where they are.
LEMMA ChainNone ==
    ASSUME NEW s \in Seq(Frames), ~Has(s, Mppes), NEW x \in Ends
    PROVE  Chain(s, x, x)
<1> DEFINE n == [i \in 0 .. Len(s) |-> x]
<1>1. Len(s) \in Nat
  BY LenProperties
<1>2. n \in [0 .. Len(s) -> Ends] /\ n[0] = x /\ n[Len(s)] = x
  BY <1>1
<1>3. \A i \in 1 .. Len(s) : s[i] \notin Mppes /\ n[i] = n[i - 1]
  BY <1>1 DEF Has
<1> HIDE DEF n
<1> QED  BY <1>2, <1>3 DEF Chain

\* A frame behind moves the sending end, if it is an MPPE frame.
LEMMA ChainAppend ==
    ASSUME NEW s \in Seq(Frames), NEW x, NEW y, Chain(s, x, y), NEW f \in Frames,
           NEW z \in Ends,
           IF f \in Mppes THEN z = Succ(y) /\ f.key = z.key /\ f.val = z.cnt
                          ELSE z = y
    PROVE  Chain(s \o <<f>>, x, z)
<1> DEFINE t == s \o <<f>>
<1>1. /\ Len(s) \in Nat /\ Len(t) = Len(s) + 1 /\ t[Len(s) + 1] = f
      /\ \A i \in 1 .. Len(s) : t[i] = s[i]
  <2>1. t = Append(s, f)
    BY AppendIsConcat
  <2> QED  BY <2>1, AppendProperties, LenProperties
<1>2. PICK n \in [0 .. Len(s) -> Ends] :
        /\ n[0] = x /\ n[Len(s)] = y
        /\ \A i \in 1 .. Len(s) :
             IF s[i] \in Mppes
               THEN n[i] = Succ(n[i - 1]) /\ s[i].key = n[i].key /\ s[i].val = n[i].cnt
               ELSE n[i] = n[i - 1]
  BY DEF Chain
<1> DEFINE m == [i \in 0 .. Len(s) + 1 |-> IF i <= Len(s) THEN n[i] ELSE z]
<1> HIDE DEF t
<1>3. /\ \A i \in 0 .. Len(s) : m[i] = n[i]
      /\ m[Len(s) + 1] = z
  BY <1>1
<1>4. m \in [0 .. Len(s) + 1 -> Ends]
  BY <1>1
<1> HIDE DEF m
<1>5. \A i \in 1 .. Len(s) : i \in 0 .. Len(s) /\ i - 1 \in 0 .. Len(s)
  BY <1>1
<1>6. ASSUME NEW i \in 1 .. Len(s)
      PROVE  IF t[i] \in Mppes
               THEN m[i] = Succ(m[i - 1]) /\ t[i].key = m[i].key /\ t[i].val = m[i].cnt
               ELSE m[i] = m[i - 1]
  BY <1>1, <1>2, <1>3, <1>5
<1>7. IF t[Len(s) + 1] \in Mppes
        THEN /\ m[Len(s) + 1] = Succ(m[Len(s)])
             /\ t[Len(s) + 1].key = m[Len(s) + 1].key
             /\ t[Len(s) + 1].val = m[Len(s) + 1].cnt
        ELSE m[Len(s) + 1] = m[Len(s)]
  <2>1. Len(s) \in 0 .. Len(s)
    BY <1>1
  <2> QED  BY <1>1, <1>2, <1>3, <2>1
<1>8. ASSUME NEW i \in 1 .. Len(s) + 1
      PROVE  IF t[i] \in Mppes
               THEN m[i] = Succ(m[i - 1]) /\ t[i].key = m[i].key /\ t[i].val = m[i].cnt
               ELSE m[i] = m[i - 1]
  <2>1. CASE i \in 1 .. Len(s)
    BY <1>6, <2>1
  <2>2. CASE i = Len(s) + 1
    <3>1. i - 1 = Len(s)
      BY <1>1, <2>2
    <3> QED  BY <1>7, <2>2, <3>1
  <2> QED  BY <1>1, <2>1, <2>2
<1>9. m[0] = x /\ m[Len(t)] = z /\ m \in [0 .. Len(t) -> Ends]
  <2>1. 0 \in 0 .. Len(s)
    BY <1>1
  <2> QED  BY <1>1, <1>2, <1>3, <1>4, <2>1
<1>10. Chain(t, x, z)
  BY <1>1, <1>8, <1>9 DEF Chain
<1> QED  BY <1>10 DEF t

\* The first frame moves the receiving end, if it is an MPPE frame.
LEMMA ChainTail ==
    ASSUME NEW s \in Seq(Frames), s # << >>, NEW x, NEW y, Chain(s, x, y)
    PROVE  /\ Head(s) \notin Mppes => Chain(Tail(s), x, y)
           /\ Head(s) \in Mppes => /\ Chain(Tail(s), Succ(x), y)
                                   /\ Head(s).key = Succ(x).key
                                   /\ Head(s).val = Succ(x).cnt
<1> DEFINE t == Tail(s)
<1>1. /\ Len(s) \in Nat \ {0} /\ Len(t) = Len(s) - 1
      /\ 1 \in 1 .. Len(s) /\ s[1] = Head(s)
      /\ \A i \in 1 .. Len(s) - 1 : t[i] = s[i + 1]
  BY TailShape
<1>2. PICK n \in [0 .. Len(s) -> Ends] :
        /\ n[0] = x /\ n[Len(s)] = y
        /\ \A i \in 1 .. Len(s) :
             IF s[i] \in Mppes
               THEN n[i] = Succ(n[i - 1]) /\ s[i].key = n[i].key /\ s[i].val = n[i].cnt
               ELSE n[i] = n[i - 1]
  BY DEF Chain
<1> DEFINE m == [i \in 0 .. Len(s) - 1 |-> n[i + 1]]
<1> HIDE DEF t
<1>3. \A i \in 0 .. Len(s) - 1 : i + 1 \in 0 .. Len(s) /\ m[i] = n[i + 1]
  BY <1>1
<1>4. m \in [0 .. Len(t) -> Ends]
  BY <1>1, <1>3
<1> HIDE DEF m
<1>5. ASSUME NEW i \in 1 .. Len(t)
      PROVE  IF t[i] \in Mppes
               THEN m[i] = Succ(m[i - 1]) /\ t[i].key = m[i].key /\ t[i].val = m[i].cnt
               ELSE m[i] = m[i - 1]
  <2>1. /\ i + 1 \in 1 .. Len(s) /\ (i + 1) - 1 = i /\ i \in 0 .. Len(s) - 1
        /\ i - 1 \in 0 .. Len(s) - 1 /\ (i - 1) + 1 = i /\ i \in 1 .. Len(s) - 1
    BY <1>1
  <2>2. m[i] = n[i + 1] /\ m[i - 1] = n[i] /\ t[i] = s[i + 1]
    BY <1>1, <1>3, <2>1
  <2>3. IF s[i + 1] \in Mppes
          THEN /\ n[i + 1] = Succ(n[(i + 1) - 1])
               /\ s[i + 1].key = n[i + 1].key /\ s[i + 1].val = n[i + 1].cnt
          ELSE n[i + 1] = n[(i + 1) - 1]
    BY <1>2, <2>1
  <2> QED  BY <2>1, <2>2, <2>3
<1>6. m[Len(t)] = y /\ m[0] = n[1]
  <2>1. Len(s) - 1 \in 0 .. Len(s) - 1 /\ 0 \in 0 .. Len(s) - 1
        /\ (Len(s) - 1) + 1 = Len(s) /\ 0 + 1 = 1
    BY <1>1
  <2> QED  BY <1>1, <1>2, <1>3, <2>1
<1>7. IF Head(s) \in Mppes
        THEN n[1] = Succ(x) /\ Head(s).key = n[1].key /\ Head(s).val = n[1].cnt
        ELSE n[1] = x
  <2>1. IF s[1] \in Mppes
          THEN n[1] = Succ(n[1 - 1]) /\ s[1].key = n[1].key /\ s[1].val = n[1].cnt
          ELSE n[1] = n[1 - 1]
    BY <1>1, <1>2
  <2>2. 1 - 1 = 0
    OBVIOUS
  <2> QED  BY <1>1, <1>2, <2>1, <2>2
<1>8. Chain(t, n[1], y)
  BY <1>4, <1>5, <1>6 DEF Chain
<1> QED  BY <1>7, <1>8 DEF t

\* One step behind, the catch-up loop of handle_mppe rekeys once, and the packet
\* decrypts: also where the count wraps.
LEMMA ReadNext ==
    ASSUME NEW x \in MppeStates, Named(x), NEW f \in Frames, f.proto = "MPPE",
           f.key = Succ(RecvEnd(x)).key, f.val = Succ(RecvEnd(x)).cnt
    PROVE  /\ MppeReadable(x, f)
           /\ RecvEnd(MppeCatchUp(x, f)) = Succ(RecvEnd(x))
           /\ SendEnd(MppeCatchUp(x, f)) = SendEnd(x)
           /\ MppeCatchUp(x, f).enabled = x.enabled
           /\ MppeCatchUp(x, f).master = x.master
<1> DEFINE r == x.rcount
           M == CcMod
<1>1. M \in Nat \ {0, 1} /\ r \in 0 .. M - 1 /\ x.rkey \in Keys
  BY ConstantsAssumption DEF MppeStates
<1>2. f.val = (r + 1) % M /\ f.key = mppe_rekey(x.master, x.rkey, 1)
  BY DEF Succ, RecvEnd, Ccount, Named, mppe_rekey
<1>3. (((r + 1) % M) - r) % M = 1
  <2> HIDE DEF r, M
  <2>1. CASE r + 1 < M
    <3>1. (r + 1) % M = r + 1
      BY <1>1, <2>1
    <3>2. 1 % M = 1
      BY <1>1
    <3>3. (r + 1) - r = 1
      BY <1>1
    <3> QED  BY <3>1, <3>2, <3>3
  <2>2. CASE r + 1 = M
    <3>1. M % M = 0
      BY <1>1
    <3>2. (1 - M) % M = 1
      BY <1>1
    <3>3. 0 - r = 1 - M
      BY <1>1, <2>2
    <3> QED  BY <2>2, <3>1, <3>2, <3>3
  <2> QED  BY <1>1, <2>1, <2>2
<1>4. MppeSkips(x, f) = 1
  BY <1>2, <1>3 DEF MppeSkips, Ccount
<1>5. /\ MppeCatchUp(x, f).rkey = f.key /\ MppeCatchUp(x, f).rcount = f.val
      /\ MppeCatchUp(x, f).skey = x.skey /\ MppeCatchUp(x, f).scount = x.scount
      /\ MppeCatchUp(x, f).enabled = x.enabled /\ MppeCatchUp(x, f).master = x.master
  BY <1>2, <1>4 DEF MppeCatchUp, MppeStates
<1>6. MppeReadable(x, f)
  BY <1>4, <1>5 DEF MppeReadable
<1>7. RecvEnd(MppeCatchUp(x, f)) = Succ(RecvEnd(x))
  BY <1>5 DEF RecvEnd, Succ
<1> QED  BY <1>5, <1>6, <1>7 DEF SendEnd

\* ppp_send_ip_plain_or_mppe advances the sending end by one and labels the
\* packet with it.
LEMMA SendNext ==
    ASSUME NEW x \in MppeStates
    PROVE  /\ Named(x) =>
                /\ SendEnd(MppeAdvance(x)) = Succ(SendEnd(x))
                /\ MppeFrame(MppeAdvance(x)).key = Succ(SendEnd(x)).key
                /\ MppeFrame(MppeAdvance(x)).val = Succ(SendEnd(x)).cnt
           /\ RecvEnd(MppeAdvance(x)) = RecvEnd(x)
           /\ MppeAdvance(x).enabled = x.enabled
           /\ MppeAdvance(x).master = x.master
           /\ MppeFrame(MppeAdvance(x)) \in Frames
           /\ MppeFrame(MppeAdvance(x)).proto = "MPPE"
<1>1. /\ MppeAdvance(x).scount = Ccount(x.scount + 1)
      /\ MppeAdvance(x).skey = mppe_rekey(x.master, x.skey, 1)
      /\ MppeAdvance(x).rkey = x.rkey /\ MppeAdvance(x).rcount = x.rcount
      /\ MppeAdvance(x).enabled = x.enabled /\ MppeAdvance(x).master = x.master
  BY DEF MppeAdvance, MppeStates
<1>2. MppeFrame(MppeAdvance(x)) \in Frames
  BY MppeTypes
<1>3. Named(x) => MppeAdvance(x).skey = [m |-> x.skey.m, n |-> x.skey.n + 1]
  BY <1>1 DEF Named, mppe_rekey
<1> QED  BY <1>1, <1>2, <1>3 DEF SendEnd, RecvEnd, Succ, MppeFrame

\* mppe_init_keys puts both ends of a side at the start.
LEMMA InitEnds ==
    ASSUME NEW x \in MppeStates, x.master # 0
    PROVE  /\ SendEnd(mppe_init_keys(x)) = First(x.master)
           /\ RecvEnd(mppe_init_keys(x)) = First(x.master)
           /\ mppe_init_keys(x).enabled
           /\ mppe_init_keys(x).master = x.master
BY DEF mppe_init_keys, SendEnd, RecvEnd, First, MppeStates


-----------------------------------------------------------------------------
(* MPPE in step: the inductive invariant, for a working stream.            *)

\* The client is authenticated and the server has taken its CCP request.
Told == auth_done /\ ~Has(Out, CcpAsks)
\* The server has not terminated the link.
Live == "term" \notin p_lcp

\* Each phase happens once and in order: one Success, which precedes every
\* frame of the network protocols; one CCP request of the client, behind which
\* its other answers queue; data only once the address is set.
AuthOnce ==
    /\ ~Live => p_lcp = {"term"}
    /\ p_await => p_chal # 0
    /\ p_master # 0 /\ Live => Opened(p_lcp)
    /\ auth_done => p_master # 0 /\ mppe.master = p_master
    /\ p_master = 0 => /\ ~Has(s2c, Succs) /\ ~Has(s2c, Nets)
                       /\ p_ccp = {} /\ p_ipcp = {}
    /\ auth_done => ~Has(s2c, Succs)
    /\ NoneAfter(s2c, Succs, Succs)
    /\ ~auth_done => Guarded(s2c, Succs, Nets) /\ ~ccp_done
CcpOnce ==
    /\ ~ccp_done => local_ip = 0 /\ ~mppe.enabled /\ ~ip_configured
    /\ ~auth_done => ~Has(Out, Asks)
    /\ NoneAfter(Out, Asks, CcpAsks)
DataLast ==
    /\ ready => ip_configured
    /\ ~ip_configured => ~Has(Out, Mppes) /\ ~Has(Out, Ips)
    /\ Has(s2c, Mppes) => Opened(p_ccp)
OnceInv == AuthOnce /\ CcpOnce /\ DataLast

\* A server that grants MPPE: the marks follow the frames of CCP, and every
\* address acknowledgement and every packet waits for both directions of it.
GrantMarks ==
    /\ "tx" \in p_ccp => "req" \in p_ccp
    /\ "rx" \in p_ccp => "tx" \in p_ccp
    /\ "tx" \in p_ipcp => Opened(p_ccp)
    /\ Live /\ Told => "tx" \in p_ccp
    /\ "tx" \in p_ccp => Told
GrantIn ==
    /\ ~Has(s2c, CcpRefs)
    /\ "req" \in p_ccp /\ ~mppe.enabled => Has(s2c, CcpReqs)
    /\ ~mppe.enabled => Guarded(s2c, CcpReqs, Later)
    /\ NoneAfter(s2c, Sealed, Ccps)
    /\ ip_configured => mppe.enabled /\ ~Has(s2c, Ccps)
GrantOut ==
    /\ Live /\ mppe.enabled /\ "rx" \notin p_ccp => Has(Out, CcpAcks)
    /\ Live /\ "rx" \notin p_ccp => Guarded(Out, CcpAcks, AddrAsks)
    /\ ~Has(Out, Ips)

\* The keys: the packets under way lead from what the receiver holds, or will
\* restart at when it reads the CCP frames before them, to the sender's.
ClientRecvEnd == IF Has(s2c, Ccps) \/ ~mppe.enabled THEN First(p_master)
                                                    ELSE RecvEnd(mppe)
PeerSendEnd   == IF Opened(p_ccp) THEN SendEnd(p_mppe) ELSE First(p_master)
PeerRecvEnd   == IF Opened(p_ccp) THEN RecvEnd(p_mppe) ELSE First(p_master)
ClientSendEnd == IF mppe.enabled THEN SendEnd(mppe) ELSE First(p_master)
InChain  == Chain(s2c, ClientRecvEnd, PeerSendEnd)
OutChain == Chain(Out, PeerRecvEnd, ClientSendEnd)
Unused   == ~ip_configured /\ mppe.enabled => SendEnd(mppe) = First(p_master)
GrantKeys == InChain /\ OutChain /\ Unused

GrantInv == GrantMarks /\ GrantIn /\ GrantOut /\ GrantKeys

\* A server that refuses MPPE: whatever switched it on for the client is
\* followed by a Configure-Nak that switches it off before the address is set.
Pending == mppe.enabled \/ Has(s2c, CcpReqs)
PlainInv ==
    /\ "tx" \notin p_ccp /\ ~Has(s2c, CcpAcks) /\ ~Has(Out, Mppes)
    /\ NoneAfter(s2c, CcpNaks, CcpReqs)
    /\ "req" \notin p_ccp => ~Pending
    /\ Pending => Guarded(s2c, CcpNaks, IpAcks)
    /\ Live /\ Told /\ Pending => Has(s2c, CcpNaks)
    /\ ip_configured => ~Pending
    /\ p_policy.ccp # "nak" => "req" \notin p_ccp
    /\ p_policy.ccp = "nak" =>
         /\ Live /\ Told => "req" \in p_ccp
         /\ "req" \notin p_ccp => ~Has(s2c, CcpNaks) /\ "tx" \notin p_ipcp

\* The servers MppeInSync is about.
Regular == p_policy.ccp = "nak" => sent.ccp = 0
SyncInv ==
    /\ stream_ok => /\ OnceInv
                    /\ p_policy.ccp = "grant" => GrantInv
                    /\ p_policy.ccp # "grant" /\ Regular => PlainInv
    /\ Regular => bad = {}

\* While MPPE is on, the session keys come from the current master keys: no new
\* exchange replaces those behind them.
NamedInv ==
    stream_ok => /\ mppe.enabled => Named(mppe)
                 /\ Opened(p_ccp) => Named(p_mppe)

\* The client's master keys are those of the accepted exchange.
KeysHeld == failed = "none" /\ p_master # 0 => mppe.master = p_master

-----------------------------------------------------------------------------
(* How the order changes when a frame is taken and when frames are added.  *)

\* The ends of a chain are ends.
LEMMA ChainEnds ==
    ASSUME NEW s \in Seq(Frames), NEW x, NEW y, Chain(s, x, y)
    PROVE  x \in Ends /\ y \in Ends
<1>1. PICK n \in [0 .. Len(s) -> Ends] : n[0] = x /\ n[Len(s)] = y
  BY DEF Chain
<1>2. 0 \in 0 .. Len(s) /\ Len(s) \in 0 .. Len(s)
  BY LenProperties
<1> QED  BY <1>1, <1>2

\* Other frames behind leave the chain as it is.
LEMMA ChainQuiet ==
    ASSUME NEW s \in Seq(Frames), NEW t \in Seq(Frames), NEW x, NEW y,
           Chain(s, x, y), ~Has(t, Mppes)
    PROVE  Chain(s \o t, x, y)
<1> DEFINE L == Len(s)
           N == Len(s) + Len(t)
           u == s \o t
<1>1. /\ L \in Nat /\ Len(t) \in Nat /\ N \in Nat /\ Len(u) = N /\ N = L + Len(t)
      /\ \A i \in 1 .. L : u[i] = s[i]
      /\ \A i \in L + 1 .. N : u[i] = t[i - L] /\ i - L \in 1 .. Len(t)
  BY ConcatProperties, LenProperties
<1>2. PICK n \in [0 .. L -> Ends] :
        /\ n[0] = x /\ n[L] = y
        /\ \A i \in 1 .. L :
             IF s[i] \in Mppes
               THEN n[i] = Succ(n[i - 1]) /\ s[i].key = n[i].key /\ s[i].val = n[i].cnt
               ELSE n[i] = n[i - 1]
  BY DEF Chain
<1>3. y \in Ends
  BY ChainEnds
<1>4. \A i \in 1 .. Len(t) : t[i] \notin Mppes
  BY DEF Has
<1> DEFINE m == [i \in 0 .. N |-> IF i <= L THEN n[i] ELSE y]
<1> HIDE DEF u, L, N
<1>5. m \in [0 .. N -> Ends]
  BY <1>1, <1>3
<1>6. /\ \A i \in 0 .. L : m[i] = n[i]
      /\ \A i \in L .. N : m[i] = y
  BY <1>1, <1>2
<1> HIDE DEF m
<1>7. ASSUME NEW i \in 1 .. N
      PROVE  IF u[i] \in Mppes
               THEN m[i] = Succ(m[i - 1]) /\ u[i].key = m[i].key /\ u[i].val = m[i].cnt
               ELSE m[i] = m[i - 1]
  <2>1. CASE i <= L
    <3>1. i \in 1 .. L /\ i \in 0 .. L /\ i - 1 \in 0 .. L
      BY <1>1, <2>1
    <3> QED  BY <1>1, <1>2, <1>6, <3>1
  <2>2. CASE ~(i <= L)
    <3>1. i \in L + 1 .. N /\ i \in L .. N /\ i - 1 \in L .. N
      BY <1>1, <2>2
    <3>2. u[i] \notin Mppes
      BY <1>1, <1>4, <3>1
    <3> QED  BY <1>6, <3>1, <3>2
  <2> QED  BY <2>1, <2>2
<1>8. m[0] = x /\ m[N] = y
  <2>1. 0 \in 0 .. L /\ N \in L .. N
    BY <1>1
  <2> QED  BY <1>2, <1>6, <2>1
<1>9. Chain(u, x, y)
  BY <1>1, <1>5, <1>7, <1>8 DEF Chain
<1> QED  BY <1>9 DEF u

\* A frame is taken.
LEMMA Taken ==
    ASSUME NEW s \in Seq(Frames), s # << >>, NEW t, t = Tail(s)
    PROVE  /\ t \in Seq(Frames) /\ Head(s) \in Frames
           /\ \A A : Has(s, A) <=> Head(s) \in A \/ Has(t, A)
           /\ \A A, B : NoneAfter(s, A, B) => /\ NoneAfter(t, A, B)
                                              /\ Head(s) \in A => ~Has(t, B)
           /\ \A A, B : Guarded(s, A, B) => /\ Head(s) \notin B
                                            /\ Head(s) \notin A => Guarded(t, A, B)
           /\ Head(s) \notin Mppes => \A x, y : Chain(s, x, y) => Chain(t, x, y)
<1>1. Tail(s) \in Seq(Frames) /\ Head(s) \in Frames
  BY HeadTailProperties
<1>2. \A A : Has(s, A) <=> Head(s) \in A \/ Has(Tail(s), A)
  BY HasTail
<1>3. \A A, B : NoneAfter(s, A, B) => /\ NoneAfter(Tail(s), A, B)
                                      /\ Head(s) \in A => ~Has(Tail(s), B)
  BY OrderTail
<1>4. \A A, B : Guarded(s, A, B) => /\ Head(s) \notin B
                                    /\ Head(s) \notin A => Guarded(Tail(s), A, B)
  BY GuardTail
<1>5. Head(s) \notin Mppes => \A x, y : Chain(s, x, y) => Chain(Tail(s), x, y)
  BY ChainTail
<1> QED  BY <1>1, <1>2, <1>3, <1>4, <1>5

\* Frames are added.
LEMMA Added ==
    ASSUME NEW s \in Seq(Frames), NEW t \in Seq(Frames), NEW u, u = s \o t
    PROVE  /\ u \in Seq(Frames)
           /\ \A A : Has(u, A) <=> Has(s, A) \/ Has(t, A)
           /\ \A A, B : NoneAfter(s, A, B) /\ (~Has(t, B) \/ (~Has(s, A) /\ ~Has(t, A)))
                          => NoneAfter(u, A, B)
           /\ \A A, B : Guarded(s, A, B) /\ (Has(s, A) \/ ~Has(t, B)) => Guarded(u, A, B)
           /\ ~Has(t, Mppes) => \A x, y : Chain(s, x, y) => Chain(u, x, y)
<1>1. s \o t \in Seq(Frames)
  BY ConcatProperties
<1>2. \A A : Has(s \o t, A) <=> Has(s, A) \/ Has(t, A)
  BY HasConcat
<1>3. \A A, B : NoneAfter(s, A, B) /\ (~Has(t, B) \/ (~Has(s, A) /\ ~Has(t, A)))
                  => NoneAfter(s \o t, A, B)
  BY OrderConcat
<1>4. \A A, B : Guarded(s, A, B) /\ (Has(s, A) \/ ~Has(t, B)) => Guarded(s \o t, A, B)
  BY GuardConcat
<1>5. ~Has(t, Mppes) => \A x, y : Chain(s, x, y) => Chain(s \o t, x, y)
  BY ChainQuiet
<1> QED  BY <1>1, <1>2, <1>3, <1>4, <1>5

\* What a sequence without frames of B satisfies, and one without any.
LEMMA Absent ==
    ASSUME NEW s
    PROVE  \A A, B : ~Has(s, B) => NoneAfter(s, A, B) /\ Guarded(s, A, B)
BY DEF Has, NoneAfter, Guarded

\* The sets of frames that contain one another.
LEMMA Nested ==
    ASSUME NEW s \in Seq(Frames)
    PROVE  /\ Has(s, Asks) <=> Has(s, CcpAsks) \/ Has(s, IpcpAsks) \/ Has(s, CcpAcks)
           /\ Has(s, AddrAsks) => Has(s, IpcpAsks)
           /\ Has(s, Sealed) <=> Has(s, IpAcks) \/ Has(s, Mppes)
           /\ Has(s, Later) <=> \/ Has(s, CcpAcks) \/ Has(s, IpNaks)
                                \/ Has(s, IpAcks) \/ Has(s, Mppes)
           /\ Has(s, CcpReqs) => Has(s, Ccps) /\ Has(s, CcpAsks)
           /\ Has(s, CcpAcks) => Has(s, Ccps)
           /\ Has(s, CcpNaks) => Has(s, CcpRefs)
           /\ Has(s, CcpRefs) => Has(s, Ccps)
           /\ Has(s, Ccps) \/ Has(s, Ips) \/ Has(s, IpNaks) \/ Has(s, Asks)
              \/ Has(s, Later) => Has(s, Nets)
<1>1. \A i \in 1 .. Len(s) : s[i] \in Frames
  BY ElementOfSeq
<1>2. \A f \in Frames :
        /\ f \in Asks <=> f \in CcpAsks \/ f \in IpcpAsks \/ f \in CcpAcks
        /\ f \in AddrAsks => f \in IpcpAsks
        /\ f \in Sealed <=> f \in IpAcks \/ f \in Mppes
        /\ f \in Later <=> f \in CcpAcks \/ f \in IpNaks \/ f \in IpAcks \/ f \in Mppes
        /\ f \in CcpReqs => f \in Ccps /\ f \in CcpAsks
        /\ f \in CcpAcks => f \in Ccps
        /\ f \in CcpNaks => f \in CcpRefs
        /\ f \in CcpRefs => f \in Ccps
        /\ f \in Ccps \/ f \in Ips \/ f \in IpNaks \/ f \in Asks \/ f \in Later => f \in Nets
  BY Kinds
<1> QED  BY <1>1, <1>2 DEF Has

\* What one frame has, by its protocol and code.
LEMMA OneKind ==
    ASSUME NEW f \in Frames
    PROVE  /\ <<f>> \in Seq(Frames)
           /\ \A A : Has(<<f>>, A) <=> f \in A
BY OneIn, HasOne


-----------------------------------------------------------------------------
(* MPPE in step: the client's steps.                                       *)

\* The server's state, which no step of the client touches.
PeerStill ==
    /\ UNCHANGED <<stream_ok, p_policy, p_lcp, p_ccp, p_ipcp, p_await, p_chal,
                   p_master, p_mppe>>
    /\ sent'.ccp = sent.ccp
\* What the phases depend on.
PhaseStill == UNCHANGED <<auth_done, ccp_done, local_ip, ip_configured, ready>>
\* The switch and both ends of the client's MPPE state.
MppeStill ==
    /\ mppe'.enabled = mppe.enabled
    /\ SendEnd(mppe') = SendEnd(mppe) /\ RecvEnd(mppe') = RecvEnd(mppe)

\* LCP and CHAP, completions and plain packets: nothing MPPE depends on moves.
LEMMA ClientCalm ==
    ASSUME TypeOK, TypeOK', stream_ok, SyncInv, PeerStill, PhaseStill, MppeStill,
           bad' = bad, auth_done => mppe'.master = p_master,
           NEW fs \in Seq(Frames), Out' = Out \o fs, ~Has(fs, Nets),
           \/ s2c' = s2c
           \/ /\ s2c # << >> /\ s2c' = Tail(s2c)
              /\ Head(s2c).proto \in {"LCP", "CHAP", "IP"} /\ Head(s2c) \notin Succs
    PROVE  SyncInv'
<1>1. s2c \in Seq(Frames) /\ Out \in Seq(Frames)
  BY OutType DEF TypeOK
<1>2. /\ s2c' \in Seq(Frames)
      /\ \A A : A \in {Succs, CcpReqs, CcpAcks, CcpNaks, CcpRefs, Ccps, Mppes, IpAcks, Later, Sealed}
           => (Has(s2c', A) <=> Has(s2c, A))
      /\ Has(s2c', Nets) => Has(s2c, Nets)
      /\ \A A, B : NoneAfter(s2c, A, B) => NoneAfter(s2c', A, B)
      /\ Guarded(s2c, Succs, Nets) => Guarded(s2c', Succs, Nets)
      /\ Guarded(s2c, CcpReqs, Later) => Guarded(s2c', CcpReqs, Later)
      /\ Guarded(s2c, CcpNaks, IpAcks) => Guarded(s2c', CcpNaks, IpAcks)
      /\ \A x, y : Chain(s2c, x, y) => Chain(s2c', x, y)
  <2>1. CASE s2c' = s2c
    BY <1>1, <2>1
  <2>2. CASE s2c # << >> /\ s2c' = Tail(s2c)
             /\ Head(s2c).proto \in {"LCP", "CHAP", "IP"} /\ Head(s2c) \notin Succs
    <3>1. /\ s2c' \in Seq(Frames) /\ Head(s2c) \in Frames
          /\ \A A : Has(s2c, A) <=> Head(s2c) \in A \/ Has(s2c', A)
          /\ \A A, B : NoneAfter(s2c, A, B) => NoneAfter(s2c', A, B)
          /\ \A A, B : Guarded(s2c, A, B) => (Head(s2c) \notin A => Guarded(s2c', A, B))
          /\ Head(s2c) \notin Mppes => \A x, y : Chain(s2c, x, y) => Chain(s2c', x, y)
      BY <1>1, <2>2, Taken
    <3>2. /\ Head(s2c) \notin CcpReqs /\ Head(s2c) \notin CcpAcks /\ Head(s2c) \notin CcpNaks
          /\ Head(s2c) \notin CcpRefs /\ Head(s2c) \notin Ccps /\ Head(s2c) \notin Mppes
          /\ Head(s2c) \notin IpAcks /\ Head(s2c) \notin Later /\ Head(s2c) \notin Sealed
          /\ Head(s2c) \notin Succs
      BY <2>2, <3>1, Kinds
    <3> QED  BY <3>1, <3>2
  <2> QED  BY <2>1, <2>2
<1>3. /\ Out' \in Seq(Frames)
      /\ \A A : Has(Out', A) <=> Has(Out, A) \/ Has(fs, A)
      /\ \A A, B : NoneAfter(Out, A, B) /\ ~Has(fs, B) => NoneAfter(Out', A, B)
      /\ \A A, B : Guarded(Out, A, B) /\ ~Has(fs, B) => Guarded(Out', A, B)
      /\ ~Has(fs, Mppes) => \A x, y : Chain(Out, x, y) => Chain(Out', x, y)
  BY <1>1, Added
<1>4. /\ ~Has(fs, Asks) /\ ~Has(fs, CcpAsks) /\ ~Has(fs, CcpAcks) /\ ~Has(fs, Mppes)
      /\ ~Has(fs, Ips) /\ ~Has(fs, AddrAsks)
  BY Nested
<1>5. OnceInv'
  BY <1>2, <1>3, <1>4
     DEF SyncInv, OnceInv, AuthOnce, CcpOnce, DataLast, PeerStill, PhaseStill, MppeStill, Live
<1>6. p_policy.ccp = "grant" => GrantMarks' /\ GrantIn' /\ GrantOut'
  BY <1>2, <1>3, <1>4
     DEF SyncInv, GrantInv, GrantMarks, GrantIn, GrantOut, PeerStill, PhaseStill,
         MppeStill, Live, Told
<1>7. p_policy.ccp = "grant" => GrantKeys'
  BY <1>2, <1>3, <1>4
     DEF SyncInv, GrantInv, GrantKeys, InChain, OutChain, Unused, ClientRecvEnd,
         ClientSendEnd, PeerRecvEnd, PeerSendEnd, PeerStill, PhaseStill, MppeStill
<1>8. p_policy.ccp # "grant" /\ Regular => PlainInv'
  BY <1>2, <1>3, <1>4
     DEF SyncInv, PlainInv, Pending, PeerStill, PhaseStill, MppeStill, Live, Told
<1>9. Regular' <=> Regular
  BY DEF Regular, PeerStill
<1> QED  BY <1>5, <1>6, <1>7, <1>8, <1>9 DEF SyncInv, GrantInv, PeerStill


\* One more frame.
LEMMA OrderAppend ==
    ASSUME NEW s \in Seq(Frames), NEW f \in Frames, NEW A, NEW B,
           NoneAfter(s, A, B), f \notin B \/ ~Has(s, A)
    PROVE  NoneAfter(s \o <<f>>, A, B)
<1> DEFINE t == s \o <<f>>
<1>1. /\ Len(s) \in Nat /\ Len(t) = Len(s) + 1 /\ t[Len(s) + 1] = f
      /\ \A i \in 1 .. Len(s) : t[i] = s[i]
  <2>1. t = Append(s, f)
    BY AppendIsConcat
  <2> QED  BY <2>1, AppendProperties, LenProperties
<1> HIDE DEF t
<1>2. ASSUME NEW i \in 1 .. Len(t), NEW j \in 1 .. Len(t), i < j, t[i] \in A
      PROVE  t[j] \notin B
  <2>1. i \in 1 .. Len(s) /\ s[i] \in A
    BY <1>1, <1>2
  <2>2. CASE j = Len(s) + 1
    BY <1>1, <2>1, <2>2 DEF Has
  <2>3. CASE j \in 1 .. Len(s)
    BY <1>1, <1>2, <2>1, <2>3 DEF NoneAfter
  <2> QED  BY <1>1, <2>2, <2>3
<1>3. NoneAfter(t, A, B)
  BY <1>2 DEF NoneAfter
<1> QED  BY <1>3 DEF t

\* handle_chap's Success, the first and only one: the keys are those of the
\* exchange it accepts, and the CCP request is the first frame of its kind.
LEMMA ClientSuccess ==
    ASSUME TypeOK, TypeOK', stream_ok, SyncInv, KeysHeld, failed = "none", PeerStill,
           UNCHANGED <<ccp_done, local_ip, ip_configured, ready, mppe, bad>>,
           auth_done', Out' = Out \o <<CcpConfReq>>,
           s2c # << >>, s2c' = Tail(s2c), Head(s2c) \in Succs
    PROVE  SyncInv'
<1> DEFINE f == CcpConfReq
<1>1. s2c \in Seq(Frames) /\ Out \in Seq(Frames) /\ f \in Frames
  BY OutType, PeerFrames DEF TypeOK
<1>2. /\ s2c' \in Seq(Frames) /\ Head(s2c) \in Frames
      /\ \A A : Has(s2c, A) <=> Head(s2c) \in A \/ Has(s2c', A)
      /\ \A A, B : NoneAfter(s2c, A, B) => /\ NoneAfter(s2c', A, B)
                                           /\ Head(s2c) \in A => ~Has(s2c', B)
      /\ \A A, B : Guarded(s2c, A, B) => (Head(s2c) \notin A => Guarded(s2c', A, B))
      /\ Head(s2c) \notin Mppes => \A x, y : Chain(s2c, x, y) => Chain(s2c', x, y)
  BY <1>1, Taken
<1>3. /\ Head(s2c) \notin CcpReqs /\ Head(s2c) \notin CcpAcks /\ Head(s2c) \notin CcpNaks
      /\ Head(s2c) \notin CcpRefs /\ Head(s2c) \notin Ccps /\ Head(s2c) \notin Mppes
      /\ Head(s2c) \notin Nets
  BY <1>2, Kinds
<1>4. f.proto = "CCP" /\ f.code = "ConfReq"
  BY DEF CcpConfReq, Ctl
<1>5. /\ f \in CcpAsks /\ f \in Asks /\ f \notin CcpAcks /\ f \notin Mppes
      /\ f \notin Ips /\ f \notin AddrAsks
  BY <1>1, <1>4, Kinds
<1> HIDE DEF f
<1>6. <<f>> \in Seq(Frames) /\ \A A : Has(<<f>>, A) <=> f \in A
  BY <1>1, OneKind
<1>7. Out' = Out \o <<f>>
  BY DEF f
<1>8. /\ Out' \in Seq(Frames)
      /\ \A A : Has(Out', A) <=> Has(Out, A) \/ f \in A
      /\ \A A, B : Guarded(Out, A, B) /\ f \notin B => Guarded(Out', A, B)
      /\ \A x, y : Chain(Out, x, y) => Chain(Out', x, y)
  BY <1>1, <1>5, <1>6, <1>7, Added
<1>9. /\ OnceInv /\ Has(s2c, Succs) /\ ~auth_done /\ p_master # 0
      /\ mppe.master = p_master /\ ~Has(Out, Asks) /\ ~Has(s2c', Succs)
      /\ ~mppe.enabled
  BY <1>2 DEF SyncInv, OnceInv, AuthOnce, CcpOnce, KeysHeld
<1>10. NoneAfter(Out', Asks, CcpAsks)
  BY <1>1, <1>7, <1>9, OrderAppend DEF OnceInv, CcpOnce
<1>11. OnceInv'
  BY <1>2, <1>3, <1>5, <1>8, <1>9, <1>10
     DEF OnceInv, AuthOnce, CcpOnce, DataLast, PeerStill, Live
<1>12. p_policy.ccp = "grant" => GrantMarks' /\ GrantIn' /\ GrantOut'
  BY <1>2, <1>3, <1>5, <1>8, <1>9
     DEF SyncInv, GrantInv, GrantMarks, GrantIn, GrantOut, PeerStill, Live, Told
<1>13. p_policy.ccp = "grant" => GrantKeys'
  BY <1>2, <1>3, <1>8
     DEF SyncInv, GrantInv, GrantKeys, InChain, OutChain, Unused, ClientRecvEnd,
         ClientSendEnd, PeerRecvEnd, PeerSendEnd, PeerStill
<1>14. p_policy.ccp # "grant" /\ Regular => PlainInv'
  BY <1>2, <1>3, <1>5, <1>8, <1>9
     DEF SyncInv, PlainInv, Pending, PeerStill, Live, Told
<1>15. Regular' <=> Regular
  BY DEF Regular, PeerStill
<1> QED  BY <1>11, <1>12, <1>13, <1>14, <1>15 DEF SyncInv, GrantInv, PeerStill

\* handle_ccp: the keys restart at the first frame of CCP, before any packet.
LEMMA ClientCcp ==
    ASSUME TypeOK, TypeOK', stream_ok, SyncInv, PeerStill,
           UNCHANGED <<auth_done, local_ip, ip_configured, bad>>,
           ccp_done', ready' => ip_configured',
           NEW fs \in Seq(Frames), Out' = Out \o fs,
           ~Has(fs, CcpAsks), ~Has(fs, Mppes), ~Has(fs, Ips), ~Has(fs, AddrAsks),
           Head(s2c) \in CcpReqs => Has(fs, CcpAcks),
           s2c # << >>, s2c' = Tail(s2c),
           \/ /\ Head(s2c) \in CcpReqs \cup CcpAcks
              /\ mppe' = mppe_init_keys(mppe)
           \/ /\ Head(s2c) \in CcpRefs
              /\ mppe' = [mppe EXCEPT !.enabled = FALSE]
    PROVE  SyncInv'
<1> DEFINE h == Head(s2c)
<1>1. s2c \in Seq(Frames) /\ Out \in Seq(Frames) /\ mppe \in MppeStates
  BY OutType DEF TypeOK
<1>2. /\ s2c' \in Seq(Frames) /\ h \in Frames
      /\ \A A : Has(s2c, A) <=> h \in A \/ Has(s2c', A)
      /\ \A A, B : NoneAfter(s2c, A, B) => /\ NoneAfter(s2c', A, B)
                                           /\ h \in A => ~Has(s2c', B)
      /\ \A A, B : Guarded(s2c, A, B) => /\ h \notin B
                                         /\ h \notin A => Guarded(s2c', A, B)
      /\ h \notin Mppes => \A x, y : Chain(s2c, x, y) => Chain(s2c', x, y)
  BY <1>1, Taken
<1>3. /\ h \in Ccps /\ h \in Nets /\ h \notin Succs /\ h \notin Mppes /\ h \notin Sealed
      /\ h \in CcpAcks => h \in Later
      /\ h \in CcpNaks => h \in CcpRefs
      /\ ~(h \in CcpNaks /\ h \in CcpReqs)
  BY <1>2, Kinds
<1>4. /\ Out' \in Seq(Frames)
      /\ \A A : Has(Out', A) <=> Has(Out, A) \/ Has(fs, A)
      /\ \A A, B : NoneAfter(Out, A, B) /\ ~Has(fs, B) => NoneAfter(Out', A, B)
      /\ \A A, B : Guarded(Out, A, B) /\ ~Has(fs, B) => Guarded(Out', A, B)
      /\ ~Has(fs, Mppes) => \A x, y : Chain(Out, x, y) => Chain(Out', x, y)
  BY <1>1, Added
<1>5. OnceInv /\ auth_done /\ p_master # 0 /\ mppe.master = p_master
  BY <1>2, <1>3 DEF SyncInv, OnceInv, AuthOnce
<1>6. \/ /\ h \in CcpReqs \cup CcpAcks
         /\ mppe'.enabled /\ mppe'.master = p_master
         /\ SendEnd(mppe') = First(p_master) /\ RecvEnd(mppe') = First(p_master)
      \/ /\ h \in CcpRefs /\ h \notin CcpReqs /\ h \notin CcpAcks
         /\ ~mppe'.enabled /\ mppe'.master = p_master
  <2>1. CASE h \in CcpReqs \cup CcpAcks /\ mppe' = mppe_init_keys(mppe)
    BY <1>1, <1>5, <2>1, InitEnds
  <2>2. CASE h \in CcpRefs /\ mppe' = [mppe EXCEPT !.enabled = FALSE]
    <3>1. ~mppe'.enabled /\ mppe'.master = p_master
      BY <1>1, <1>5, <2>2 DEF MppeStates
    <3>2. h \notin CcpReqs /\ h \notin CcpAcks
      BY <1>2, <2>2, Kinds
    <3> QED  BY <2>2, <3>1, <3>2
  <2> QED  BY <2>1, <2>2
<1> HIDE DEF h
<1>7. OnceInv'
  BY <1>2, <1>3, <1>4, <1>5, <1>6
     DEF OnceInv, AuthOnce, CcpOnce, DataLast, PeerStill, Live
<1>8. ASSUME p_policy.ccp = "grant" PROVE GrantInv'
  <2>1. GrantInv /\ ~ip_configured /\ mppe'.enabled
        /\ SendEnd(mppe') = First(p_master) /\ RecvEnd(mppe') = First(p_master)
    BY <1>2, <1>3, <1>6, <1>8 DEF SyncInv, GrantInv, GrantIn
  <2>2. GrantMarks' /\ GrantIn'
    BY <1>2, <1>3, <1>4, <1>5, <2>1
       DEF GrantInv, GrantMarks, GrantIn, PeerStill, Live, Told
  <2>3. GrantOut'
    BY <1>2, <1>3, <1>4, <1>6, <2>1 DEF GrantInv, GrantIn, GrantOut, PeerStill, Live, h
  <2>4. GrantKeys'
    BY <1>2, <1>3, <1>4, <2>1
       DEF GrantInv, GrantKeys, InChain, OutChain, Unused, ClientRecvEnd,
           ClientSendEnd, PeerRecvEnd, PeerSendEnd, PeerStill
  <2> QED  BY <2>2, <2>3, <2>4 DEF GrantInv
<1>9. p_policy.ccp # "grant" /\ Regular => PlainInv'
  BY <1>2, <1>3, <1>4, <1>5, <1>6
     DEF SyncInv, PlainInv, Pending, PeerStill, Live, Told
<1>10. Regular' <=> Regular
  BY DEF Regular, PeerStill
<1> QED  BY <1>7, <1>8, <1>9, <1>10 DEF SyncInv, PeerStill

\* handle_ipcp: the address is requested only when the client's CCP answer is
\* under way, and set only when no CCP frame can follow.
LEMMA ClientIpcp ==
    ASSUME TypeOK, TypeOK', stream_ok, SyncInv, PeerStill, MppeStill,
           mppe'.master = mppe.master,
           UNCHANGED <<auth_done, bad>>,
           ccp_done', ready' => ip_configured', ip_configured => ip_configured',
           ip_configured' => ip_configured \/ Head(s2c) \in IpAcks,
           NEW fs \in Seq(Frames), Out' = Out \o fs,
           ~Has(fs, CcpAsks), ~Has(fs, Mppes), ~Has(fs, Ips),
           Has(fs, AddrAsks) => Head(s2c) \in IpNaks,
           s2c # << >>, s2c' = Tail(s2c), Head(s2c).proto = "IPCP"
    PROVE  SyncInv'
<1> DEFINE h == Head(s2c)
<1>1. s2c \in Seq(Frames) /\ Out \in Seq(Frames)
  BY OutType DEF TypeOK
<1>2. /\ s2c' \in Seq(Frames) /\ h \in Frames
      /\ \A A : Has(s2c, A) <=> h \in A \/ Has(s2c', A)
      /\ \A A, B : NoneAfter(s2c, A, B) => /\ NoneAfter(s2c', A, B)
                                           /\ h \in A => ~Has(s2c', B)
      /\ \A A, B : Guarded(s2c, A, B) => /\ h \notin B
                                         /\ h \notin A => Guarded(s2c', A, B)
      /\ h \notin Mppes => \A x, y : Chain(s2c, x, y) => Chain(s2c', x, y)
  BY <1>1, Taken
<1>3. /\ h \notin Ccps /\ h \in Nets /\ h \notin Succs /\ h \notin Mppes
      /\ h \notin CcpReqs /\ h \notin CcpAcks /\ h \notin CcpNaks /\ h \notin CcpRefs
      /\ h \in IpAcks => h \in Later /\ h \in Sealed
      /\ h \in IpNaks => h \in Later
  BY <1>2, Kinds
<1>4. /\ Out' \in Seq(Frames)
      /\ \A A : Has(Out', A) <=> Has(Out, A) \/ Has(fs, A)
      /\ \A A, B : NoneAfter(Out, A, B) /\ ~Has(fs, B) => NoneAfter(Out', A, B)
      /\ \A A, B : Guarded(Out, A, B) /\ (Has(Out, A) \/ ~Has(fs, B)) => Guarded(Out', A, B)
      /\ ~Has(fs, Mppes) => \A x, y : Chain(Out, x, y) => Chain(Out', x, y)
  BY <1>1, Added
<1>5. OnceInv /\ auth_done
  BY <1>2, <1>3 DEF SyncInv, OnceInv, AuthOnce
<1> HIDE DEF h
<1>6. OnceInv'
  BY <1>2, <1>3, <1>4, <1>5
     DEF OnceInv, AuthOnce, CcpOnce, DataLast, PeerStill, MppeStill, Live
<1>7. ASSUME p_policy.ccp = "grant" PROVE GrantInv'
  <2>1. GrantInv
    BY <1>7 DEF SyncInv
  <2>2. GrantMarks' /\ GrantIn'
    BY <1>2, <1>3, <1>4, <2>1
       DEF GrantInv, GrantMarks, GrantIn, PeerStill, MppeStill, Live, Told, h
  <2>3. GrantOut'
    BY <1>2, <1>3, <1>4, <2>1
       DEF GrantInv, GrantIn, GrantOut, PeerStill, MppeStill, Live, h
  <2>4. GrantKeys'
    BY <1>2, <1>3, <1>4, <2>1
       DEF GrantInv, GrantKeys, InChain, OutChain, Unused, ClientRecvEnd,
           ClientSendEnd, PeerRecvEnd, PeerSendEnd, PeerStill, MppeStill
  <2> QED  BY <2>2, <2>3, <2>4 DEF GrantInv
<1>8. p_policy.ccp # "grant" /\ Regular => PlainInv'
  BY <1>2, <1>3, <1>4
     DEF SyncInv, PlainInv, Pending, PeerStill, MppeStill, Live, Told, h
<1>9. Regular' <=> Regular
  BY DEF Regular, PeerStill
<1> QED  BY <1>6, <1>7, <1>8, <1>9 DEF SyncInv, PeerStill


\* handle_mppe: the packet is the next one of the chain.
LEMMA ClientMppe ==
    ASSUME TypeOK, TypeOK', stream_ok, SyncInv, NamedInv, PeerStill, PhaseStill, Out' = Out,
           s2c # << >>, s2c' = Tail(s2c), Head(s2c).proto = "MPPE",
           mppe' = (IF mppe.enabled THEN MppeCatchUp(mppe, Head(s2c)) ELSE mppe),
           bad' = (IF mppe.enabled /\ MppeReadable(mppe, Head(s2c))
                     THEN bad ELSE bad \cup {"client"})
    PROVE  SyncInv'
<1> DEFINE h == Head(s2c)
<1>1. s2c \in Seq(Frames) /\ Out \in Seq(Frames) /\ mppe \in MppeStates
  BY OutType DEF TypeOK
<1>2. /\ s2c' \in Seq(Frames) /\ h \in Frames
      /\ \A A : Has(s2c, A) <=> h \in A \/ Has(s2c', A)
      /\ \A A, B : NoneAfter(s2c, A, B) => /\ NoneAfter(s2c', A, B)
                                           /\ h \in A => ~Has(s2c', B)
      /\ \A A, B : Guarded(s2c, A, B) => /\ h \notin B
                                         /\ h \notin A => Guarded(s2c', A, B)
  BY <1>1, Taken
<1>3. /\ h \notin Ccps /\ h \in Nets /\ h \notin Succs /\ h \in Mppes
      /\ h \notin CcpReqs /\ h \notin CcpAcks /\ h \notin CcpNaks /\ h \notin CcpRefs
      /\ h \in Later /\ h \in Sealed
  BY <1>2, Kinds
<1>4. mppe'.enabled = mppe.enabled /\ mppe'.master = mppe.master
  BY <1>1 DEF MppeCatchUp, MppeStates
<1>5. OnceInv /\ Opened(p_ccp)
  BY <1>2, <1>3 DEF SyncInv, OnceInv, DataLast
<1>6. OnceInv'
  BY <1>2, <1>3, <1>4, <1>5
     DEF OnceInv, AuthOnce, CcpOnce, DataLast, PeerStill, PhaseStill, Live
<1>7. ASSUME p_policy.ccp = "grant" PROVE GrantInv' /\ bad' = bad
  <2>1. GrantInv /\ mppe.enabled /\ ~Has(s2c, Ccps)
    BY <1>2, <1>3, <1>7 DEF SyncInv, GrantInv, GrantIn
  <2>2. Chain(s2c, RecvEnd(mppe), PeerSendEnd)
    BY <2>1 DEF GrantInv, GrantKeys, InChain, ClientRecvEnd
  <2>3. /\ Chain(s2c', Succ(RecvEnd(mppe)), PeerSendEnd)
        /\ h.key = Succ(RecvEnd(mppe)).key /\ h.val = Succ(RecvEnd(mppe)).cnt
    BY <1>1, <1>3, <2>2, ChainTail
  <2>4. /\ MppeReadable(mppe, h) /\ RecvEnd(mppe') = Succ(RecvEnd(mppe))
        /\ SendEnd(mppe') = SendEnd(mppe)
    BY <1>1, <1>2, <2>1, <2>3, ReadNext DEF NamedInv
  <2> HIDE DEF h
  <2>5. PeerSendEnd' = PeerSendEnd
    BY DEF PeerSendEnd, PeerStill
  <2>6. InChain'
    BY <1>2, <1>4, <2>1, <2>3, <2>4, <2>5 DEF InChain, ClientRecvEnd
  <2>7. OutChain' /\ Unused'
    BY <1>4, <2>1, <2>4
       DEF GrantInv, GrantKeys, OutChain, Unused, ClientSendEnd, PeerRecvEnd,
           PeerStill, PhaseStill
  <2>8. GrantMarks' /\ GrantIn' /\ GrantOut'
    BY <1>2, <1>3, <1>4, <2>1
       DEF GrantInv, GrantMarks, GrantIn, GrantOut, PeerStill, PhaseStill, Live, Told
  <2>9. bad' = bad
    BY <2>1, <2>4 DEF h
  <2> QED  BY <2>6, <2>7, <2>8, <2>9 DEF GrantInv, GrantKeys
<1>8. ~(p_policy.ccp # "grant" /\ Regular)
  BY <1>5 DEF SyncInv, PlainInv, Opened
<1>9. Regular' <=> Regular
  BY DEF Regular, PeerStill
<1> QED  BY <1>6, <1>7, <1>8, <1>9 DEF SyncInv, PeerStill

\* ppp_send_ip_plain_or_mppe: encrypted exactly when the server expects it, and
\* the next packet of the chain.
LEMMA ClientData ==
    ASSUME TypeOK, TypeOK', stream_ok, SyncInv, NamedInv, PeerStill, PhaseStill, ready,
           s2c' = s2c, bad' = bad, NEW f \in Frames, Out' = Out \o <<f>>,
           \/ /\ mppe.enabled /\ mppe' = MppeAdvance(mppe)
              /\ f = MppeFrame(MppeAdvance(mppe))
           \/ ~mppe.enabled /\ mppe' = mppe /\ f = IpFrame
    PROVE  SyncInv'
<1>1. s2c \in Seq(Frames) /\ Out \in Seq(Frames) /\ mppe \in MppeStates
  BY OutType DEF TypeOK
<1>2. <<f>> \in Seq(Frames) /\ \A A : Has(<<f>>, A) <=> f \in A
  BY OneKind
<1>3. /\ Out' \in Seq(Frames)
      /\ \A A : Has(Out', A) <=> Has(Out, A) \/ f \in A
      /\ \A A, B : NoneAfter(Out, A, B) /\ f \notin B => NoneAfter(Out', A, B)
      /\ \A A, B : Guarded(Out, A, B) /\ f \notin B => Guarded(Out', A, B)
  BY <1>1, <1>2, Added
<1>4. f.proto = "MPPE" \/ f.proto = "IP"
  BY <1>1, SendNext DEF IpFrame, Ctl
<1>5. /\ f \notin Asks /\ f \notin CcpAsks /\ f \notin CcpAcks /\ f \notin AddrAsks
      /\ (f.proto = "IP" => f \notin Mppes) /\ (f.proto = "MPPE" => f \notin Ips /\ f \in Mppes)
  BY <1>4, Kinds
<1>6. mppe'.enabled = mppe.enabled /\ mppe'.master = mppe.master
  BY <1>1, SendNext
<1>7. OnceInv /\ ip_configured
  BY DEF SyncInv, OnceInv, DataLast
<1>8. OnceInv'
  BY <1>3, <1>5, <1>6, <1>7
     DEF OnceInv, AuthOnce, CcpOnce, DataLast, PeerStill, PhaseStill, Live
<1>9. ASSUME p_policy.ccp = "grant" PROVE GrantInv'
  <2>1. GrantInv /\ mppe.enabled
    BY <1>7, <1>9 DEF SyncInv, GrantInv, GrantIn
  <2>2. /\ f.proto = "MPPE" /\ f \in Mppes /\ f \notin Ips
        /\ SendEnd(mppe') = Succ(SendEnd(mppe)) /\ RecvEnd(mppe') = RecvEnd(mppe)
        /\ f.key = Succ(SendEnd(mppe)).key /\ f.val = Succ(SendEnd(mppe)).cnt
    BY <1>1, <1>5, <2>1, SendNext DEF NamedInv
  <2>3. Chain(Out, PeerRecvEnd, SendEnd(mppe)) /\ Succ(SendEnd(mppe)) \in Ends
    BY <1>1, <2>1, EndTypes DEF GrantInv, GrantKeys, OutChain, ClientSendEnd
  <2>4. Chain(Out', PeerRecvEnd, Succ(SendEnd(mppe)))
    BY <1>1, <2>2, <2>3, ChainAppend
  <2>5. PeerRecvEnd' = PeerRecvEnd
    BY DEF PeerRecvEnd, PeerStill
  <2>6. OutChain'
    BY <1>6, <2>1, <2>2, <2>4, <2>5 DEF OutChain, ClientSendEnd
  <2>7. InChain' /\ Unused'
    BY <1>6, <1>7, <2>1, <2>2
       DEF GrantInv, GrantKeys, InChain, Unused, ClientRecvEnd, PeerSendEnd,
           PeerStill, PhaseStill
  <2>8. GrantMarks' /\ GrantIn' /\ GrantOut'
    BY <1>3, <1>5, <1>6, <2>1, <2>2
       DEF GrantInv, GrantMarks, GrantIn, GrantOut, PeerStill, PhaseStill, Live, Told
  <2> QED  BY <2>6, <2>7, <2>8 DEF GrantInv, GrantKeys
<1>10. ASSUME p_policy.ccp # "grant", Regular PROVE PlainInv'
  <2>1. PlainInv /\ ~mppe.enabled
    BY <1>7, <1>10 DEF SyncInv, PlainInv, Pending
  <2>2. f \notin Mppes /\ mppe' = mppe
    BY <1>5, <2>1 DEF IpFrame, Ctl
  <2> QED  BY <1>3, <1>5, <2>1, <2>2
           DEF PlainInv, Pending, PeerStill, PhaseStill, Live, Told
<1>11. Regular' <=> Regular
  BY DEF Regular, PeerStill
<1> QED  BY <1>8, <1>9, <1>10, <1>11 DEF SyncInv, PeerStill


\* An LCP or CHAP frame is none of the frames the argument looks at.
LEMMA LinkFrame ==
    ASSUME NEW p \in {"LCP", "CHAP"}, NEW c \in Codes, NEW v \in Nat
    PROVE  <<Ctl(p, c, v)>> \in Seq(Frames) /\ ~Has(<<Ctl(p, c, v)>>, Nets)
<1> DEFINE f == Ctl(p, c, v)
<1>1. f \in Frames
  BY CtlFrame DEF Protos
<1>2. f.proto = p
  BY DEF Ctl
<1> HIDE DEF f
<1>3. f \notin Nets
  BY <1>1, <1>2, Kinds
<1>4. <<f>> \in Seq(Frames) /\ ~Has(<<f>>, Nets)
  BY <1>1, <1>3, OneKind
<1> QED  BY <1>4 DEF f

\* What a received frame leaves to the server.
LEMMA DispatchStill ==
    ASSUME NEW p, NEW cs, Dispatch(p, cs), sent' = sent
    PROVE  PeerStill
BY DEF Dispatch, peerVars, PeerStill

\* Start, the completions, LCP, and CHAP but for the Success.
LEMMA LinkSteps ==
    ASSUME TypeOK, TypeOK', TxNotStalled, KeysHeld', stream_ok, SyncInv,
           \/ Start \/ SendComplete \/ LcpConfReqRcvd \/ LcpConfAckRcvd
           \/ LcpConfNakRcvd \/ LcpTermReqRcvd \/ LcpEchoReqRcvd \/ LcpOtherRcvd
           \/ ChapChallengeRcvd \/ ChapFailureRcvd \/ IpRcvd
    PROVE  SyncInv'
<1> USE DEF Codes
<1>t. /\ Out \in Seq(Frames) /\ s2c \in Seq(Frames) /\ mppe \in MppeStates
      /\ Out = Out \o << >> /\ << >> \in Seq(Frames) /\ ~Has(<< >>, Nets)
      /\ auth_done => mppe.master = p_master
  BY OutType, NoneIn, ConcatEmptySeq, HasOne DEF TypeOK, SyncInv, OnceInv, AuthOnce
<1>lcp. <<LcpConfReq>> \in Seq(Frames) /\ ~Has(<<LcpConfReq>>, Nets)
  BY LinkFrame DEF LcpConfReq
<1>1. ASSUME Start PROVE SyncInv'
  <2>1. PeerStill /\ PhaseStill /\ MppeStill /\ UNCHANGED <<bad, mppe, s2c>>
    BY <1>1 DEF Start, PeerStill, PhaseStill, MppeStill, peerVars, upVars
  <2>2. Out' = Out \o <<LcpConfReq>>
    BY <1>1, <1>lcp, TransmitOut DEF Start
  <2> QED  BY <1>t, <1>lcp, <2>1, <2>2, ClientCalm
<1>2. ASSUME SendComplete PROVE SyncInv'
  <2>1. PeerStill /\ PhaseStill /\ MppeStill /\ UNCHANGED <<bad, mppe, s2c>>
    BY <1>2 DEF SendComplete, PeerStill, PhaseStill, MppeStill, peerVars, clientVars, upVars
  <2>2. Out' = Out \o << >>
    BY <1>2, <1>t, CompleteOut
  <2> QED  BY <1>t, <2>1, <2>2, ClientCalm
<1>3. ASSUME NEW p \in {"LCP", "CHAP", "IP"}, NEW cs, "Success" \notin cs, Dispatch(p, cs),
             UNCHANGED <<auth_done, ccp_done, upVars, mppe, sent, bad>>,
             NEW fs \in Seq(Frames), ~Has(fs, Nets), Out' = Out \o fs
      PROVE  SyncInv'
  <2>1. /\ s2c # << >> /\ s2c' = Tail(s2c) /\ Head(s2c) \in Frames
        /\ Head(s2c).proto \in {"LCP", "CHAP", "IP"} /\ Head(s2c).code # "Success"
    BY <1>3, Received
  <2>2. Head(s2c) \notin Succs
    BY <2>1, Kinds
  <2>3. PeerStill /\ PhaseStill /\ MppeStill
    BY <1>3, DispatchStill DEF PhaseStill, MppeStill, upVars
  <2> QED  BY <1>t, <1>3, <2>1, <2>2, <2>3, ClientCalm
<1>4. ASSUME LcpConfReqRcvd PROVE SyncInv'
  <2> DEFINE a == <<Ctl("LCP", "ConfAck", 0)>>
             b == IF lcp_opened THEN << >> ELSE <<LcpConfReq>>
  <2>1. a \in Seq(Frames) /\ ~Has(a, Nets) /\ b \in Seq(Frames) /\ ~Has(b, Nets)
    BY <1>t, <1>lcp, LinkFrame
  <2>2. Transmit(a \o b)
    BY <1>4 DEF LcpConfReqRcvd
  <2> HIDE DEF a, b
  <2>3. a \o b \in Seq(Frames) /\ ~Has(a \o b, Nets)
    BY <2>1, HasConcat, ConcatProperties
  <2>4. Out' = Out \o (a \o b)
    BY <2>2, <2>3, TransmitOut
  <2>5. Dispatch("LCP", {"ConfReq"})
        /\ UNCHANGED <<auth_done, ccp_done, upVars, mppe, sent, bad>>
    BY <1>4 DEF LcpConfReqRcvd
  <2> QED  BY <1>3, <2>3, <2>4, <2>5
<1>5. ASSUME LcpConfAckRcvd \/ LcpOtherRcvd \/ IpRcvd \/ ChapFailureRcvd PROVE SyncInv'
  <2>1. Out' = Out \o << >>
    BY <1>5, <1>t DEF LcpConfAckRcvd, LcpOtherRcvd, IpRcvd, ChapFailureRcvd, txVars, Out, Held
  <2>2. /\ UNCHANGED <<auth_done, ccp_done, upVars, mppe, sent, bad>>
        /\ \/ Dispatch("LCP", {"ConfAck"})
           \/ Dispatch("LCP", Codes \ {"ConfReq", "ConfAck", "ConfNak", "ConfRej",
                                       "TermReq", "EchoReq"})
           \/ Dispatch("IP", {"Data"}) \/ Dispatch("CHAP", {"Failure"})
    BY <1>5 DEF LcpConfAckRcvd, LcpOtherRcvd, IpRcvd, ChapFailureRcvd
  <2>3. CASE Dispatch("LCP", Codes \ {"ConfReq", "ConfAck", "ConfNak", "ConfRej",
                                       "TermReq", "EchoReq"})
    <3>1. /\ s2c # << >> /\ s2c' = Tail(s2c) /\ Head(s2c) \in Frames
          /\ Head(s2c).proto = "LCP"
      BY <2>3, Received
    <3>2. Head(s2c) \notin Succs
      BY <3>1, Kinds
    <3>3. PeerStill /\ PhaseStill /\ MppeStill
      BY <2>2, <2>3, DispatchStill DEF PhaseStill, MppeStill, upVars
    <3> QED  BY <1>t, <2>1, <2>2, <3>1, <3>2, <3>3, ClientCalm
  <2> QED  BY <1>t, <1>3, <2>1, <2>2, <2>3
<1>6. ASSUME LcpConfNakRcvd PROVE SyncInv'
  <2>1. /\ Dispatch("LCP", {"ConfNak", "ConfRej"})
        /\ UNCHANGED <<auth_done, ccp_done, upVars, mppe, sent, bad>>
        /\ Out' = Out \o <<LcpConfReq>>
    BY <1>6, <1>lcp, TransmitOut DEF LcpConfNakRcvd
  <2> QED  BY <1>3, <1>lcp, <2>1
<1>7. ASSUME LcpTermReqRcvd PROVE SyncInv'
  <2> DEFINE a == <<Ctl("LCP", "TermAck", 0)>>
  <2>1. a \in Seq(Frames) /\ ~Has(a, Nets)
    BY LinkFrame
  <2>2. /\ Dispatch("LCP", {"TermReq"}) /\ Transmit(a)
        /\ UNCHANGED <<auth_done, ccp_done, upVars, mppe, sent, bad>>
    BY <1>7 DEF LcpTermReqRcvd
  <2> HIDE DEF a
  <2>3. Out' = Out \o a
    BY <2>1, <2>2, TransmitOut
  <2> QED  BY <1>3, <2>1, <2>2, <2>3
<1>8. ASSUME LcpEchoReqRcvd PROVE SyncInv'
  <2> DEFINE a == <<Ctl("LCP", "EchoRep", 0)>>
  <2>1. a \in Seq(Frames) /\ ~Has(a, Nets)
    BY LinkFrame
  <2>2. /\ Dispatch("LCP", {"EchoReq"}) /\ Transmit(a)
        /\ UNCHANGED <<auth_done, ccp_done, upVars, mppe, sent, bad>>
    BY <1>8 DEF LcpEchoReqRcvd
  <2> HIDE DEF a
  <2>3. Out' = Out \o a
    BY <2>1, <2>2, TransmitOut
  <2> QED  BY <1>3, <2>1, <2>2, <2>3
<1>9. ASSUME ChapChallengeRcvd PROVE SyncInv'
  <2> DEFINE a == <<Ctl("CHAP", "Response", Head(s2c).val)>>
  <2>1. /\ s2c # << >> /\ s2c' = Tail(s2c) /\ Head(s2c) \in Frames
        /\ Head(s2c).val \in Nat /\ Head(s2c).proto = "CHAP" /\ Head(s2c).code = "Challenge"
    BY <1>9, Received DEF ChapChallengeRcvd
  <2>2. Head(s2c) \notin Succs
    BY <2>1, Kinds
  <2>3. a \in Seq(Frames) /\ ~Has(a, Nets)
    BY <2>1, LinkFrame
  <2>4. Transmit(a) /\ PeerStill /\ PhaseStill /\ bad' = bad
    BY <1>9, DispatchStill DEF ChapChallengeRcvd, PhaseStill, upVars
  <2>5. MppeStill /\ (auth_done => mppe'.master = p_master)
    <3>1. CASE failed' = "none"
      <4>1. mppe' = [mppe EXCEPT !.master = Head(s2c).val]
        BY <1>9, <3>1 DEF ChapChallengeRcvd, sstp_pppd_set_mppe_keys
      <4>2. MppeStill
        BY <1>t, <4>1 DEF MppeStill, MppeStates, SendEnd, RecvEnd
      <4>3. auth_done => p_master # 0
        BY DEF SyncInv, OnceInv, AuthOnce
      <4>4. p_master' = p_master
        BY <2>4 DEF PeerStill
      <4> QED  BY <3>1, <4>2, <4>3, <4>4 DEF KeysHeld
    <3>2. CASE failed' # "none"
      BY <1>9, <1>t, <3>2 DEF ChapChallengeRcvd, MppeStill
    <3> QED  BY <3>1, <3>2
  <2> HIDE DEF a
  <2>6. Out' = Out \o a
    BY <2>3, <2>4, TransmitOut
  <2> QED  BY <2>1, <2>2, <2>3, <2>4, <2>5, <2>6, ClientCalm
<1> QED  BY <1>1, <1>2, <1>4, <1>5, <1>6, <1>7, <1>8, <1>9


\* The request ccp_finished sends asks for no address yet.
LEMMA FinishedKinds ==
    ASSUME TypeOK, CcpOnce
    PROVE  /\ CcpFinishedFrames \in Seq(Frames)
           /\ ~Has(CcpFinishedFrames, CcpAsks) /\ ~Has(CcpFinishedFrames, Mppes)
           /\ ~Has(CcpFinishedFrames, Ips) /\ ~Has(CcpFinishedFrames, AddrAsks)
<1> DEFINE f == IpcpConfReq(local_ip)
<1>1. CcpFinishedFrames \in Seq(Frames) /\ f \in Frames
  BY CcpFinishedType, CtlFrame DEF IpcpConfReq, TypeOK, Protos, Codes
<1>2. f.proto = "IPCP" /\ f.code = "ConfReq" /\ f.val = local_ip
  BY DEF IpcpConfReq, Ctl
<1>3. CcpFinishedFrames = (IF ~ccp_done /\ auth_done THEN <<f>> ELSE << >>)
  BY DEF CcpFinishedFrames
<1> HIDE DEF f
<1>4. CASE ~ccp_done
  <2>1. f.val # Assigned
    BY <1>2, <1>4, ConstantsAssumption DEF CcpOnce
  <2>2. f \notin CcpAsks /\ f \notin Mppes /\ f \notin Ips /\ f \notin AddrAsks
    BY <1>1, <1>2, <2>1, Kinds
  <2> QED  BY <1>1, <1>3, <2>2, HasOne
<1>5. CASE ccp_done
  BY <1>1, <1>3, <1>5, HasOne
<1> QED  BY <1>4, <1>5

\* The link is reported ready only with its address.
LEMMA ReadyLast ==
    ASSUME TypeOK, NEW due, NotifyUp(due), ready => ip_configured,
           ip_configured => ip_configured', due => ip_configured'
    PROVE  ready' => ip_configured'
BY DEF NotifyUp, TypeOK

\* handle_chap's Success and handle_ccp.
LEMMA CcpSteps ==
    ASSUME TypeOK, TypeOK', TxNotStalled, KeysHeld, stream_ok, SyncInv,
           ChapSuccessRcvd \/ CcpConfReqRcvd \/ CcpConfAckRcvd \/ CcpConfRejRcvd
    PROVE  SyncInv'
<1> USE DEF Codes
<1>t. CcpOnce /\ (ready => ip_configured)
  BY DEF SyncInv, OnceInv, DataLast
<1> DEFINE F == CcpFinishedFrames
<1>f. /\ F \in Seq(Frames)
      /\ ~Has(F, CcpAsks) /\ ~Has(F, Mppes) /\ ~Has(F, Ips) /\ ~Has(F, AddrAsks)
  BY <1>t, FinishedKinds
<1>1. ASSUME ChapSuccessRcvd PROVE SyncInv'
  <2>1. /\ s2c # << >> /\ s2c' = Tail(s2c) /\ Head(s2c) \in Frames
        /\ Head(s2c).proto = "CHAP" /\ Head(s2c).code \in {"Success"}
    <3>1. Dispatch("CHAP", {"Success"})
      BY <1>1 DEF ChapSuccessRcvd
    <3> QED  BY <3>1, Received
  <2>2. Head(s2c) \in Succs
    BY <2>1, Kinds
  <2>3. /\ PeerStill /\ failed = "none" /\ auth_done' /\ Transmit(<<CcpConfReq>>)
        /\ UNCHANGED <<ccp_done, local_ip, ip_configured, ready, mppe, bad>>
    BY <1>1, DispatchStill DEF ChapSuccessRcvd, Dispatch, upVars
  <2>4. Out' = Out \o <<CcpConfReq>>
    BY <2>3, TransmitOut, PeerFrames, OneIn
  <2> QED  BY <2>1, <2>2, <2>3, <2>4, ClientSuccess
<1>2. ASSUME CcpConfReqRcvd PROVE SyncInv'
  <2> DEFINE f == Ctl("CCP", "ConfAck", 0)
             fs == <<f>> \o F
  <2>1. /\ s2c # << >> /\ s2c' = Tail(s2c) /\ Head(s2c) \in Frames
        /\ Head(s2c).proto = "CCP" /\ Head(s2c).code \in {"ConfReq"}
    <3>1. Dispatch("CCP", {"ConfReq"})
      BY <1>2 DEF CcpConfReqRcvd
    <3> QED  BY <3>1, Received
  <2>2. Head(s2c) \in CcpReqs \cup CcpAcks
    BY <2>1, Kinds
  <2>3. /\ PeerStill /\ Transmit(fs) /\ mppe' = mppe_init_keys(mppe) /\ ccp_done'
        /\ UNCHANGED <<auth_done, local_ip, ip_configured, bad>>
        /\ NotifyUp(ReadyForUp(ip_configured, local_ip, TRUE))
    BY <1>2, DispatchStill DEF CcpConfReqRcvd
  <2>4. ready' => ip_configured'
    BY <1>t, <2>3, ReadyLast DEF ReadyForUp
  <2>5. f \in Frames /\ f.proto = "CCP" /\ f.code = "ConfAck"
    BY PeerFrames DEF Ctl
  <2> HIDE DEF f, F
  <2>6. /\ f \in CcpAcks /\ f \notin CcpAsks /\ f \notin Mppes /\ f \notin Ips
        /\ f \notin AddrAsks /\ <<f>> \in Seq(Frames) /\ \A A : Has(<<f>>, A) <=> f \in A
    BY <2>5, Kinds, OneKind
  <2>7. fs \in Seq(Frames) /\ \A A : Has(fs, A) <=> f \in A \/ Has(F, A)
    BY <1>f, <2>6, Added
  <2> HIDE DEF fs
  <2>8. Out' = Out \o fs
    BY <2>3, <2>7, TransmitOut
  <2>9. /\ ~Has(fs, CcpAsks) /\ ~Has(fs, Mppes) /\ ~Has(fs, Ips) /\ ~Has(fs, AddrAsks)
        /\ Has(fs, CcpAcks)
    BY <1>f, <2>6, <2>7
  <2> QED  BY <2>1, <2>2, <2>3, <2>4, <2>7, <2>8, <2>9, ClientCcp
<1>3. ASSUME CcpConfAckRcvd PROVE SyncInv'
  <2>1. /\ s2c # << >> /\ s2c' = Tail(s2c) /\ Head(s2c) \in Frames
        /\ Head(s2c).proto = "CCP" /\ Head(s2c).code \in {"ConfAck"}
    <3>1. Dispatch("CCP", {"ConfAck"})
      BY <1>3 DEF CcpConfAckRcvd
    <3> QED  BY <3>1, Received
  <2>2. Head(s2c) \in CcpReqs \cup CcpAcks /\ Head(s2c) \notin CcpReqs
    BY <2>1, Kinds
  <2>3. /\ PeerStill /\ Transmit(F) /\ mppe' = mppe_init_keys(mppe) /\ ccp_done'
        /\ UNCHANGED <<auth_done, local_ip, ip_configured, bad>>
        /\ NotifyUp(ReadyForUp(ip_configured, local_ip, TRUE))
    BY <1>3, DispatchStill DEF CcpConfAckRcvd
  <2>4. ready' => ip_configured'
    BY <1>t, <2>3, ReadyLast DEF ReadyForUp
  <2> HIDE DEF F
  <2>5. Out' = Out \o F
    BY <1>f, <2>3, TransmitOut
  <2> QED  BY <1>f, <2>1, <2>2, <2>3, <2>4, <2>5, ClientCcp
<1>4. ASSUME CcpConfRejRcvd PROVE SyncInv'
  <2>1. /\ s2c # << >> /\ s2c' = Tail(s2c) /\ Head(s2c) \in Frames
        /\ Head(s2c).proto = "CCP" /\ Head(s2c).code \in {"ConfRej", "ConfNak"}
    <3>1. Dispatch("CCP", {"ConfRej", "ConfNak"})
      BY <1>4 DEF CcpConfRejRcvd
    <3> QED  BY <3>1, Received
  <2>2. Head(s2c) \in CcpRefs /\ Head(s2c) \notin CcpReqs
    BY <2>1, Kinds
  <2>3. /\ PeerStill /\ Transmit(F) /\ ccp_done'
        /\ mppe' = [mppe EXCEPT !.enabled = FALSE]
        /\ UNCHANGED <<auth_done, local_ip, ip_configured, bad>>
        /\ NotifyUp(ReadyForUp(ip_configured, local_ip, TRUE))
    BY <1>4, DispatchStill DEF CcpConfRejRcvd
  <2>4. ready' => ip_configured'
    BY <1>t, <2>3, ReadyLast DEF ReadyForUp
  <2> HIDE DEF F
  <2>5. Out' = Out \o F
    BY <1>f, <2>3, TransmitOut
  <2> QED  BY <1>f, <2>1, <2>2, <2>3, <2>4, <2>5, ClientCcp
<1> QED  BY <1>1, <1>2, <1>3, <1>4

\* handle_ipcp's preamble switches off what is off already.
LEMMA Preamble ==
    ASSUME TypeOK, CcpOnce, auth_done, IpcpPreamble
    PROVE  MppeStill /\ mppe'.master = mppe.master /\ ccp_done'
<1>1. mppe \in MppeStates
  BY DEF TypeOK
<1>2. CASE ccp_done
  BY <1>2 DEF IpcpPreamble, IpcpEarly, MppeStill
<1>3. CASE ~ccp_done
  <2>1. mppe' = [mppe EXCEPT !.enabled = FALSE] /\ mppe.enabled = FALSE
    BY <1>1, <1>3 DEF IpcpPreamble, IpcpEarly, CcpOnce, MppeStates
  <2>2. ccp_done'
    BY <1>3 DEF IpcpPreamble, IpcpEarly
  <2> QED  BY <1>1, <2>1, <2>2 DEF MppeStill, MppeStates, SendEnd, RecvEnd
<1> QED  BY <1>2, <1>3

\* handle_ipcp.
LEMMA IpcpSteps ==
    ASSUME TypeOK, TypeOK', TxNotStalled, stream_ok, SyncInv,
           \/ IpcpConfReqRcvd \/ IpcpConfAckRcvd \/ IpcpConfNakRcvd \/ IpcpOtherRcvd
    PROVE  SyncInv'
<1> USE DEF Codes
<1>t. CcpOnce /\ (ready => ip_configured)
  BY DEF SyncInv, OnceInv, DataLast
<1> DEFINE F == CcpFinishedFrames
           h == Head(s2c)
<1>f. /\ F \in Seq(Frames)
      /\ ~Has(F, CcpAsks) /\ ~Has(F, Mppes) /\ ~Has(F, Ips) /\ ~Has(F, AddrAsks)
  BY <1>t, FinishedKinds
<1>1. ASSUME NEW cs, Dispatch("IPCP", cs), IpcpPreamble,
             UNCHANGED <<auth_done, sent, bad>>
      PROVE  /\ s2c # << >> /\ s2c' = Tail(s2c) /\ h \in Frames /\ h.val \in Nat
             /\ h.proto = "IPCP" /\ h.code \in cs
             /\ PeerStill /\ MppeStill /\ mppe'.master = mppe.master /\ ccp_done'
  <2>1. /\ s2c # << >> /\ s2c' = Tail(s2c) /\ h \in Frames /\ h.val \in Nat
        /\ h.proto = "IPCP" /\ h.code \in cs
    BY <1>1, Received
  <2>2. PeerStill
    BY <1>1, DispatchStill
  <2>3. auth_done
    <3>1. h \in Nets /\ h \notin Succs /\ s2c \in Seq(Frames)
      BY <2>1, Kinds DEF TypeOK
    <3>2. Guarded(s2c, Succs, Nets) => h \notin Nets
      BY <2>1, <3>1, GuardTail
    <3> QED  BY <3>1, <3>2 DEF SyncInv, OnceInv, AuthOnce
  <2>4. MppeStill /\ mppe'.master = mppe.master /\ ccp_done'
    BY <1>1, <1>t, <2>3, Preamble
  <2> QED  BY <2>1, <2>2, <2>4
<1>2. ASSUME NEW f \in Frames, f.proto = "IPCP"
      PROVE  /\ F \o <<f>> \in Seq(Frames)
             /\ ~Has(F \o <<f>>, CcpAsks) /\ ~Has(F \o <<f>>, Mppes) /\ ~Has(F \o <<f>>, Ips)
             /\ Has(F \o <<f>>, AddrAsks) <=> f \in AddrAsks
  <2>1. f \notin CcpAsks /\ f \notin Mppes /\ f \notin Ips
    BY <1>2, Kinds
  <2>2. <<f>> \in Seq(Frames) /\ \A A : Has(<<f>>, A) <=> f \in A
    BY OneKind
  <2> HIDE DEF F
  <2>3. F \o <<f>> \in Seq(Frames) /\ \A A : Has(F \o <<f>>, A) <=> Has(F, A) \/ f \in A
    BY <1>f, <2>2, Added
  <2> QED  BY <1>f, <2>1, <2>3
<1>3. ASSUME IpcpConfReqRcvd PROVE SyncInv'
  <2> DEFINE f == Ctl("IPCP", "ConfAck", h.val)
             fs == F \o <<f>>
  <2>1. /\ Dispatch("IPCP", {"ConfReq"}) /\ IpcpPreamble /\ Transmit(fs)
        /\ UNCHANGED <<auth_done, local_ip, ip_configured, sent, bad>>
        /\ NotifyUp(IpcpEarly /\ ReadyForUp(ip_configured, local_ip, TRUE))
    BY <1>3 DEF IpcpConfReqRcvd
  <2>2. ready' => ip_configured'
    BY <1>t, <2>1, ReadyLast DEF ReadyForUp
  <2>3. /\ s2c # << >> /\ s2c' = Tail(s2c) /\ h \in Frames /\ h.val \in Nat
        /\ h.proto = "IPCP"
        /\ PeerStill /\ MppeStill /\ mppe'.master = mppe.master /\ ccp_done'
    BY <1>1, <2>1
  <2>4. f \in Frames /\ f.proto = "IPCP" /\ f.code = "ConfAck"
    BY <2>3, CtlFrame DEF Ctl, Protos
  <2> HIDE DEF f, F
  <2>5. f \notin AddrAsks
    BY <2>4, Kinds
  <2>6. /\ fs \in Seq(Frames) /\ ~Has(fs, CcpAsks) /\ ~Has(fs, Mppes) /\ ~Has(fs, Ips)
        /\ ~Has(fs, AddrAsks)
    BY <1>2, <2>4, <2>5
  <2> HIDE DEF fs
  <2>7. Out' = Out \o fs
    BY <2>1, <2>6, TransmitOut
  <2> QED  BY <2>1, <2>2, <2>3, <2>6, <2>7, ClientIpcp
<1>4. ASSUME IpcpConfAckRcvd PROVE SyncInv'
  <2>1. /\ Dispatch("IPCP", {"ConfAck"}) /\ IpcpPreamble /\ Transmit(F)
        /\ UNCHANGED <<auth_done, sent, bad>>
        /\ local_ip' = h.val /\ ip_configured' = (ip_configured \/ local_ip' # 0)
        /\ NotifyUp(\/ IpcpEarly /\ ReadyForUp(ip_configured, local_ip, TRUE)
                    \/ ReadyForUp(local_ip' # 0, local_ip', ccp_done'))
    BY <1>4 DEF IpcpConfAckRcvd
  <2>2. ready' => ip_configured'
    BY <1>t, <2>1, ReadyLast DEF ReadyForUp
  <2>3. /\ s2c # << >> /\ s2c' = Tail(s2c) /\ h \in Frames /\ h.val \in Nat
        /\ h.proto = "IPCP" /\ h.code = "ConfAck"
        /\ PeerStill /\ MppeStill /\ mppe'.master = mppe.master /\ ccp_done'
    BY <1>1, <2>1
  <2>4. h \in IpAcks
    BY <2>3, Kinds
  <2> HIDE DEF F
  <2>5. Out' = Out \o F
    BY <1>f, <2>1, TransmitOut
  <2> QED  BY <1>f, <2>1, <2>2, <2>3, <2>4, <2>5, ClientIpcp
<1>5. ASSUME IpcpConfNakRcvd PROVE SyncInv'
  <2> DEFINE f == IpcpConfReq(h.val)
             fs == F \o <<f>>
  <2>1. /\ Dispatch("IPCP", {"ConfNak"}) /\ IpcpPreamble /\ Transmit(fs)
        /\ UNCHANGED <<auth_done, ip_configured, sent, bad>>
        /\ NotifyUp(IpcpEarly /\ ReadyForUp(ip_configured, local_ip, TRUE))
    BY <1>5 DEF IpcpConfNakRcvd
  <2>2. ready' => ip_configured'
    BY <1>t, <2>1, ReadyLast DEF ReadyForUp
  <2>3. /\ s2c # << >> /\ s2c' = Tail(s2c) /\ h \in Frames /\ h.val \in Nat
        /\ h.proto = "IPCP" /\ h.code = "ConfNak"
        /\ PeerStill /\ MppeStill /\ mppe'.master = mppe.master /\ ccp_done'
    BY <1>1, <2>1
  <2>4. f \in Frames /\ f.proto = "IPCP"
    BY <2>3, CtlFrame DEF IpcpConfReq, Ctl, Protos
  <2>5. h \in IpNaks
    BY <2>3, Kinds
  <2> HIDE DEF f, F
  <2>6. /\ fs \in Seq(Frames) /\ ~Has(fs, CcpAsks) /\ ~Has(fs, Mppes) /\ ~Has(fs, Ips)
    BY <1>2, <2>4
  <2> HIDE DEF fs
  <2>7. Out' = Out \o fs
    BY <2>1, <2>6, TransmitOut
  <2> QED  BY <2>1, <2>2, <2>3, <2>5, <2>6, <2>7, ClientIpcp
<1>6. ASSUME IpcpOtherRcvd PROVE SyncInv'
  <2>1. /\ Dispatch("IPCP", Codes \ {"ConfReq", "ConfAck", "ConfNak"})
        /\ IpcpPreamble /\ Transmit(F)
        /\ UNCHANGED <<auth_done, local_ip, ip_configured, sent, bad>>
        /\ NotifyUp(IpcpEarly /\ ReadyForUp(ip_configured, local_ip, TRUE))
    BY <1>6 DEF IpcpOtherRcvd
  <2>2. ready' => ip_configured'
    BY <1>t, <2>1, ReadyLast DEF ReadyForUp
  <2>3. /\ s2c # << >> /\ s2c' = Tail(s2c) /\ h \in Frames /\ h.val \in Nat
        /\ h.proto = "IPCP"
        /\ PeerStill /\ MppeStill /\ mppe'.master = mppe.master /\ ccp_done'
    BY <1>1, <2>1
  <2> HIDE DEF F
  <2>4. Out' = Out \o F
    BY <1>f, <2>1, TransmitOut
  <2> QED  BY <1>f, <2>1, <2>2, <2>3, <2>4, ClientIpcp
<1> QED  BY <1>3, <1>4, <1>5, <1>6


\* handle_mppe and sstp_pppd_send_ip.
LEMMA DataSteps ==
    ASSUME TypeOK, TypeOK', TxNotStalled, stream_ok, SyncInv, NamedInv,
           MppeRcvd \/ SendIp
    PROVE  SyncInv'
<1>1. ASSUME MppeRcvd PROVE SyncInv'
  <2>1. Dispatch("MPPE", {"Data"}) /\ sent' = sent /\ UNCHANGED txVars
    BY <1>1 DEF MppeRcvd
  <2>2. s2c # << >> /\ s2c' = Tail(s2c) /\ Head(s2c).proto = "MPPE"
    BY <2>1, Received
  <2>3. PeerStill /\ PhaseStill /\ Out' = Out
    BY <1>1, <2>1, DispatchStill DEF MppeRcvd, PhaseStill, upVars, txVars, Out, Held
  <2>4. /\ mppe' = IF mppe.enabled THEN MppeCatchUp(mppe, Head(s2c)) ELSE mppe
        /\ bad' = IF mppe.enabled /\ MppeReadable(mppe, Head(s2c))
                    THEN bad ELSE bad \cup {"client"}
    BY <1>1 DEF MppeRcvd
  <2> QED  BY <2>2, <2>3, <2>4, ClientMppe
<1>2. ASSUME SendIp PROVE SyncInv'
  <2>1. sent \in SentCounts /\ mppe \in MppeStates
    BY DEF TypeOK
  <2>2. sent'.ccp = sent.ccp
    BY <1>2, <2>1 DEF SendIp, SentCounts
  <2>3. PeerStill /\ PhaseStill /\ ready /\ s2c' = s2c /\ bad' = bad
    BY <1>2, <2>2 DEF SendIp, PeerStill, PhaseStill, peerVars, upVars
  <2>4. CASE mppe.enabled
    <3> DEFINE f == MppeFrame(MppeAdvance(mppe))
    <3>1. mppe' = MppeAdvance(mppe) /\ Transmit(<<f>>)
      BY <1>2, <2>4 DEF SendIp
    <3>2. f \in Frames
      BY <2>1, SendNext
    <3>3. f = MppeFrame(MppeAdvance(mppe))
      OBVIOUS
    <3> HIDE DEF f
    <3>4. Out' = Out \o <<f>>
      BY <3>1, <3>2, OneIn, TransmitOut
    <3> QED  BY <2>3, <2>4, <3>1, <3>2, <3>3, <3>4, ClientData
  <2>5. CASE ~mppe.enabled
    <3>1. mppe' = mppe /\ Transmit(<<IpFrame>>)
      BY <1>2, <2>5 DEF SendIp
    <3>2. Out' = Out \o <<IpFrame>>
      BY <3>1, PeerFrames, OneIn, TransmitOut
    <3> QED  BY <2>3, <2>5, <3>1, <3>2, PeerFrames, ClientData
  <2> QED  BY <2>4, <2>5
<1> QED  BY <1>1, <1>2

\* Over a broken stream the client reads nothing more.
LEMMA BrokenClient ==
    ASSUME TypeOK, ~stream_ok, BrokenInv, SyncInv,
           Start \/ ClientReceives \/ SendComplete \/ SendIp
    PROVE  SyncInv'
<1>1. s2c = << >> /\ sent \in SentCounts
  BY DEF BrokenInv, TypeOK
<1>2. ~ClientReceives
  BY <1>1 DEF ClientReceives, Dispatch,
     LcpConfReqRcvd, LcpConfAckRcvd, LcpConfNakRcvd, LcpTermReqRcvd, LcpEchoReqRcvd,
     LcpOtherRcvd, ChapChallengeRcvd, ChapSuccessRcvd, ChapFailureRcvd, CcpConfReqRcvd,
     CcpConfAckRcvd, CcpConfRejRcvd, IpcpConfReqRcvd, IpcpConfAckRcvd, IpcpConfNakRcvd,
     IpcpOtherRcvd, MppeRcvd, IpRcvd
<1>3. CASE Start \/ SendComplete
  BY <1>3 DEF Start, SendComplete, peerVars, SyncInv, Regular
<1>4. CASE SendIp
  <2>1. sent'.ccp = sent.ccp
    BY <1>1, <1>4 DEF SendIp, SentCounts
  <2> QED  BY <1>4, <2>1 DEF SendIp, peerVars, SyncInv, Regular
<1> QED  BY <1>2, <1>3, <1>4

\* Every step of the client keeps MPPE in step.
LEMMA ClientKeepsSync ==
    ASSUME TypeOK, TypeOK', TxNotStalled, KeysHeld, KeysHeld', UpInv, SyncInv, NamedInv,
           Start \/ ClientReceives \/ SendComplete \/ SendIp
    PROVE  SyncInv'
<1>1. BrokenInv
  BY DEF UpInv
<1>2. CASE ~stream_ok
  BY <1>1, <1>2, BrokenClient
<1>3. CASE stream_ok
  <2>1. CASE \/ Start \/ SendComplete \/ LcpConfReqRcvd \/ LcpConfAckRcvd
             \/ LcpConfNakRcvd \/ LcpTermReqRcvd \/ LcpEchoReqRcvd \/ LcpOtherRcvd
             \/ ChapChallengeRcvd \/ ChapFailureRcvd \/ IpRcvd
    BY <1>3, <2>1, LinkSteps
  <2>2. CASE ChapSuccessRcvd \/ CcpConfReqRcvd \/ CcpConfAckRcvd \/ CcpConfRejRcvd
    BY <1>3, <2>2, CcpSteps
  <2>3. CASE IpcpConfReqRcvd \/ IpcpConfAckRcvd \/ IpcpConfNakRcvd \/ IpcpOtherRcvd
    BY <1>3, <2>3, IpcpSteps
  <2>4. CASE MppeRcvd \/ SendIp
    BY <1>3, <2>4, DataSteps
  <2> QED  BY <2>1, <2>2, <2>3, <2>4 DEF ClientReceives
<1> QED  BY <1>2, <1>3 DEF TypeOK


-----------------------------------------------------------------------------
(* MPPE in step: the server's steps.                                       *)

\* The client's state, which no step of the server touches.
ClientStill ==
    UNCHANGED <<stream_ok, p_policy, auth_done, ccp_done, local_ip, ip_configured,
                ready, mppe>>

\* A frame the server takes without effect on CCP, or none.  After it
\* terminated the link it may be any but a packet.
Ignores ==
    \/ Out' = Out
    \/ /\ Out # << >> /\ Out' = Tail(Out) /\ Head(Out) \notin Mppes
       /\ Head(Out) \in CcpAsks \/ Head(Out) \in CcpAcks => "term" \in p_lcp'

\* Steps of the server that leave CCP and the accepted exchange alone.
LEMMA PeerCalm ==
    ASSUME TypeOK, TypeOK', stream_ok, SyncInv, AuthInv, ClientStill, Ignores,
           UNCHANGED <<p_master, p_ccp, p_mppe>>, sent'.ccp = sent.ccp,
           Regular => bad' = bad,
           p_await' => p_chal' # 0,
           "term" \in p_lcp => p_lcp' = p_lcp,
           "term" \in p_lcp' => p_lcp' = {"term"},
           p_master = 0 \/ (Opened(p_lcp) /\ "term" \notin p_lcp' => Opened(p_lcp')),
           "tx" \in p_ipcp' <=> "tx" \in p_ipcp, p_master = 0 => p_ipcp' = {},
           NEW fs \in Seq(Frames), s2c' = s2c \o fs,
           ~Has(fs, Ccps), ~Has(fs, Later), ~Has(fs, Succs),
           Has(fs, Nets) => p_master # 0
    PROVE  SyncInv'
<1>1. s2c \in Seq(Frames) /\ Out \in Seq(Frames) /\ auth_done \in BOOLEAN
  BY OutType DEF TypeOK
<1>2. /\ s2c' \in Seq(Frames)
      /\ \A A : Has(s2c', A) <=> Has(s2c, A) \/ Has(fs, A)
      /\ \A A, B : NoneAfter(s2c, A, B) /\ ~Has(fs, B) => NoneAfter(s2c', A, B)
      /\ \A A, B : Guarded(s2c, A, B) /\ (Has(s2c, A) \/ ~Has(fs, B)) => Guarded(s2c', A, B)
      /\ ~Has(fs, Mppes) => \A x, y : Chain(s2c, x, y) => Chain(s2c', x, y)
  BY <1>1, Added
<1>3. /\ ~Has(fs, CcpReqs) /\ ~Has(fs, CcpAcks) /\ ~Has(fs, CcpNaks) /\ ~Has(fs, CcpRefs)
      /\ ~Has(fs, Mppes) /\ ~Has(fs, IpAcks) /\ ~Has(fs, Sealed)
  BY Nested
<1>4. /\ Out' \in Seq(Frames)
      /\ \A A : Has(Out', A) => Has(Out, A)
      /\ Has(Out, CcpAsks) /\ "term" \notin p_lcp' => Has(Out', CcpAsks)
      /\ Has(Out, CcpAcks) /\ "term" \notin p_lcp' => Has(Out', CcpAcks)
      /\ \A A, B : NoneAfter(Out, A, B) => NoneAfter(Out', A, B)
      /\ Guarded(Out, CcpAcks, AddrAsks) /\ "term" \notin p_lcp'
           => Guarded(Out', CcpAcks, AddrAsks)
      /\ \A x, y : Chain(Out, x, y) => Chain(Out', x, y)
  <2>1. CASE Out' = Out
    BY <1>1, <2>1
  <2>2. CASE /\ Out # << >> /\ Out' = Tail(Out) /\ Head(Out) \notin Mppes
             /\ Head(Out) \in CcpAsks \/ Head(Out) \in CcpAcks => "term" \in p_lcp'
    <3>1. /\ Out' \in Seq(Frames)
          /\ \A A : Has(Out, A) <=> Head(Out) \in A \/ Has(Out', A)
          /\ \A A, B : NoneAfter(Out, A, B) => NoneAfter(Out', A, B)
          /\ \A A, B : Guarded(Out, A, B) /\ Head(Out) \notin A => Guarded(Out', A, B)
          /\ \A x, y : Chain(Out, x, y) => Chain(Out', x, y)
      BY <1>1, <2>2, Taken
    <3> QED  BY <2>2, <3>1
  <2> QED  BY <2>1, <2>2 DEF Ignores
<1>5. OnceInv
  BY DEF SyncInv
<1>6. AuthOnce'
  <2>1. p_master # 0 /\ "term" \notin p_lcp' => Opened(p_lcp')
    BY <1>5 DEF OnceInv, AuthOnce, Live
  <2>2. ~auth_done => Guarded(s2c', Succs, Nets)
    BY <1>2, <1>5 DEF OnceInv, AuthOnce, AuthInv
  <2> QED  BY <1>2, <1>3, <1>5, <2>1, <2>2 DEF OnceInv, AuthOnce, ClientStill, Live
<1>7. CcpOnce' /\ DataLast'
  BY <1>2, <1>3, <1>4, <1>5 DEF OnceInv, CcpOnce, DataLast, ClientStill
<1>8. ASSUME p_policy.ccp = "grant" PROVE GrantInv'
  <2>1. GrantInv
    BY <1>8 DEF SyncInv
  <2>2. GrantMarks'
    BY <1>4, <2>1 DEF GrantInv, GrantMarks, ClientStill, Live, Told
  <2>3. GrantIn'
    BY <1>2, <1>3, <2>1 DEF GrantInv, GrantIn, ClientStill
  <2>4. GrantOut'
    BY <1>4, <2>1 DEF GrantInv, GrantOut, ClientStill, Live
  <2>5. GrantKeys'
    BY <1>2, <1>3, <1>4, <2>1
       DEF GrantInv, GrantKeys, InChain, OutChain, Unused, ClientRecvEnd,
           ClientSendEnd, PeerRecvEnd, PeerSendEnd, ClientStill
  <2> QED  BY <2>2, <2>3, <2>4, <2>5 DEF GrantInv
<1>9. p_policy.ccp # "grant" /\ Regular => PlainInv'
  BY <1>2, <1>3, <1>4 DEF SyncInv, PlainInv, Pending, ClientStill, Live, Told
<1>10. Regular' <=> Regular
  BY DEF Regular, ClientStill
<1> QED  BY <1>6, <1>7, <1>8, <1>9, <1>10 DEF SyncInv, OnceInv, ClientStill

\* The server accepts an exchange: nothing of CCP, IPCP or data is under way.
LEMMA PeerAccepts ==
    ASSUME TypeOK, TypeOK', stream_ok, SyncInv, AuthInv, ClientStill, bad' = bad,
           UNCHANGED <<p_lcp, p_ccp, p_ipcp, p_chal, p_mppe>>, sent'.ccp = sent.ccp,
           Opened(p_lcp), p_await, ~p_await', p_master' = p_chal,
           Out # << >>, Out' = Tail(Out), Head(Out).proto = "CHAP",
           s2c' = s2c \o <<Ctl("CHAP", "Success", 0)>>
    PROVE  SyncInv'
<1> DEFINE f == Ctl("CHAP", "Success", 0)
<1>1. /\ s2c \in Seq(Frames) /\ Out \in Seq(Frames) /\ f \in Frames
      /\ f.proto = "CHAP" /\ f.code = "Success" /\ s2c' = s2c \o <<f>>
  BY OutType, PeerFrames DEF TypeOK, Ctl, Codes
<1> HIDE DEF f
<1>2. /\ f \in Succs /\ f \notin Nets /\ <<f>> \in Seq(Frames)
      /\ \A A : Has(<<f>>, A) <=> f \in A
  BY <1>1, Kinds, OneKind
<1>3. s2c' \in Seq(Frames) /\ \A A : Has(s2c', A) <=> Has(s2c, A) \/ f \in A
  BY <1>1, <1>2, Added
<1>4. /\ Out' \in Seq(Frames) /\ \A A : Has(Out', A) => Has(Out, A)
      /\ \A A, B : NoneAfter(Out, A, B) => NoneAfter(Out', A, B)
  BY <1>1, Taken
<1>5. /\ OnceInv /\ p_master = 0 /\ ~auth_done /\ ~ccp_done /\ ~mppe.enabled
      /\ ~ip_configured /\ local_ip = 0
      /\ p_ccp = {} /\ p_ipcp = {} /\ ~Has(s2c, Succs) /\ ~Has(s2c, Nets)
      /\ ~Has(Out, Asks) /\ ~Has(Out, Mppes) /\ ~Has(Out, Ips) /\ p_chal # 0
      /\ NoneAfter(s2c, Succs, Succs) /\ ~ready
  BY DEF SyncInv, OnceInv, AuthOnce, CcpOnce, DataLast, AuthInv
<1>6. /\ NoneAfter(s2c', Succs, Succs)
      /\ ~Has(s2c', Nets)
  BY <1>1, <1>2, <1>3, <1>5, OrderAppend
<1>7. /\ ~Has(s2c', Ccps) /\ ~Has(s2c', CcpReqs) /\ ~Has(s2c', CcpAcks)
      /\ ~Has(s2c', CcpNaks) /\ ~Has(s2c', CcpRefs) /\ ~Has(s2c', Mppes)
      /\ ~Has(s2c', Later) /\ ~Has(s2c', IpAcks)
  BY <1>3, <1>6, Nested
<1>8. /\ Guarded(s2c', Succs, Nets) /\ Guarded(s2c', CcpReqs, Later)
      /\ NoneAfter(s2c', Sealed, Ccps) /\ NoneAfter(s2c', CcpNaks, CcpReqs)
      /\ Guarded(s2c', CcpNaks, IpAcks)
  BY <1>6, <1>7, Absent
<1>9. /\ ~Has(Out', Asks) /\ ~Has(Out', Mppes) /\ ~Has(Out', Ips)
      /\ ~Has(Out', AddrAsks)
  BY <1>4, <1>5, Nested
<1>10. Guarded(Out', CcpAcks, AddrAsks)
  BY <1>9, Absent
<1>11. First(p_master') \in Ends
  BY EndTypes DEF TypeOK
<1>12. /\ Chain(s2c', First(p_master'), First(p_master'))
       /\ Chain(Out', First(p_master'), First(p_master'))
  BY <1>3, <1>4, <1>7, <1>9, <1>11, ChainNone
<1>13. ~Opened(p_ccp)
  BY <1>5 DEF Opened
<1>14. OnceInv'
  BY <1>4, <1>5, <1>6, <1>7, <1>8, <1>9
     DEF OnceInv, AuthOnce, CcpOnce, DataLast, ClientStill, Live
<1>15. GrantInv'
  <2>1. GrantMarks' /\ GrantIn' /\ GrantOut'
    BY <1>5, <1>7, <1>8, <1>9, <1>10
       DEF GrantMarks, GrantIn, GrantOut, ClientStill, Live, Told
  <2>2. GrantKeys'
    BY <1>5, <1>12, <1>13
       DEF GrantKeys, InChain, OutChain, Unused, ClientRecvEnd, ClientSendEnd,
           PeerRecvEnd, PeerSendEnd, ClientStill
  <2> QED  BY <2>1, <2>2 DEF GrantInv
<1>16. PlainInv'
  BY <1>5, <1>7, <1>8, <1>9 DEF PlainInv, Pending, ClientStill, Live, Told
<1>17. Regular' <=> Regular
  BY DEF Regular, ClientStill
<1> QED  BY <1>14, <1>15, <1>16, <1>17 DEF SyncInv, ClientStill


\* While CCP is not open at a server that grants MPPE, no address and no packet
\* are under way.
LEMMA NotYetSealed ==
    ASSUME TypeOK, OnceInv, GrantInv, AddrInv, ~Opened(p_ccp)
    PROVE  ~Has(s2c, Mppes) /\ ~Has(s2c, Sealed) /\ ~ip_configured /\ "tx" \notin p_ipcp
<1>1. "tx" \notin p_ipcp /\ ~Has(s2c, Mppes)
  BY DEF GrantInv, GrantMarks, OnceInv, DataLast
<1>2. ~Has(s2c, IpAcks) /\ ~ip_configured
  BY <1>1 DEF AddrInv
<1>3. ~Has(s2c, Sealed)
  BY <1>1, <1>2, Nested DEF TypeOK
<1> QED  BY <1>1, <1>2, <1>3

\* The server's own CCP request, and its repetition, before CCP is open.
LEMMA PeerCcpAsks ==
    ASSUME TypeOK, TypeOK', stream_ok, SyncInv, AuthInv, AddrInv, ClientStill, bad' = bad,
           UNCHANGED <<p_lcp, p_ipcp, p_await, p_chal, p_master, p_mppe>>, Out' = Out,
           p_master # 0, ~Opened(p_ccp),
           s2c' = s2c \o <<CcpConfReq>>,
           \/ p_ccp = {} /\ p_ccp' = {"req"} /\ sent'.ccp = sent.ccp
              /\ p_policy.ccp \in {"grant", "nak"}
           \/ "req" \in p_ccp /\ p_ccp' = p_ccp \ {"rx"} /\ sent'.ccp # 0
    PROVE  SyncInv'
<1> DEFINE f == CcpConfReq
<1>1. /\ s2c \in Seq(Frames) /\ Out \in Seq(Frames) /\ f \in Frames
      /\ f.proto = "CCP" /\ f.code = "ConfReq" /\ s2c' = s2c \o <<f>>
  BY OutType, PeerFrames DEF TypeOK, CcpConfReq, Ctl
<1> HIDE DEF f
<1>2. /\ f \in CcpReqs /\ f \in Ccps /\ f \notin CcpAcks /\ f \notin CcpNaks /\ f \notin CcpRefs
      /\ f \in Nets /\ f \notin Mppes /\ f \notin Later /\ f \notin Sealed /\ f \notin Succs
      /\ f \notin IpAcks
      /\ <<f>> \in Seq(Frames) /\ \A A : Has(<<f>>, A) <=> f \in A
  BY <1>1, Kinds, OneKind
<1>3. /\ s2c' \in Seq(Frames)
      /\ \A A : Has(s2c', A) <=> Has(s2c, A) \/ f \in A
      /\ \A A, B : Guarded(s2c, A, B) /\ (Has(s2c, A) \/ f \notin B) => Guarded(s2c', A, B)
  BY <1>1, <1>2, Added
<1>4. \A A, B : NoneAfter(s2c, A, B) /\ (f \notin B \/ ~Has(s2c, A)) => NoneAfter(s2c', A, B)
  BY <1>1, OrderAppend
<1>5. /\ OnceInv /\ ~Has(s2c, Mppes) /\ ~Opened(p_ccp')
      /\ "tx" \in p_ccp' <=> "tx" \in p_ccp
  <2>1. OnceInv /\ ~Has(s2c, Mppes)
    BY DEF SyncInv, OnceInv, DataLast
  <2>2. ~Opened(p_ccp') /\ ("tx" \in p_ccp' <=> "tx" \in p_ccp)
    BY DEF Opened
  <2> QED  BY <2>1, <2>2
<1>6. AuthOnce'
  <2>1. ~auth_done => Guarded(s2c', Succs, Nets)
    BY <1>3, <1>5 DEF OnceInv, AuthOnce, AuthInv
  <2> QED  BY <1>2, <1>3, <1>4, <1>5, <2>1 DEF OnceInv, AuthOnce, ClientStill, Live
<1>7. CcpOnce' /\ DataLast'
  BY <1>2, <1>3, <1>5 DEF OnceInv, CcpOnce, DataLast, ClientStill
<1>8. ASSUME p_policy.ccp = "grant" PROVE GrantInv'
  <2>1. /\ GrantInv /\ ~Has(s2c, Sealed) /\ ~ip_configured /\ "tx" \notin p_ipcp
        /\ "rx" \notin p_ccp
    BY <1>5, <1>8, NotYetSealed DEF SyncInv, GrantInv, GrantMarks, Opened
  <2>2. "rx" \notin p_ccp' /\ "req" \in p_ccp'
    BY <2>1
  <2>3. GrantMarks'
    BY <1>5, <2>1, <2>2 DEF GrantInv, GrantMarks, ClientStill, Live, Told
  <2>4. GrantIn'
    BY <1>2, <1>3, <1>4, <2>1, <2>2 DEF GrantInv, GrantIn, ClientStill
  <2>5. GrantOut'
    BY <2>1, <2>2 DEF GrantInv, GrantOut, ClientStill, Live
  <2>6. First(p_master) \in Ends
    BY EndTypes DEF TypeOK
  <2>7. Chain(s2c', First(p_master), First(p_master))
    BY <1>2, <1>3, <1>5, <2>6, ChainNone
  <2>8. InChain'
    BY <1>2, <1>3, <1>5, <2>7 DEF InChain, ClientRecvEnd, PeerSendEnd
  <2>9. OutChain' /\ Unused'
    BY <1>5, <2>1
       DEF GrantInv, GrantKeys, OutChain, Unused, ClientSendEnd, PeerRecvEnd, ClientStill
  <2> QED  BY <2>3, <2>4, <2>5, <2>8, <2>9 DEF GrantInv, GrantKeys
<1>9. ASSUME p_policy.ccp # "grant", Regular, Regular' PROVE PlainInv'
  <2>1. PlainInv
    BY <1>9 DEF SyncInv
  <2>2. p_policy.ccp = "nak" /\ p_ccp = {} /\ p_ccp' = {"req"}
    BY <1>9, <2>1 DEF PlainInv, Regular, ClientStill
  <2>3. ~Has(s2c, CcpNaks) /\ "tx" \notin p_ipcp /\ ~(Live /\ Told) /\ ~Pending
    BY <2>1, <2>2 DEF PlainInv
  <2>4. ~Has(s2c, IpAcks) /\ ~ip_configured
    BY <2>3 DEF AddrInv
  <2>5. Guarded(s2c', CcpNaks, IpAcks)
    BY <1>2, <1>3, <2>4, Absent
  <2> QED  BY <1>2, <1>3, <1>4, <2>1, <2>2, <2>3, <2>4, <2>5
           DEF PlainInv, Pending, ClientStill, Live, Told
<1>10. Regular' => Regular
  BY DEF Regular, ClientStill
<1> QED  BY <1>6, <1>7, <1>8, <1>9, <1>10 DEF SyncInv, OnceInv, ClientStill

\* The client's CCP acknowledgement: it came behind the client's request, so
\* that CCP opens, with both ends of the keys at the start.
LEMMA PeerCcpAcked ==
    ASSUME TypeOK, TypeOK', stream_ok, SyncInv, ClientStill, bad' = bad,
           UNCHANGED <<p_lcp, p_ipcp, p_await, p_chal, p_master, s2c>>,
           sent'.ccp = sent.ccp, Opened(p_lcp), p_master # 0,
           Out # << >>, Out' = Tail(Out), Head(Out) \in CcpAcks,
           PeerCcpSet(p_ccp \cup {"rx"})
    PROVE  SyncInv'
<1> DEFINE h == Head(Out)
<1>1. s2c \in Seq(Frames) /\ Out \in Seq(Frames) /\ p_mppe \in MppeStates /\ p_master \in Nat
  BY OutType DEF TypeOK
<1>2. /\ Out' \in Seq(Frames) /\ h \in Frames
      /\ \A A : Has(Out, A) <=> h \in A \/ Has(Out', A)
      /\ \A A, B : NoneAfter(Out, A, B) => /\ NoneAfter(Out', A, B)
                                           /\ h \in A => ~Has(Out', B)
      /\ h \notin Mppes => \A x, y : Chain(Out, x, y) => Chain(Out', x, y)
  BY <1>1, Taken
<1>3. h \in Asks /\ h \notin CcpAsks /\ h \notin Mppes /\ h \in CcpAcks
  BY <1>2, Kinds
<1> HIDE DEF h
<1>4. OnceInv /\ auth_done /\ Told /\ Told'
  BY <1>2, <1>3 DEF SyncInv, OnceInv, CcpOnce, Told, ClientStill
<1>5. Live
  BY <1>4 DEF OnceInv, AuthOnce, Opened
<1>6. /\ p_ccp' = p_ccp \cup {"rx"}
      /\ p_mppe' = IF Opened(p_ccp \cup {"rx"}) /\ ~Opened(p_ccp)
                     THEN mppe_init_keys([p_mppe EXCEPT !.master = p_master])
                     ELSE p_mppe
  BY DEF PeerCcpSet
<1>7. OnceInv'
  BY <1>2, <1>4, <1>6
     DEF OnceInv, AuthOnce, CcpOnce, DataLast, ClientStill, Live, Opened
<1>8. ASSUME p_policy.ccp = "grant" PROVE GrantInv'
  <2>1. GrantInv /\ "tx" \in p_ccp /\ "req" \in p_ccp
    BY <1>4, <1>5, <1>8 DEF SyncInv, GrantInv, GrantMarks
  <2>2. Opened(p_ccp')
    BY <1>6, <2>1 DEF Opened
  <2>3. GrantMarks' /\ GrantIn' /\ GrantOut'
    <3>1. "rx" \in p_ccp' /\ "tx" \in p_ccp' /\ "req" \in p_ccp'
      BY <1>6, <2>1
    <3> QED  BY <1>2, <1>4, <2>1, <2>2, <3>1
             DEF GrantInv, GrantMarks, GrantIn, GrantOut, ClientStill, Live
  <2>4. SendEnd(p_mppe') = PeerSendEnd /\ RecvEnd(p_mppe') = PeerRecvEnd
    <3>1. CASE Opened(p_ccp)
      BY <1>6, <3>1 DEF PeerSendEnd, PeerRecvEnd
    <3>2. CASE ~Opened(p_ccp)
      <4> DEFINE x == [p_mppe EXCEPT !.master = p_master]
      <4>1. x \in MppeStates /\ x.master = p_master
        BY <1>1 DEF MppeStates
      <4>2. p_mppe' = mppe_init_keys(x)
        BY <1>6, <2>2, <3>2
      <4> HIDE DEF x
      <4>3. SendEnd(p_mppe') = First(p_master) /\ RecvEnd(p_mppe') = First(p_master)
        BY <4>1, <4>2, InitEnds
      <4> QED  BY <3>2, <4>3 DEF PeerSendEnd, PeerRecvEnd
    <3> QED  BY <3>1, <3>2
  <2>5. PeerSendEnd' = PeerSendEnd /\ PeerRecvEnd' = PeerRecvEnd
    <3>1. PeerSendEnd' = SendEnd(p_mppe') /\ PeerRecvEnd' = RecvEnd(p_mppe')
      BY <2>2 DEF PeerSendEnd, PeerRecvEnd
    <3> QED  BY <2>4, <3>1
  <2>6. ClientRecvEnd' = ClientRecvEnd /\ ClientSendEnd' = ClientSendEnd
    BY DEF ClientRecvEnd, ClientSendEnd, ClientStill
  <2>7. GrantKeys'
    BY <1>2, <1>3, <2>1, <2>5, <2>6
       DEF GrantInv, GrantKeys, InChain, OutChain, Unused, ClientStill
  <2> QED  BY <2>3, <2>7 DEF GrantInv
<1>9. p_policy.ccp # "grant" /\ Regular => PlainInv'
  BY <1>2, <1>3, <1>4, <1>6 DEF SyncInv, PlainInv, Pending, ClientStill, Live
<1>10. Regular' <=> Regular
  BY DEF Regular, ClientStill
<1> QED  BY <1>7, <1>8, <1>9, <1>10 DEF SyncInv, ClientStill


\* A request, unless it was sent before, and an answer, behind s.
Behind(s, b, x, y) == s \o (IF b THEN << >> ELSE <<x>>) \o <<y>>

\* What is there then.
LEMMA Answered ==
    ASSUME NEW s \in Seq(Frames), NEW b \in BOOLEAN, NEW x \in Frames, NEW y \in Frames,
           NEW u, u = Behind(s, b, x, y)
    PROVE  /\ u \in Seq(Frames)
           /\ \A A : Has(u, A) <=> Has(s, A) \/ (~b /\ x \in A) \/ y \in A
           /\ \A A, B : NoneAfter(s, A, B) /\ (b \/ x \notin B \/ ~Has(s, A))
                          /\ (y \notin B \/ (~Has(s, A) /\ (b \/ x \notin A))) => NoneAfter(u, A, B)
           /\ \A A, B : Guarded(s, A, B) /\ (b \/ x \notin B \/ Has(s, A))
                          /\ (y \notin B \/ Has(s, A) \/ (~b /\ x \in A)) => Guarded(u, A, B)
           /\ x \notin Mppes /\ y \notin Mppes =>
                \A v, w : Chain(s, v, w) => Chain(u, v, w)
<1> DEFINE r == IF b THEN << >> ELSE <<x>>
           t == s \o r
<1>1. /\ r \in Seq(Frames) /\ <<y>> \in Seq(Frames) /\ <<x>> \in Seq(Frames)
      /\ \A A : Has(<<x>>, A) <=> x \in A
      /\ \A A : Has(<<y>>, A) <=> y \in A
  BY OneKind, NoneIn
<1>2. b => t = s
  BY ConcatEmptySeq
<1>3. ~b => t = s \o <<x>>
  OBVIOUS
<1>4. u = t \o <<y>>
  BY DEF Behind
<1> HIDE DEF t, r
<1>5. /\ t \in Seq(Frames)
      /\ \A A : Has(t, A) <=> Has(s, A) \/ (~b /\ x \in A)
      /\ \A A, B : NoneAfter(s, A, B) /\ (b \/ x \notin B \/ ~Has(s, A)) => NoneAfter(t, A, B)
      /\ \A A, B : Guarded(s, A, B) /\ (b \/ x \notin B \/ Has(s, A)) => Guarded(t, A, B)
      /\ x \notin Mppes => \A v, w : Chain(s, v, w) => Chain(t, v, w)
  <2>1. CASE b
    BY <1>2, <2>1
  <2>2. CASE ~b
    <3>1. t = s \o <<x>>
      BY <1>3, <2>2
    <3>2. /\ t \in Seq(Frames)
          /\ \A A : Has(t, A) <=> Has(s, A) \/ x \in A
          /\ \A A, B : Guarded(s, A, B) /\ (x \notin B \/ Has(s, A)) => Guarded(t, A, B)
          /\ x \notin Mppes => \A v, w : Chain(s, v, w) => Chain(t, v, w)
      BY <1>1, <3>1, Added
    <3>3. \A A, B : NoneAfter(s, A, B) /\ (x \notin B \/ ~Has(s, A)) => NoneAfter(t, A, B)
      BY <3>1, OrderAppend
    <3> QED  BY <2>2, <3>2, <3>3
  <2> QED  BY <2>1, <2>2
<1>6. /\ u \in Seq(Frames)
      /\ \A A : Has(u, A) <=> Has(t, A) \/ y \in A
      /\ \A A, B : Guarded(t, A, B) /\ (y \notin B \/ Has(t, A)) => Guarded(u, A, B)
      /\ y \notin Mppes => \A v, w : Chain(t, v, w) => Chain(u, v, w)
  BY <1>1, <1>4, <1>5, Added
<1>7. \A A, B : NoneAfter(t, A, B) /\ (y \notin B \/ ~Has(t, A)) => NoneAfter(u, A, B)
  BY <1>4, <1>5, OrderAppend
<1>8. u \in Seq(Frames) /\ \A A : Has(u, A) <=> Has(s, A) \/ (~b /\ x \in A) \/ y \in A
  BY <1>5, <1>6
<1>9. ASSUME NEW A, NEW B, NoneAfter(s, A, B), b \/ x \notin B \/ ~Has(s, A),
             y \notin B \/ (~Has(s, A) /\ (b \/ x \notin A))
      PROVE  NoneAfter(u, A, B)
  <2>1. NoneAfter(t, A, B) /\ (y \notin B \/ ~Has(t, A))
    BY <1>5, <1>9
  <2> QED  BY <1>7, <2>1
<1>10. ASSUME NEW A, NEW B, Guarded(s, A, B), b \/ x \notin B \/ Has(s, A),
              y \notin B \/ Has(s, A) \/ (~b /\ x \in A)
       PROVE  Guarded(u, A, B)
  <2>1. Guarded(t, A, B) /\ (y \notin B \/ Has(t, A))
    BY <1>5, <1>10
  <2> QED  BY <1>6, <2>1
<1>11. x \notin Mppes /\ y \notin Mppes => \A v, w : Chain(s, v, w) => Chain(u, v, w)
  BY <1>5, <1>6
<1> QED  BY <1>8, <1>9, <1>10, <1>11

\* The client's CCP request reaches the server: its only one.
LEMMA RequestTaken ==
    ASSUME TypeOK, OnceInv, ClientStill, Out # << >>, Out' = Tail(Out),
           Head(Out) \in CcpAsks
    PROVE  /\ auth_done /\ ~Told /\ Told'
           /\ \A A : Has(Out', A) => Has(Out, A)
           /\ Has(Out, CcpAcks) => Has(Out', CcpAcks)
           /\ \A A, B : NoneAfter(Out, A, B) => NoneAfter(Out', A, B)
           /\ Guarded(Out, CcpAcks, AddrAsks) => Guarded(Out', CcpAcks, AddrAsks)
           /\ \A x, y : Chain(Out, x, y) => Chain(Out', x, y)
<1> DEFINE h == Head(Out)
<1>1. Out \in Seq(Frames)
  BY OutType
<1>2. /\ Out' \in Seq(Frames) /\ h \in Frames
      /\ \A A : Has(Out, A) <=> h \in A \/ Has(Out', A)
      /\ \A A, B : NoneAfter(Out, A, B) => /\ NoneAfter(Out', A, B)
                                           /\ h \in A => ~Has(Out', B)
      /\ \A A, B : Guarded(Out, A, B) /\ h \notin A => Guarded(Out', A, B)
      /\ h \notin Mppes => \A x, y : Chain(Out, x, y) => Chain(Out', x, y)
  BY <1>1, Taken
<1>3. h \in CcpAsks /\ h \in Asks /\ h \notin CcpAcks /\ h \notin Mppes
  BY <1>2, Kinds
<1> HIDE DEF h
<1> QED  BY <1>2, <1>3 DEF OnceInv, CcpOnce, Told, ClientStill

\* A server that grants MPPE acknowledges it, its own request before.
LEMMA PeerGrants ==
    ASSUME TypeOK, TypeOK', stream_ok, SyncInv, AddrInv, ClientStill, bad' = bad,
           UNCHANGED <<p_lcp, p_ipcp, p_await, p_chal, p_master>>, sent'.ccp = sent.ccp,
           p_master # 0, p_policy.ccp = "grant",
           Out # << >>, Out' = Tail(Out), Head(Out) \in CcpAsks,
           PeerCcpSet(p_ccp \cup {"req", "tx"}),
           s2c' = s2c \o (IF "req" \in p_ccp THEN << >> ELSE <<CcpConfReq>>)
                      \o <<Ctl("CCP", "ConfAck", 0)>>
    PROVE  SyncInv'
<1> DEFINE b == "req" \in p_ccp
           x == CcpConfReq
           y == Ctl("CCP", "ConfAck", 0)
<1>1. /\ s2c \in Seq(Frames) /\ x \in Frames /\ y \in Frames /\ b \in BOOLEAN
      /\ x.proto = "CCP" /\ x.code = "ConfReq" /\ y.proto = "CCP" /\ y.code = "ConfAck"
  BY PeerFrames DEF TypeOK, CcpConfReq, Ctl, Codes
<1>2. s2c' = Behind(s2c, b, x, y)
  BY DEF Behind
<1>o. OnceInv /\ GrantInv
  BY DEF SyncInv
<1>3. /\ auth_done /\ ~Told /\ Told'
      /\ \A A : Has(Out', A) => Has(Out, A)
      /\ Has(Out, CcpAcks) => Has(Out', CcpAcks)
      /\ \A A, B : NoneAfter(Out, A, B) => NoneAfter(Out', A, B)
      /\ Guarded(Out, CcpAcks, AddrAsks) => Guarded(Out', CcpAcks, AddrAsks)
      /\ \A v, w : Chain(Out, v, w) => Chain(Out', v, w)
  BY <1>o, RequestTaken
<1>4. "tx" \notin p_ccp /\ "rx" \notin p_ccp
  BY <1>o, <1>3 DEF GrantInv, GrantMarks
<1>5. /\ ~Opened(p_ccp) /\ ~Opened(p_ccp') /\ p_mppe' = p_mppe
      /\ p_ccp' = p_ccp \cup {"req", "tx"}
  BY <1>4 DEF PeerCcpSet, Opened
<1>6. "req" \in p_ccp' /\ "tx" \in p_ccp' /\ "rx" \notin p_ccp'
  BY <1>4, <1>5
<1>b. b <=> "req" \in p_ccp
  OBVIOUS
<1> HIDE DEF b, x, y
<1>7. /\ x \in CcpReqs /\ x \notin CcpAcks /\ x \notin CcpRefs /\ x \in Ccps /\ x \in Nets
      /\ x \notin Mppes /\ x \notin Later /\ x \notin Sealed /\ x \notin Succs
      /\ y \notin CcpReqs /\ y \in CcpAcks /\ y \notin CcpRefs /\ y \in Ccps /\ y \in Nets
      /\ y \notin Mppes /\ y \in Later /\ y \notin Sealed /\ y \notin Succs
  BY <1>1, Kinds
<1>8. /\ s2c' \in Seq(Frames)
      /\ \A A : Has(s2c', A) <=> Has(s2c, A) \/ (~b /\ x \in A) \/ y \in A
      /\ \A A, B : NoneAfter(s2c, A, B) /\ (b \/ x \notin B \/ ~Has(s2c, A))
                     /\ (y \notin B \/ (~Has(s2c, A) /\ (b \/ x \notin A))) => NoneAfter(s2c', A, B)
      /\ \A A, B : Guarded(s2c, A, B) /\ (b \/ x \notin B \/ Has(s2c, A))
                     /\ (y \notin B \/ Has(s2c, A) \/ (~b /\ x \in A)) => Guarded(s2c', A, B)
  BY <1>1, <1>2, Answered
<1>9. ~Has(s2c, Mppes) /\ ~Has(s2c, Sealed) /\ ~ip_configured /\ "tx" \notin p_ipcp
  BY <1>o, <1>5, NotYetSealed
<1>10. OnceInv'
  BY <1>o, <1>3, <1>7, <1>8, <1>9
     DEF OnceInv, AuthOnce, CcpOnce, DataLast, ClientStill, Live
<1>11. GrantMarks'
  BY <1>o, <1>3, <1>5, <1>6, <1>9 DEF GrantMarks, ClientStill
<1>12. GrantIn'
  BY <1>o, <1>6, <1>7, <1>8, <1>9, <1>b DEF GrantInv, GrantIn, ClientStill
<1>13. GrantOut'
  BY <1>o, <1>3, <1>4 DEF GrantInv, GrantOut, ClientStill, Live
<1>14. First(p_master) \in Ends
  BY EndTypes DEF TypeOK
<1>15. Chain(s2c', First(p_master), First(p_master))
  BY <1>7, <1>8, <1>9, <1>14, ChainNone
<1>16. InChain'
  BY <1>5, <1>7, <1>8, <1>15 DEF InChain, ClientRecvEnd, PeerSendEnd
<1>17. OutChain' /\ Unused'
  BY <1>o, <1>3, <1>5
     DEF GrantInv, GrantKeys, OutChain, Unused, ClientSendEnd, PeerRecvEnd, ClientStill
<1>18. Regular' <=> Regular
  BY DEF Regular, ClientStill
<1> QED  BY <1>10, <1>11, <1>12, <1>13, <1>16, <1>17, <1>18
         DEF SyncInv, GrantInv, GrantKeys, ClientStill

\* A server that refuses MPPE: a Configure-Nak behind its own request, or a
\* Configure-Reject or Protocol-Reject and no request.
LEMMA PeerRefuses ==
    ASSUME TypeOK, TypeOK', stream_ok, SyncInv, AddrInv, ClientStill, bad' = bad,
           UNCHANGED <<p_lcp, p_ipcp, p_await, p_chal, p_master>>, sent'.ccp = sent.ccp,
           p_master # 0, p_policy.ccp # "grant",
           Out # << >>, Out' = Tail(Out), Head(Out) \in CcpAsks,
           NEW b \in BOOLEAN, NEW y \in Frames,
           s2c' = s2c \o (IF b THEN << >> ELSE <<CcpConfReq>>) \o <<y>>,
           \/ /\ p_policy.ccp = "nak" /\ (Regular => (b <=> "req" \in p_ccp))
              /\ p_ccp' = p_ccp \cup {"req"} /\ y \in CcpNaks
           \/ /\ p_policy.ccp # "nak" /\ b /\ p_ccp' = p_ccp
              /\ y.proto = "LCP" \/ (y.proto = "CCP" /\ y.code = "ConfRej")
    PROVE  SyncInv'
<1> DEFINE x == CcpConfReq
<1>1. /\ s2c \in Seq(Frames) /\ x \in Frames /\ x.proto = "CCP" /\ x.code = "ConfReq"
      /\ s2c' = Behind(s2c, b, x, y)
  BY PeerFrames DEF TypeOK, CcpConfReq, Ctl, Behind
<1> HIDE DEF x
<1>2. OnceInv
  BY DEF SyncInv
<1>3. /\ auth_done /\ Told'
      /\ \A A : Has(Out', A) => Has(Out, A)
      /\ \A A, B : NoneAfter(Out, A, B) => NoneAfter(Out', A, B)
  BY <1>2, RequestTaken
<1>4. /\ x \in CcpReqs /\ x \notin CcpAcks /\ x \notin CcpNaks /\ x \notin Mppes
      /\ x \notin Succs /\ x \notin IpAcks
      /\ y \notin CcpReqs /\ y \notin CcpAcks /\ y \notin Mppes /\ y \notin Succs
      /\ y \notin IpAcks /\ (y \in CcpNaks => p_policy.ccp = "nak")
  BY <1>1, Kinds
<1>5. /\ s2c' \in Seq(Frames)
      /\ \A A : Has(s2c', A) <=> Has(s2c, A) \/ (~b /\ x \in A) \/ y \in A
      /\ \A A, B : NoneAfter(s2c, A, B) /\ (b \/ x \notin B \/ ~Has(s2c, A))
                     /\ (y \notin B \/ (~Has(s2c, A) /\ (b \/ x \notin A))) => NoneAfter(s2c', A, B)
      /\ \A A, B : Guarded(s2c, A, B) /\ (b \/ x \notin B \/ Has(s2c, A))
                     /\ (y \notin B \/ Has(s2c, A) \/ (~b /\ x \in A)) => Guarded(s2c', A, B)
  BY <1>1, Answered
<1>6. OnceInv'
  <2>1. Opened(p_ccp) => Opened(p_ccp')
    BY DEF Opened
  <2> QED  BY <1>2, <1>3, <1>4, <1>5, <2>1
           DEF OnceInv, AuthOnce, CcpOnce, DataLast, ClientStill, Live
<1>7. ASSUME Regular PROVE PlainInv'
  <2>1. PlainInv
    BY <1>7 DEF SyncInv
  <2>2. CASE p_policy.ccp = "nak"
    <3>1. "req" \notin p_ccp => /\ ~Has(s2c, CcpNaks) /\ ~Pending
                                /\ ~Has(s2c, IpAcks) /\ ~ip_configured
      BY <2>1, <2>2 DEF PlainInv, AddrInv
    <3>2. Pending' => Guarded(s2c', CcpNaks, IpAcks)
      <4>1. CASE "req" \in p_ccp
        <5>1. b /\ (Pending' <=> Pending)
          BY <1>4, <1>5, <1>7, <2>2, <4>1 DEF Pending, ClientStill
        <5> QED  BY <1>4, <1>5, <2>1, <5>1 DEF PlainInv
      <4>2. CASE "req" \notin p_ccp
        BY <1>4, <1>5, <3>1, <4>2, Absent
      <4> QED  BY <4>1, <4>2
    <3>3. /\ y \in CcpNaks /\ "req" \in p_ccp' /\ ("tx" \in p_ccp' <=> "tx" \in p_ccp)
          /\ b <=> "req" \in p_ccp
      BY <1>7, <2>2
    <3> QED  BY <1>3, <1>4, <1>5, <2>1, <2>2, <3>1, <3>2, <3>3
             DEF PlainInv, Pending, ClientStill, Live
  <2>3. CASE p_policy.ccp # "nak"
    BY <1>3, <1>4, <1>5, <2>1, <2>3 DEF PlainInv, Pending, ClientStill, Live
  <2> QED  BY <2>2, <2>3
<1>8. Regular' <=> Regular
  BY DEF Regular, ClientStill
<1> QED  BY <1>6, <1>7, <1>8 DEF SyncInv, ClientStill


\* The server answers the client's IPCP request, which reaches it behind the
\* client's CCP request, and one for the assigned address behind the client's
\* CCP acknowledgement too.
LEMMA PeerIpcpAnswer ==
    ASSUME TypeOK, TypeOK', stream_ok, SyncInv, ClientStill, bad' = bad,
           UNCHANGED <<p_lcp, p_ccp, p_await, p_chal, p_master, p_mppe>>,
           sent'.ccp = sent.ccp, Opened(p_lcp), p_master # 0,
           Out # << >>, Out' = Tail(Out), Head(Out) \in IpcpAsks,
           NEW b \in BOOLEAN, NEW y \in Frames, y.proto = "IPCP",
           y \in IpAcks => Head(Out) \in AddrAsks,
           "tx" \in p_ipcp' => "tx" \in p_ipcp \/ y \in IpAcks,
           s2c' = s2c \o (IF b THEN << >> ELSE <<IpcpConfReq(PeerAddr)>>) \o <<y>>
    PROVE  SyncInv'
<1> DEFINE h == Head(Out)
           x == IpcpConfReq(PeerAddr)
<1>1. /\ s2c \in Seq(Frames) /\ Out \in Seq(Frames) /\ x \in Frames
      /\ x.proto = "IPCP" /\ x.code = "ConfReq" /\ s2c' = Behind(s2c, b, x, y)
  BY OutType, PeerFrames DEF TypeOK, IpcpConfReq, Ctl, Behind
<1>2. /\ Out' \in Seq(Frames) /\ h \in Frames
      /\ \A A : Has(Out, A) <=> h \in A \/ Has(Out', A)
      /\ \A A, B : NoneAfter(Out, A, B) => /\ NoneAfter(Out', A, B)
                                           /\ h \in A => ~Has(Out', B)
      /\ \A A, B : Guarded(Out, A, B) => /\ h \notin B
                                         /\ h \notin A => Guarded(Out', A, B)
      /\ h \notin Mppes => \A v, w : Chain(Out, v, w) => Chain(Out', v, w)
  BY <1>1, Taken
<1>3. /\ h \in Asks /\ h \notin CcpAsks /\ h \notin Mppes /\ h \notin CcpAcks
      /\ y \in IpAcks => h \in AddrAsks
  BY <1>2, Kinds
<1> HIDE DEF h, x
<1>4. OnceInv /\ auth_done /\ Told /\ Told'
  BY <1>2, <1>3 DEF SyncInv, OnceInv, CcpOnce, Told, ClientStill
<1>5. Live
  BY <1>4 DEF OnceInv, AuthOnce, Opened
<1>6. /\ x \notin CcpReqs /\ x \notin CcpAcks /\ x \notin CcpNaks /\ x \notin CcpRefs
      /\ x \notin Ccps /\ x \notin Mppes /\ x \notin Succs /\ x \notin IpAcks
      /\ x \notin Later /\ x \notin Sealed
      /\ y \notin CcpReqs /\ y \notin CcpAcks /\ y \notin CcpNaks /\ y \notin CcpRefs
      /\ y \notin Ccps /\ y \notin Mppes /\ y \notin Succs
  BY <1>1, Kinds
<1>7. /\ s2c' \in Seq(Frames)
      /\ \A A : Has(s2c', A) <=> Has(s2c, A) \/ (~b /\ x \in A) \/ y \in A
      /\ \A A, B : NoneAfter(s2c, A, B) /\ (b \/ x \notin B \/ ~Has(s2c, A))
                     /\ (y \notin B \/ (~Has(s2c, A) /\ (b \/ x \notin A))) => NoneAfter(s2c', A, B)
      /\ \A A, B : Guarded(s2c, A, B) /\ (b \/ x \notin B \/ Has(s2c, A))
                     /\ (y \notin B \/ Has(s2c, A) \/ (~b /\ x \in A)) => Guarded(s2c', A, B)
      /\ x \notin Mppes /\ y \notin Mppes =>
           \A v, w : Chain(s2c, v, w) => Chain(s2c', v, w)
  BY <1>1, Answered
<1>8. OnceInv'
  BY <1>2, <1>4, <1>6, <1>7
     DEF OnceInv, AuthOnce, CcpOnce, DataLast, ClientStill, Live
<1>9. ASSUME p_policy.ccp = "grant" PROVE GrantInv'
  <2>1. GrantInv /\ "tx" \in p_ccp /\ "req" \in p_ccp
    BY <1>4, <1>5, <1>9 DEF SyncInv, GrantInv, GrantMarks
  <2>2. y \in IpAcks => Opened(p_ccp)
    BY <1>2, <1>3, <1>5, <2>1 DEF GrantInv, GrantOut, Opened
  <2>3. GrantMarks'
    BY <1>4, <2>1, <2>2 DEF GrantInv, GrantMarks, ClientStill, Live
  <2>4. GrantIn'
    BY <1>6, <1>7, <2>1 DEF GrantInv, GrantIn, ClientStill
  <2>5. GrantOut'
    BY <1>2, <1>3, <2>1 DEF GrantInv, GrantOut, ClientStill, Live
  <2>6. GrantKeys'
    BY <1>2, <1>3, <1>6, <1>7, <2>1
       DEF GrantInv, GrantKeys, InChain, OutChain, Unused, ClientRecvEnd,
           ClientSendEnd, PeerRecvEnd, PeerSendEnd, ClientStill
  <2> QED  BY <2>3, <2>4, <2>5, <2>6 DEF GrantInv
<1>10. ASSUME p_policy.ccp # "grant", Regular PROVE PlainInv'
  <2>1. PlainInv
    BY <1>10 DEF SyncInv
  <2>2. Pending => Has(s2c, CcpNaks)
    BY <1>4, <1>5, <2>1 DEF PlainInv
  <2>3. Pending' <=> Pending
    BY <1>6, <1>7 DEF Pending, ClientStill
  <2>4. Pending' => Guarded(s2c', CcpNaks, IpAcks)
    BY <1>6, <1>7, <2>1, <2>2, <2>3 DEF PlainInv
  <2>5. p_policy.ccp = "nak" => "req" \in p_ccp
    BY <1>4, <1>5, <2>1 DEF PlainInv
  <2> QED  BY <1>2, <1>6, <1>7, <2>1, <2>2, <2>3, <2>4, <2>5
           DEF PlainInv, ClientStill, Live
<1>11. Regular' <=> Regular
  BY DEF Regular, ClientStill
<1> QED  BY <1>8, <1>9, <1>10, <1>11 DEF SyncInv, ClientStill

\* The server encrypts a packet with the next key of its sending end.
LEMMA PeerSeals ==
    ASSUME TypeOK, TypeOK', stream_ok, SyncInv, NamedInv, AuthInv, ClientStill,
           bad' = bad, Out' = Out,
           UNCHANGED <<p_lcp, p_ccp, p_ipcp, p_await, p_chal, p_master>>,
           sent'.ccp = sent.ccp, Opened(p_ccp),
           p_mppe' = MppeAdvance(p_mppe), s2c' = s2c \o <<MppeFrame(MppeAdvance(p_mppe))>>
    PROVE  SyncInv'
<1> DEFINE f == MppeFrame(MppeAdvance(p_mppe))
<1>1. s2c \in Seq(Frames) /\ p_mppe \in MppeStates
  BY DEF TypeOK
<1>2. /\ f \in Frames /\ f.proto = "MPPE" /\ s2c' = s2c \o <<f>>
      /\ f.key = Succ(SendEnd(p_mppe)).key /\ f.val = Succ(SendEnd(p_mppe)).cnt
      /\ SendEnd(p_mppe') = Succ(SendEnd(p_mppe)) /\ RecvEnd(p_mppe') = RecvEnd(p_mppe)
  BY <1>1, SendNext DEF NamedInv
<1> HIDE DEF f
<1>3. /\ f \notin CcpReqs /\ f \notin CcpAcks /\ f \notin CcpNaks /\ f \notin CcpRefs
      /\ f \notin Ccps /\ f \notin Succs /\ f \notin IpAcks /\ f \in Mppes
      /\ <<f>> \in Seq(Frames) /\ \A A : Has(<<f>>, A) <=> f \in A
  BY <1>2, Kinds, OneKind
<1>4. /\ s2c' \in Seq(Frames)
      /\ \A A : Has(s2c', A) <=> Has(s2c, A) \/ f \in A
      /\ \A A, B : Guarded(s2c, A, B) /\ (Has(s2c, A) \/ f \notin B) => Guarded(s2c', A, B)
  BY <1>1, <1>2, <1>3, Added
<1>5. \A A, B : NoneAfter(s2c, A, B) /\ (f \notin B \/ ~Has(s2c, A)) => NoneAfter(s2c', A, B)
  BY <1>1, <1>2, OrderAppend
<1>6. OnceInv /\ p_master # 0
  BY DEF SyncInv, OnceInv, AuthOnce, Opened
<1>7. AuthOnce'
  <2>1. ~auth_done => Guarded(s2c', Succs, Nets)
    BY <1>4, <1>6 DEF OnceInv, AuthOnce, AuthInv
  <2> QED  BY <1>3, <1>4, <1>5, <1>6, <2>1 DEF OnceInv, AuthOnce, ClientStill, Live
<1>8. CcpOnce' /\ DataLast'
  BY <1>3, <1>4, <1>6 DEF OnceInv, CcpOnce, DataLast, ClientStill
<1>9. ASSUME p_policy.ccp = "grant" PROVE GrantInv'
  <2>1. GrantInv /\ "req" \in p_ccp
    BY <1>9 DEF SyncInv, GrantInv, GrantMarks, Opened
  <2>2. GrantMarks' /\ GrantOut'
    BY <2>1 DEF GrantInv, GrantMarks, GrantOut, ClientStill, Live, Told
  <2>3. GrantIn'
    BY <1>3, <1>4, <1>5, <2>1 DEF GrantInv, GrantIn, ClientStill
  <2>4. Chain(s2c, ClientRecvEnd, SendEnd(p_mppe)) /\ ClientRecvEnd' = ClientRecvEnd
    BY <1>3, <1>4, <2>1
       DEF GrantInv, GrantKeys, InChain, PeerSendEnd, ClientRecvEnd, ClientStill
  <2>5. SendEnd(p_mppe') \in Ends
    BY EndTypes DEF TypeOK
  <2>6. Chain(s2c', ClientRecvEnd, SendEnd(p_mppe'))
    BY <1>1, <1>2, <1>3, <2>4, <2>5, ChainAppend
  <2>7. InChain'
    BY <2>4, <2>6 DEF InChain, PeerSendEnd
  <2>8. OutChain' /\ Unused'
    BY <1>2, <2>1
       DEF GrantInv, GrantKeys, OutChain, Unused, ClientSendEnd, PeerRecvEnd, ClientStill
  <2> QED  BY <2>1, <2>2, <2>3, <2>7, <2>8 DEF GrantInv, GrantKeys
<1>10. p_policy.ccp # "grant" /\ Regular => PlainInv'
  BY DEF SyncInv, PlainInv, Opened
<1>11. Regular' <=> Regular
  BY DEF Regular, ClientStill
<1> QED  BY <1>7, <1>8, <1>9, <1>10, <1>11 DEF SyncInv, OnceInv, ClientStill

\* The server reads an encrypted packet: it has terminated the link, or it holds
\* the key before the packet's.
LEMMA PeerReads ==
    ASSUME TypeOK, TypeOK', stream_ok, SyncInv, NamedInv, AddrInv, ClientStill,
           UNCHANGED <<s2c, p_lcp, p_ccp, p_ipcp, p_await, p_chal, p_master>>,
           sent'.ccp = sent.ccp,
           Out # << >>, Out' = Tail(Out), Head(Out).proto = "MPPE",
           p_mppe' = IF Opened(p_ccp) THEN MppeCatchUp(p_mppe, Head(Out)) ELSE p_mppe,
           bad' = IF "term" \in p_lcp \/ (Opened(p_ccp) /\ MppeReadable(p_mppe, Head(Out)))
                    THEN bad ELSE bad \cup {"server"}
    PROVE  SyncInv'
<1> DEFINE h == Head(Out)
<1>1. Out \in Seq(Frames) /\ p_mppe \in MppeStates
  BY OutType DEF TypeOK
<1>2. /\ Out' \in Seq(Frames) /\ h \in Frames
      /\ \A A : Has(Out, A) <=> h \in A \/ Has(Out', A)
      /\ \A A, B : NoneAfter(Out, A, B) => NoneAfter(Out', A, B)
      /\ \A A, B : Guarded(Out, A, B) /\ h \notin A => Guarded(Out', A, B)
  BY <1>1, Taken
<1>3. h \in Mppes /\ h.proto = "MPPE" /\ h \notin CcpAsks /\ h \notin CcpAcks
  BY <1>2, Kinds
<1>4. \A v, w : Chain(Out, v, w) => /\ Chain(Out', Succ(v), w)
                                    /\ h.key = Succ(v).key /\ h.val = Succ(v).cnt
  BY <1>1, <1>3, ChainTail
<1>5. /\ p_mppe' = IF Opened(p_ccp) THEN MppeCatchUp(p_mppe, h) ELSE p_mppe
      /\ bad' = IF "term" \in p_lcp \/ (Opened(p_ccp) /\ MppeReadable(p_mppe, h))
                  THEN bad ELSE bad \cup {"server"}
  OBVIOUS
<1> HIDE DEF h
<1>6. OnceInv /\ Has(Out, Mppes) /\ ip_configured
  BY <1>2, <1>3 DEF SyncInv, OnceInv, DataLast
<1>7. OnceInv'
  BY <1>2, <1>6 DEF OnceInv, AuthOnce, CcpOnce, DataLast, ClientStill, Live
<1>8. ASSUME p_policy.ccp = "grant" PROVE GrantInv' /\ bad' = bad
  <2>1. GrantInv /\ Opened(p_ccp)
    BY <1>6, <1>8 DEF SyncInv, GrantInv, GrantMarks, AddrInv
  <2>2. Chain(Out, RecvEnd(p_mppe), ClientSendEnd)
    BY <2>1 DEF GrantInv, GrantKeys, OutChain, PeerRecvEnd
  <2>3. /\ Chain(Out', Succ(RecvEnd(p_mppe)), ClientSendEnd)
        /\ h.key = Succ(RecvEnd(p_mppe)).key /\ h.val = Succ(RecvEnd(p_mppe)).cnt
    BY <1>4, <2>2
  <2>4. /\ MppeReadable(p_mppe, h) /\ p_mppe' = MppeCatchUp(p_mppe, h)
        /\ RecvEnd(p_mppe') = Succ(RecvEnd(p_mppe)) /\ SendEnd(p_mppe') = SendEnd(p_mppe)
    BY <1>1, <1>2, <1>3, <1>5, <2>1, <2>3, ReadNext DEF NamedInv
  <2>5. ClientSendEnd' = ClientSendEnd /\ ClientRecvEnd' = ClientRecvEnd
    BY DEF ClientSendEnd, ClientRecvEnd, ClientStill
  <2>6. GrantMarks' /\ GrantIn' /\ GrantOut'
    BY <1>2, <1>3, <2>1
       DEF GrantInv, GrantMarks, GrantIn, GrantOut, ClientStill, Live, Told
  <2>7. GrantKeys'
    BY <2>1, <2>3, <2>4, <2>5
       DEF GrantInv, GrantKeys, InChain, OutChain, Unused, PeerSendEnd, PeerRecvEnd,
           ClientStill
  <2>8. bad' = bad
    BY <1>5, <2>1, <2>4
  <2> QED  BY <2>6, <2>7, <2>8 DEF GrantInv
<1>9. ~(p_policy.ccp # "grant" /\ Regular)
  BY <1>6 DEF SyncInv, PlainInv
<1>10. Regular' <=> Regular
  BY DEF Regular, ClientStill
<1> QED  BY <1>7, <1>8, <1>9, <1>10 DEF SyncInv, ClientStill


-----------------------------------------------------------------------------
(* MPPE in step: each step of the server.                                  *)

\* A step in which the server sends leaves the client and its frames alone.
LEMMA SendsStill ==
    ASSUME UNCHANGED <<clientVars, txVars, stream_ok, p_policy>>
    PROVE  ClientStill /\ Out' = Out
BY DEF ClientStill, clientVars, upVars, txVars, Out, Held

\* One in which it takes a frame takes the first of them.
LEMMA TakesStill ==
    ASSUME TypeOK, NEW ps, PeerTakes(ps)
    PROVE  /\ ClientStill /\ stream_ok /\ Out # << >> /\ Out' = Tail(Out)
           /\ Head(Out) = Head(c2s) /\ Head(Out) \in Frames /\ Head(Out).proto \in ps
<1>1. /\ Out # << >> /\ Out' = Tail(Out) /\ Head(Out) = Head(c2s)
      /\ Head(Out) \in Frames /\ Head(Out).proto \in ps /\ stream_ok
  BY TakesOnly
<1>2. ClientStill
  BY DEF PeerTakes, ClientStill, clientVars, upVars
<1> QED  BY <1>1, <1>2

\* One frame that is neither of CCP, nor a Success, nor sealed.
LEMMA CalmFrame ==
    ASSUME NEW f \in Frames,
           \/ f.proto = "LCP" \/ (f.proto = "CHAP" /\ f.code # "Success")
           \/ (f.proto = "IPCP" /\ f.code = "ConfReq") \/ f.proto = "IP"
    PROVE  /\ <<f>> \in Seq(Frames)
           /\ ~Has(<<f>>, Ccps) /\ ~Has(<<f>>, Later) /\ ~Has(<<f>>, Succs)
           /\ Has(<<f>>, Nets) => f.proto \in {"IPCP", "IP"}
<1>1. f \notin Ccps /\ f \notin Later /\ f \notin Succs /\ (f \in Nets => f.proto \in {"IPCP", "IP"})
  BY Kinds
<1>2. <<f>> \in Seq(Frames) /\ \A A : Has(<<f>>, A) <=> f \in A
  BY OneKind
<1> QED  BY <1>1, <1>2

\* The server opens LCP, challenges, opens IPCP, sends an echo, terminates.
LEMMA CalmSends ==
    ASSUME TypeOK, TypeOK', UpInv, SyncInv,
           PeerLcpOpen \/ PeerChallenge \/ PeerIpcpOpen \/ PeerEcho \/ PeerTerminate
    PROVE  SyncInv'
<1>1. AuthInv /\ stream_ok /\ OnceInv /\ sent \in SentCounts /\ p_chal \in Nat
  BY DEF UpInv, SyncInv, PeerLcpOpen, PeerChallenge, PeerIpcpOpen, PeerEcho,
         PeerTerminate, PeerSends, TypeOK
<1>2. UNCHANGED <<clientVars, txVars, stream_ok, p_policy, p_master, p_ccp, p_mppe, bad>>
  BY DEF PeerLcpOpen, PeerChallenge, PeerIpcpOpen, PeerEcho, PeerTerminate, peerVars
<1>3. ClientStill /\ Ignores
  BY <1>2, SendsStill DEF Ignores
<1>4. /\ ~Live => p_lcp = {"term"}
      /\ p_await => p_chal # 0
      /\ p_master = 0 => p_ipcp = {}
  BY <1>1 DEF OnceInv, AuthOnce
<1>5. CASE PeerLcpOpen
  <2> DEFINE f == LcpConfReq
  <2>1. f \in Frames /\ f.proto = "LCP" /\ s2c' = s2c \o <<f>>
    BY <1>5, PeerFrames DEF PeerLcpOpen, PeerSends, LcpConfReq, Ctl
  <2> HIDE DEF f
  <2>2. p_lcp = {} /\ p_lcp' = {"req"} /\ UNCHANGED <<p_ipcp, p_await, p_chal, sent>>
    BY <1>5 DEF PeerLcpOpen
  <2>3. "term" \notin p_lcp /\ "term" \notin p_lcp' /\ ~Opened(p_lcp)
    BY <2>2 DEF Opened
  <2> QED  BY <1>1, <1>2, <1>3, <1>4, <2>1, <2>2, <2>3, CalmFrame, PeerCalm
<1>6. CASE PeerChallenge
  <2> DEFINE f == Ctl("CHAP", "Challenge", p_chal + 1)
  <2>1. /\ f \in Frames /\ f.proto = "CHAP" /\ f.code # "Success" /\ s2c' = s2c \o <<f>>
    BY <1>1, <1>6, CtlFrame DEF PeerChallenge, PeerSends, Ctl, Protos, Codes
  <2> HIDE DEF f
  <2>2. /\ UNCHANGED <<p_ipcp, p_lcp>> /\ p_chal' # 0 /\ sent'.ccp = sent.ccp
    BY <1>1, <1>6 DEF PeerChallenge, SentCounts
  <2> QED  BY <1>1, <1>2, <1>3, <1>4, <2>1, <2>2, CalmFrame, PeerCalm DEF Live
<1>7. CASE PeerIpcpOpen
  <2> DEFINE f == IpcpConfReq(PeerAddr)
  <2>1. /\ f \in Frames /\ f.proto = "IPCP" /\ f.code = "ConfReq" /\ s2c' = s2c \o <<f>>
    BY <1>7, PeerFrames DEF PeerIpcpOpen, PeerSends, IpcpConfReq, Ctl
  <2> HIDE DEF f
  <2>2. /\ UNCHANGED <<p_lcp, p_await, p_chal, sent>> /\ p_master # 0
        /\ p_ipcp = {} /\ p_ipcp' = {"req"}
    BY <1>7 DEF PeerIpcpOpen
  <2>3. "tx" \notin p_ipcp /\ "tx" \notin p_ipcp'
    BY <2>2
  <2> QED  BY <1>1, <1>2, <1>3, <1>4, <2>1, <2>2, <2>3, CalmFrame, PeerCalm DEF Live
<1>8. CASE PeerEcho
  <2> DEFINE f == Ctl("LCP", "EchoReq", 0)
  <2>1. f \in Frames /\ f.proto = "LCP" /\ s2c' = s2c \o <<f>>
    BY <1>8, PeerFrames DEF PeerEcho, PeerSends, Ctl, Codes
  <2> HIDE DEF f
  <2>2. UNCHANGED <<p_lcp, p_ipcp, p_await, p_chal>> /\ sent'.ccp = sent.ccp
    BY <1>1, <1>8 DEF PeerEcho, peerVars, SentCounts
  <2> QED  BY <1>1, <1>2, <1>3, <1>4, <2>1, <2>2, CalmFrame, PeerCalm DEF Live
<1>9. CASE PeerTerminate
  <2> DEFINE f == Ctl("LCP", "TermReq", 0)
  <2>1. f \in Frames /\ f.proto = "LCP" /\ s2c' = s2c \o <<f>>
    BY <1>9, PeerFrames DEF PeerTerminate, PeerSends, Ctl, Codes
  <2> HIDE DEF f
  <2>2. /\ UNCHANGED <<p_ipcp, p_await, p_chal, sent>>
        /\ Opened(p_lcp) /\ p_lcp' = {"term"}
    BY <1>9 DEF PeerTerminate
  <2>3. "term" \notin p_lcp /\ "term" \in p_lcp'
    BY <1>4, <2>2 DEF Live, Opened
  <2> QED  BY <1>1, <1>2, <1>3, <1>4, <2>1, <2>2, <2>3, CalmFrame, PeerCalm
<1> QED  BY <1>5, <1>6, <1>7, <1>8, <1>9

\* The server's own CCP requests.
LEMMA CcpSends ==
    ASSUME TypeOK, TypeOK', UpInv, SyncInv, PeerCcpOpen \/ PeerCcpRepeat
    PROVE  SyncInv'
<1>1. /\ AuthInv /\ AddrInv /\ stream_ok /\ OnceInv /\ sent \in SentCounts
      /\ s2c' = s2c \o <<CcpConfReq>>
  BY DEF UpInv, SyncInv, PeerCcpOpen, PeerCcpRepeat, PeerSends, TypeOK
<1>2. UNCHANGED <<clientVars, txVars, stream_ok, p_policy, p_lcp, p_ipcp, p_await,
                  p_chal, p_master, p_mppe, bad>>
  BY DEF PeerCcpOpen, PeerCcpRepeat
<1>3. ClientStill /\ Out' = Out
  BY <1>2, SendsStill
<1>4. CASE PeerCcpOpen
  <2>1. /\ p_master # 0 /\ p_ccp = {} /\ p_ccp' = {"req"} /\ sent' = sent
        /\ p_policy.ccp \in {"grant", "nak"}
    BY <1>4 DEF PeerCcpOpen
  <2>2. ~Opened(p_ccp)
    BY <2>1 DEF Opened
  <2> QED  BY <1>1, <1>2, <1>3, <2>1, <2>2, PeerCcpAsks
<1>5. CASE PeerCcpRepeat
  <2>1. /\ "req" \in p_ccp /\ ~Opened(p_ccp) /\ p_ccp' = p_ccp \ {"rx"}
        /\ sent' = [sent EXCEPT !.ccp = @ + 1]
    BY <1>5 DEF PeerCcpRepeat
  <2>2. sent'.ccp # 0
    BY <1>1, <2>1 DEF SentCounts
  <2>3. p_master # 0
    BY <1>1, <2>1 DEF OnceInv, AuthOnce
  <2> QED  BY <1>1, <1>2, <1>3, <2>1, <2>2, <2>3, PeerCcpAsks
<1> QED  BY <1>4, <1>5

\* The server's packets.
LEMMA DataSends ==
    ASSUME TypeOK, TypeOK', UpInv, SyncInv, NamedInv, PeerSendIp
    PROVE  SyncInv'
<1>1. AuthInv /\ stream_ok /\ OnceInv /\ sent \in SentCounts
  BY DEF UpInv, SyncInv, PeerSendIp, PeerSends, TypeOK
<1>2. UNCHANGED <<clientVars, txVars, stream_ok, p_policy, p_lcp, p_ccp, p_ipcp,
                  p_await, p_chal, p_master, bad>>
  BY DEF PeerSendIp
<1>3. ClientStill /\ Out' = Out /\ sent'.ccp = sent.ccp
  <2>1. sent'.ccp = sent.ccp
    BY <1>1 DEF PeerSendIp, SentCounts
  <2> QED  BY <1>2, <2>1, SendsStill
<1>4. CASE Opened(p_ccp)
  <2>1. p_mppe' = MppeAdvance(p_mppe) /\ s2c' = s2c \o <<MppeFrame(p_mppe')>>
    BY <1>4 DEF PeerSendIp, PeerSends
  <2>2. s2c' = s2c \o <<MppeFrame(MppeAdvance(p_mppe))>>
    BY <2>1
  <2> QED  BY <1>1, <1>2, <1>3, <1>4, <2>1, <2>2, PeerSeals
<1>5. CASE ~Opened(p_ccp)
  <2> DEFINE f == IpFrame
  <2>1. /\ p_mppe' = p_mppe /\ s2c' = s2c \o <<f>> /\ f \in Frames /\ f.proto = "IP"
    BY <1>5, PeerFrames DEF PeerSendIp, PeerSends, IpFrame, Ctl
  <2> HIDE DEF f
  <2>2. /\ p_master # 0 /\ (~Live => p_lcp = {"term"}) /\ (p_await => p_chal # 0)
    BY <1>1 DEF OnceInv, AuthOnce, PeerSendIp, Opened
  <2> QED  BY <1>1, <1>2, <1>3, <2>1, <2>2, CalmFrame, PeerCalm DEF Ignores, Live
<1> QED  BY <1>4, <1>5


\* Nothing sent.
LEMMA SendsNothing ==
    ASSUME TypeOK, s2c' = s2c
    PROVE  /\ << >> \in Seq(Frames) /\ s2c' = s2c \o << >>
           /\ \A A : ~Has(<< >>, A)
<1>1. s2c \in Seq(Frames) /\ << >> \in Seq(Frames)
  BY NoneIn DEF TypeOK
<1>2. s2c \o << >> = s2c
  BY <1>1, ConcatEmptySeq
<1>3. \A A : ~Has(<< >>, A)
  BY DEF Has
<1> QED  BY <1>1, <1>2, <1>3

\* Steps of the server that take a frame and answer nothing.
LEMMA PeerSilent ==
    ASSUME TypeOK, TypeOK', stream_ok, SyncInv, AuthInv, ClientStill,
           Out # << >>, Out' = Tail(Out), Head(Out) \notin Mppes,
           Head(Out) \in CcpAsks \/ Head(Out) \in CcpAcks => "term" \in p_lcp',
           UNCHANGED <<s2c, p_ccp, p_await, p_chal, p_master, p_mppe, sent>>,
           Regular => bad' = bad,
           "term" \in p_lcp => p_lcp' = p_lcp,
           "term" \in p_lcp' => "term" \in p_lcp,
           p_lcp \subseteq p_lcp',
           "tx" \in p_ipcp' <=> "tx" \in p_ipcp, p_master = 0 => p_ipcp' = p_ipcp
    PROVE  SyncInv'
<1>1. OnceInv /\ Ignores
  BY DEF SyncInv, Ignores
<1>2. /\ "term" \in p_lcp => p_lcp = {"term"}
      /\ p_await => p_chal # 0
      /\ p_master = 0 => p_ipcp = {}
  BY <1>1 DEF OnceInv, AuthOnce, Live
<1>3. Opened(p_lcp) => Opened(p_lcp')
  BY DEF Opened
<1>4. /\ << >> \in Seq(Frames) /\ s2c' = s2c \o << >>
      /\ \A A : ~Has(<< >>, A)
  BY SendsNothing
<1>5. /\ p_await' => p_chal' # 0
      /\ "term" \in p_lcp' => p_lcp' = {"term"}
      /\ p_master = 0 => p_ipcp' = {}
      /\ p_master = 0 \/ (Opened(p_lcp) /\ "term" \notin p_lcp' => Opened(p_lcp'))
      /\ sent'.ccp = sent.ccp
  BY <1>2, <1>3
<1> QED  BY <1>1, <1>4, <1>5, PeerCalm

\* The client's LCP requests come before authentication.
LEMMA LcpTakes ==
    ASSUME TypeOK, TypeOK', UpInv, SyncInv, PeerLcpConfReq \/ PeerLcpOther
    PROVE  SyncInv'
<1>1. /\ ClientStill /\ stream_ok /\ Out # << >> /\ Out' = Tail(Out)
      /\ Head(Out) = Head(c2s) /\ Head(Out) \in Frames /\ Head(Out).proto \in {"LCP"}
  BY TakesStill DEF PeerLcpConfReq, PeerLcpOther
<1>2. /\ AuthInv /\ OutInv /\ OnceInv /\ Out \in Seq(Frames) /\ s2c \in Seq(Frames)
      /\ sent \in SentCounts /\ p_lcp \subseteq Marks
  BY <1>1, OutType DEF UpInv, SyncInv, TypeOK
<1>3. Head(Out) \notin Mppes /\ Head(Out) \notin CcpAsks /\ Head(Out) \notin CcpAcks
  BY <1>1, Kinds
<1>4. /\ "term" \in p_lcp => p_lcp = {"term"}
      /\ p_await => p_chal # 0
      /\ p_master = 0 => p_ccp = {} /\ p_ipcp = {}
  BY <1>2 DEF OnceInv, AuthOnce, Live
<1>5. CASE PeerLcpOther
  <2>1. /\ UNCHANGED <<s2c, p_ccp, p_ipcp, p_await, p_chal, p_master, p_mppe, sent, bad>>
        /\ p_lcp' = p_lcp \/ (p_lcp' = p_lcp \cup {"rx"} /\ "req" \in p_lcp)
    BY <1>5 DEF PeerLcpOther
  <2>2. /\ "term" \in p_lcp => p_lcp' = p_lcp
        /\ "term" \in p_lcp' => "term" \in p_lcp
        /\ p_lcp \subseteq p_lcp'
    BY <1>4, <2>1
  <2> QED  BY <1>1, <1>2, <1>3, <2>1, <2>2, PeerSilent
<1>6. CASE PeerLcpConfReq
  <2>1. Head(Out) \in Reqs
    BY <1>1, <1>6 DEF PeerLcpConfReq, Reqs, Kind
  <2>2. p_master = 0
    <3>1. Has(Out, Reqs)
      BY <1>1, <1>2, <2>1, HasTail
    <3> QED  BY <1>1, <1>2, <3>1 DEF OutInv
  <2>3. /\ "term" \notin p_lcp /\ p_lcp' \subseteq p_lcp \cup {"req", "tx"}
        /\ p_ccp' = {} /\ p_ipcp' = {} /\ p_master' = 0
        /\ p_await' => p_await
        /\ UNCHANGED <<p_chal, p_mppe, bad>>
    <3>1. /\ "term" \notin p_lcp /\ UNCHANGED <<p_chal, p_mppe, bad>>
      BY <1>6 DEF PeerLcpConfReq
    <3>2. \/ /\ p_lcp' = p_lcp \cup {"req"}
             /\ UNCHANGED <<p_await, p_master, p_ccp, p_ipcp>>
          \/ /\ p_lcp' = IF Opened(p_lcp) THEN {"req", "tx"} ELSE p_lcp \cup {"req", "tx"}
             /\ IF Opened(p_lcp)
                  THEN p_await' = FALSE /\ p_master' = 0 /\ p_ccp' = {} /\ p_ipcp' = {}
                  ELSE UNCHANGED <<p_await, p_master, p_ccp, p_ipcp>>
      BY <1>6 DEF PeerLcpConfReq
    <3> QED  BY <1>4, <2>2, <3>1, <3>2
  <2>4. sent'.ccp = sent.ccp
    BY <1>2, <1>6 DEF PeerLcpConfReq, SentCounts
  <2>5. PICK b \in BOOLEAN, c \in {"ConfNak", "ConfAck"} :
          s2c' = s2c \o (IF b THEN << >> ELSE <<LcpConfReq>>) \o <<Ctl("LCP", c, 0)>>
    <3>1. \/ s2c' = s2c \o (IF "req" \in p_lcp THEN << >> ELSE <<LcpConfReq>>)
                        \o <<Ctl("LCP", "ConfNak", 0)>>
          \/ s2c' = s2c \o (IF "req" \in p_lcp /\ ~Opened(p_lcp)
                              THEN << >> ELSE <<LcpConfReq>>)
                        \o <<Ctl("LCP", "ConfAck", 0)>>
      BY <1>6 DEF PeerLcpConfReq
    <3>2. ("req" \in p_lcp) \in BOOLEAN /\ ("req" \in p_lcp /\ ~Opened(p_lcp)) \in BOOLEAN
      OBVIOUS
    <3> QED  BY <3>1, <3>2
  <2> DEFINE x == LcpConfReq
             y == Ctl("LCP", c, 0)
             fs == Answer(b, x, y)
  <2>6. x \in Frames /\ y \in Frames /\ x.proto = "LCP" /\ y.proto = "LCP"
    BY PeerFrames DEF LcpConfReq, Ctl, Codes
  <2>7. s2c' = s2c \o (IF b THEN << >> ELSE <<x>>) \o <<y>>
    BY <2>5
  <2> HIDE DEF x, y
  <2>8. s2c' = s2c \o fs
    BY <1>2, <2>6, <2>7, AnswerBehind
  <2>9. fs \in Seq(Frames) /\ \A A : Has(fs, A) <=> (~b /\ x \in A) \/ y \in A
    BY <2>6, AnswerFrames
  <2>10. /\ x \notin Ccps /\ x \notin Later /\ x \notin Succs /\ x \notin Nets
         /\ y \notin Ccps /\ y \notin Later /\ y \notin Succs /\ y \notin Nets
    BY <2>6, Kinds
  <2> HIDE DEF fs
  <2>11. ~Has(fs, Ccps) /\ ~Has(fs, Later) /\ ~Has(fs, Succs) /\ ~Has(fs, Nets)
    BY <2>9, <2>10
  <2>12. Ignores
    BY <1>1, <1>3 DEF Ignores
  <2>13. /\ UNCHANGED <<p_master, p_ccp, p_mppe>> /\ bad' = bad
         /\ p_await' => p_chal' # 0
         /\ "term" \notin p_lcp /\ "term" \notin p_lcp'
         /\ "tx" \in p_ipcp' <=> "tx" \in p_ipcp
    BY <1>4, <2>2, <2>3
  <2> QED  BY <1>1, <1>2, <2>2, <2>3, <2>4, <2>8, <2>9, <2>11, <2>12, <2>13, PeerCalm
<1> QED  BY <1>5, <1>6

\* The server judges a Response.
LEMMA ChapTakes ==
    ASSUME TypeOK, TypeOK', UpInv, SyncInv, PeerChap
    PROVE  SyncInv'
<1>1. /\ ClientStill /\ stream_ok /\ Out # << >> /\ Out' = Tail(Out)
      /\ Head(Out) = Head(c2s) /\ Head(Out) \in Frames /\ Head(Out).proto \in {"CHAP"}
  BY TakesStill DEF PeerChap
<1>2. AuthInv /\ OnceInv /\ s2c \in Seq(Frames)
  BY <1>1 DEF UpInv, SyncInv, TypeOK
<1>3. Head(Out) \notin Mppes /\ Head(Out) \notin CcpAsks /\ Head(Out) \notin CcpAcks
  BY <1>1, Kinds
<1>4. UNCHANGED <<p_lcp, p_ccp, p_ipcp, p_chal, p_mppe, sent, bad>>
  BY DEF PeerChap
<1>5. /\ "term" \in p_lcp => p_lcp = {"term"}
      /\ p_master = 0 => p_ipcp = {}
  BY <1>2 DEF OnceInv, AuthOnce, Live
<1>6. CASE UNCHANGED <<s2c, p_await, p_master>>
  BY <1>1, <1>2, <1>3, <1>4, <1>6, PeerSilent
<1>7. CASE /\ ~p_await' /\ s2c' = Append(s2c, Ctl("CHAP", "Failure", 0))
           /\ UNCHANGED p_master
  <2> DEFINE f == Ctl("CHAP", "Failure", 0)
  <2>1. f \in Frames /\ f.proto = "CHAP" /\ f.code # "Success" /\ s2c' = Append(s2c, f)
    BY <1>7, PeerFrames DEF Ctl, Codes
  <2> HIDE DEF f
  <2>2. s2c' = s2c \o <<f>>
    BY <1>2, <2>1, AppendIsConcat
  <2>3. Ignores
    BY <1>1, <1>3 DEF Ignores
  <2> QED  BY <1>1, <1>2, <1>4, <1>5, <1>7, <2>1, <2>2, <2>3, CalmFrame, PeerCalm
<1>8. CASE /\ Opened(p_lcp) /\ p_await /\ ~p_await' /\ p_master' = p_chal
           /\ s2c' = Append(s2c, Ctl("CHAP", "Success", 0))
  <2>1. Ctl("CHAP", "Success", 0) \in Frames
    BY PeerFrames DEF Codes
  <2>2. s2c' = s2c \o <<Ctl("CHAP", "Success", 0)>>
    BY <1>2, <1>8, <2>1, AppendIsConcat
  <2> QED  BY <1>1, <1>2, <1>4, <1>8, <2>2, PeerAccepts
<1>9. \/ UNCHANGED <<s2c, p_await, p_master>>
      \/ /\ ~p_await' /\ s2c' = Append(s2c, Ctl("CHAP", "Failure", 0))
         /\ UNCHANGED p_master
      \/ /\ Opened(p_lcp) /\ p_await /\ ~p_await' /\ p_master' = p_chal
         /\ s2c' = Append(s2c, Ctl("CHAP", "Success", 0))
  BY <1>2 DEF PeerChap, AuthInv
<1> QED  BY <1>6, <1>7, <1>8, <1>9


\* A frame of the client's after its Success, that the server does not look at:
\* it terminated the link.
LEMMA Unheard ==
    ASSUME TypeOK, OnceInv, Out # << >>, Head(Out) \in Asks, ~Opened(p_lcp) \/ p_master = 0
    PROVE  "term" \in p_lcp
<1>1. Has(Out, Asks)
  BY OutType, HasTail
<1> QED  BY <1>1 DEF OnceInv, AuthOnce, CcpOnce, Live

\* The server answers CCP as its policy is.
LEMMA CcpTakes ==
    ASSUME TypeOK, TypeOK', UpInv, SyncInv, PeerCcp
    PROVE  SyncInv'
<1>1. /\ ClientStill /\ stream_ok /\ Out # << >> /\ Out' = Tail(Out)
      /\ Head(Out) = Head(c2s) /\ Head(Out) \in Frames /\ Head(Out).proto \in {"CCP"}
  BY TakesStill DEF PeerCcp
<1>2. AuthInv /\ AddrInv /\ OnceInv /\ s2c \in Seq(Frames)
  BY <1>1 DEF UpInv, SyncInv, TypeOK
<1>3. /\ Head(Out) \notin Mppes /\ Head(Out) \in Asks
      /\ Head(Out) \in CcpAcks <=> Head(Out).code = "ConfAck"
      /\ Head(Out) \in CcpAsks <=> Head(Out).code # "ConfAck"
  BY <1>1, Kinds
<1>4. UNCHANGED <<p_lcp, p_ipcp, p_await, p_chal, p_master, sent, bad>>
  BY DEF PeerCcp
<1>5. CASE ~Opened(p_lcp) \/ p_master = 0
  <2>1. UNCHANGED <<s2c, p_ccp, p_mppe>>
    BY <1>5 DEF PeerCcp
  <2>2. "term" \in p_lcp
    BY <1>1, <1>2, <1>3, <1>5, Unheard
  <2> QED  BY <1>1, <1>2, <1>3, <1>4, <2>1, <2>2, PeerSilent
<1>6. CASE Opened(p_lcp) /\ p_master # 0 /\ Head(Out).code = "ConfAck"
  <2>1. PeerCcpSet(p_ccp \cup {"rx"}) /\ UNCHANGED s2c
    BY <1>1, <1>6 DEF PeerCcp
  <2> QED  BY <1>1, <1>2, <1>3, <1>4, <1>6, <2>1, PeerCcpAcked
<1>7. CASE Opened(p_lcp) /\ p_master # 0 /\ Head(Out).code # "ConfAck"
  <2> DEFINE b == "req" \in p_ccp /\ ~Opened(p_ccp)
             Ans(y) == s2c' = s2c \o (IF b THEN << >> ELSE <<CcpConfReq>>) \o <<y>>
  <2>0. /\ p_policy.ccp = "grant" => "tx" \notin p_ccp
        /\ p_policy.ccp # "grant" /\ Regular => "tx" \notin p_ccp
    <3>1. Has(Out, CcpAsks)
      BY <1>1, <1>3, <1>7, OutType, HasTail
    <3> QED  BY <1>1, <3>1 DEF SyncInv, GrantInv, GrantMarks, PlainInv, Told
  <2>1. \/ /\ p_policy.ccp = "grant" /\ PeerCcpSet(p_ccp \cup {"req", "tx"})
           /\ Ans(Ctl("CCP", "ConfAck", 0))
        \/ /\ p_policy.ccp = "nak" /\ PeerCcpSet(p_ccp \cup {"req"})
           /\ Ans(Ctl("CCP", "ConfNak", 0))
        \/ /\ p_policy.ccp # "grant" /\ p_policy.ccp # "nak" /\ p_ccp' = p_ccp
           /\ s2c' = Append(s2c, Ctl("CCP", "ConfRej", 0))
        \/ /\ p_policy.ccp # "grant" /\ p_policy.ccp # "nak" /\ p_ccp' = p_ccp
           /\ s2c' = Append(s2c, Ctl("LCP", "ProtRej", 0))
    <3>1. p_policy.ccp = "grant" => ~Opened(p_ccp)
      BY <2>0 DEF Opened
    <3> QED  BY <1>1, <1>7, <3>1 DEF PeerCcp
  <2>2. CASE /\ p_policy.ccp = "grant" /\ PeerCcpSet(p_ccp \cup {"req", "tx"})
             /\ Ans(Ctl("CCP", "ConfAck", 0))
    <3>1. s2c' = s2c \o (IF "req" \in p_ccp THEN << >> ELSE <<CcpConfReq>>)
                     \o <<Ctl("CCP", "ConfAck", 0)>>
      BY <2>0, <2>2 DEF Opened
    <3> QED  BY <1>1, <1>2, <1>3, <1>4, <1>7, <2>2, <3>1, PeerGrants
  <2>3. CASE /\ p_policy.ccp = "nak" /\ PeerCcpSet(p_ccp \cup {"req"})
             /\ Ans(Ctl("CCP", "ConfNak", 0))
    <3> DEFINE y == Ctl("CCP", "ConfNak", 0)
    <3>1. y \in Frames /\ y.proto = "CCP" /\ y.code = "ConfNak"
      BY PeerFrames DEF Ctl, Codes
    <3>2. /\ s2c' = s2c \o (IF b THEN << >> ELSE <<CcpConfReq>>) \o <<y>>
          /\ b \in BOOLEAN /\ (Regular => (b <=> "req" \in p_ccp))
          /\ p_ccp' = p_ccp \cup {"req"} /\ p_policy.ccp # "grant" /\ p_policy.ccp = "nak"
      BY <2>0, <2>3 DEF PeerCcpSet, Opened
    <3>3. y \in CcpNaks
      BY <3>1, Kinds
    <3> HIDE DEF y, b
    <3> QED  BY <1>1, <1>2, <1>3, <1>4, <1>7, <3>1, <3>2, <3>3, PeerRefuses
  <2>4. ASSUME NEW y \in Frames, p_policy.ccp # "grant", p_policy.ccp # "nak",
               p_ccp' = p_ccp, s2c' = Append(s2c, y),
               y.proto = "LCP" \/ (y.proto = "CCP" /\ y.code = "ConfRej")
        PROVE  SyncInv'
    <3>1. s2c' = s2c \o <<y>>
      BY <1>2, <2>4, AppendIsConcat
    <3>2. s2c \o << >> = s2c
      BY <1>2, ConcatEmptySeq
    <3>3. s2c' = s2c \o (IF TRUE THEN << >> ELSE <<CcpConfReq>>) \o <<y>> /\ TRUE \in BOOLEAN
      BY <3>1, <3>2
    <3> QED  BY <1>1, <1>2, <1>3, <1>4, <1>7, <2>4, <3>3, PeerRefuses
  <2>5. /\ Ctl("CCP", "ConfRej", 0) \in Frames /\ Ctl("LCP", "ProtRej", 0) \in Frames
        /\ Ctl("CCP", "ConfRej", 0).proto = "CCP" /\ Ctl("CCP", "ConfRej", 0).code = "ConfRej"
        /\ Ctl("LCP", "ProtRej", 0).proto = "LCP"
    BY PeerFrames DEF Ctl, Codes
  <2> HIDE DEF Ans
  <2> QED  BY <2>1, <2>2, <2>3, <2>4, <2>5
<1> QED  BY <1>5, <1>6, <1>7

\* The server answers IPCP.
LEMMA IpcpTakes ==
    ASSUME TypeOK, TypeOK', UpInv, SyncInv, PeerIpcp
    PROVE  SyncInv'
<1>1. /\ ClientStill /\ stream_ok /\ Out # << >> /\ Out' = Tail(Out)
      /\ Head(Out) = Head(c2s) /\ Head(Out) \in Frames /\ Head(Out).proto \in {"IPCP"}
  BY TakesStill DEF PeerIpcp
<1>2. AuthInv /\ OnceInv /\ s2c \in Seq(Frames)
  BY <1>1 DEF UpInv, SyncInv, TypeOK
<1>3. /\ Head(Out) \notin Mppes /\ Head(Out) \notin CcpAsks /\ Head(Out) \notin CcpAcks
      /\ Head(Out).code # "ConfAck" => Head(Out) \in IpcpAsks
      /\ Head(Out).code # "ConfAck" /\ Head(Out).val = Assigned => Head(Out) \in AddrAsks
  BY <1>1, Kinds
<1>4. UNCHANGED <<p_lcp, p_ccp, p_await, p_chal, p_master, p_mppe, sent, bad>>
  BY DEF PeerIpcp
<1>5. CASE ~Opened(p_lcp) \/ p_master = 0
  <2>1. UNCHANGED <<s2c, p_ipcp>>
    BY <1>5 DEF PeerIpcp
  <2> QED  BY <1>1, <1>2, <1>3, <1>4, <2>1, PeerSilent
<1>6. CASE Opened(p_lcp) /\ p_master # 0 /\ Head(Out).code = "ConfAck"
  <2>1. p_ipcp' = p_ipcp \cup {"rx"} /\ UNCHANGED s2c
    BY <1>1, <1>6 DEF PeerIpcp
  <2>2. "tx" \in p_ipcp' <=> "tx" \in p_ipcp
    BY <2>1
  <2> QED  BY <1>1, <1>2, <1>3, <1>4, <1>6, <2>1, <2>2, PeerSilent
<1>7. CASE Opened(p_lcp) /\ p_master # 0 /\ Head(Out).code # "ConfAck"
  <2> DEFINE b == "req" \in p_ipcp
             Ans(y) == s2c' = s2c \o (IF b THEN << >> ELSE <<IpcpConfReq(PeerAddr)>>) \o <<y>>
  <2>1. \/ Ans(Ctl("IPCP", "ConfRej", 0)) /\ p_ipcp' = p_ipcp \cup {"req"}
        \/ /\ Ans(Ctl("IPCP", "ConfAck", Assigned)) /\ Head(Out).val = Assigned
           /\ p_ipcp' = p_ipcp \cup {"req", "tx"}
        \/ Ans(Ctl("IPCP", "ConfNak", Assigned)) /\ p_ipcp' = p_ipcp \cup {"req"}
    BY <1>1, <1>7 DEF PeerIpcp
  <2>2. ASSUME NEW y \in Frames, y.proto = "IPCP", Ans(y),
               y.code = "ConfAck" => Head(Out).val = Assigned,
               "tx" \in p_ipcp' => "tx" \in p_ipcp \/ y.code = "ConfAck"
        PROVE  SyncInv'
    <3>1. /\ s2c' = s2c \o (IF b THEN << >> ELSE <<IpcpConfReq(PeerAddr)>>) \o <<y>>
          /\ b \in BOOLEAN
      BY <2>2
    <3>2. y \in IpAcks <=> y.code = "ConfAck"
      BY <2>2, Kinds
    <3> HIDE DEF b, Ans
    <3> QED  BY <1>1, <1>2, <1>3, <1>4, <1>7, <2>2, <3>1, <3>2, PeerIpcpAnswer
  <2>3. \A c \in Codes : /\ Ctl("IPCP", c, 0) \in Frames /\ Ctl("IPCP", c, Assigned) \in Frames
                         /\ Ctl("IPCP", c, 0).proto = "IPCP" /\ Ctl("IPCP", c, 0).code = c
                         /\ Ctl("IPCP", c, Assigned).proto = "IPCP"
                         /\ Ctl("IPCP", c, Assigned).code = c
    BY PeerFrames DEF Ctl
  <2>4. {"ConfRej", "ConfAck", "ConfNak"} \subseteq Codes
    BY DEF Codes
  <2> HIDE DEF Ans
  <2>5. CASE Ans(Ctl("IPCP", "ConfRej", 0)) /\ p_ipcp' = p_ipcp \cup {"req"}
    BY <2>2, <2>3, <2>4, <2>5
  <2>6. CASE /\ Ans(Ctl("IPCP", "ConfAck", Assigned)) /\ Head(Out).val = Assigned
             /\ p_ipcp' = p_ipcp \cup {"req", "tx"}
    BY <2>2, <2>3, <2>4, <2>6
  <2>7. CASE Ans(Ctl("IPCP", "ConfNak", Assigned)) /\ p_ipcp' = p_ipcp \cup {"req"}
    BY <2>2, <2>3, <2>4, <2>7
  <2> QED  BY <2>1, <2>5, <2>6, <2>7
<1> QED  BY <1>5, <1>6, <1>7

\* The server reads a packet: a plain one comes only to a server that refused
\* MPPE.
LEMMA DataTakes ==
    ASSUME TypeOK, TypeOK', UpInv, SyncInv, NamedInv, PeerData
    PROVE  SyncInv'
<1> DEFINE h == Head(Out)
<1>1. /\ ClientStill /\ stream_ok /\ Out # << >> /\ Out' = Tail(Out)
      /\ h = Head(c2s) /\ h \in Frames /\ h.proto \in {"IP", "MPPE"}
  BY TakesStill DEF PeerData
<1>2. AuthInv /\ AddrInv /\ OnceInv /\ Out \in Seq(Frames)
  BY <1>1, OutType DEF UpInv, SyncInv, TypeOK
<1>3. UNCHANGED <<s2c, p_lcp, p_ccp, p_ipcp, p_await, p_chal, p_master, sent>>
  BY DEF PeerData
<1>4. CASE h.proto = "MPPE"
  <2>1. /\ p_mppe' = IF Opened(p_ccp) THEN MppeCatchUp(p_mppe, h) ELSE p_mppe
        /\ bad' = IF "term" \in p_lcp \/ (Opened(p_ccp) /\ MppeReadable(p_mppe, h))
                    THEN bad ELSE bad \cup {"server"}
    <3> HIDE DEF h
    <3> QED  BY <1>1, <1>4 DEF PeerData
  <2> QED  BY <1>1, <1>2, <1>3, <1>4, <2>1, PeerReads
<1>5. CASE h.proto = "IP"
  <2>1. /\ p_mppe' = p_mppe
        /\ bad' = IF "term" \in p_lcp \/ ~Opened(p_ccp) THEN bad ELSE bad \cup {"server"}
    <3> HIDE DEF h
    <3> QED  BY <1>1, <1>5 DEF PeerData
  <2>2. h \in Ips /\ h \notin Mppes /\ h \notin CcpAsks /\ h \notin CcpAcks
    BY <1>1, <1>5, Kinds
  <2>3. Has(Out, Ips)
    BY <1>1, <1>2, <2>2, HasTail
  <2>4. Regular => ~Opened(p_ccp)
    BY <1>1, <2>3 DEF SyncInv, GrantInv, GrantOut, PlainInv, Opened
  <2>5. Regular => bad' = bad
    BY <2>1, <2>4
  <2> QED  BY <1>1, <1>2, <1>3, <2>1, <2>2, <2>5, PeerSilent
<1> QED  BY <1>1, <1>4, <1>5

-----------------------------------------------------------------------------
(* MPPE in step: the theorem.                                              *)

\* The invariant before the client starts.
LEMMA SyncInit == Init => SyncInv
<1> SUFFICES ASSUME Init PROVE SyncInv
  OBVIOUS
<1>1. Out = << >> /\ s2c = << >> /\ << >> \in Seq(Frames)
  <2>1. c2s = << >> /\ txq = << >> /\ Held = << >> /\ s2c = << >>
    BY DEF Init, Held
  <2> QED  BY <2>1, ConcatEmptySeq, NoneIn DEF Out
<1>2. \A A, B : ~Has(<< >>, A) /\ NoneAfter(<< >>, A, B) /\ Guarded(<< >>, A, B)
  BY DEF Has, NoneAfter, Guarded
<1>3. /\ p_lcp = {} /\ p_ccp = {} /\ p_ipcp = {} /\ p_master = 0 /\ ~p_await
      /\ ~auth_done /\ ~ccp_done /\ ~ip_configured /\ ~ready /\ local_ip = 0
      /\ ~mppe.enabled /\ bad = {}
  BY DEF Init, MppeOff
<1>4. ~Opened(p_ccp)
  BY <1>3 DEF Opened
<1>5. Chain(<< >>, First(p_master), First(p_master))
  BY <1>1, <1>2, <1>3, EndTypes, ChainNone
<1>6. OnceInv
  BY <1>1, <1>2, <1>3 DEF OnceInv, AuthOnce, CcpOnce, DataLast, Live
<1>7. GrantMarks /\ GrantIn /\ GrantOut
  BY <1>1, <1>2, <1>3 DEF GrantMarks, GrantIn, GrantOut, Live, Told
<1>8. GrantKeys
  BY <1>1, <1>3, <1>4, <1>5
     DEF GrantKeys, InChain, OutChain, Unused, ClientRecvEnd, ClientSendEnd,
         PeerRecvEnd, PeerSendEnd
<1>9. PlainInv
  BY <1>1, <1>2, <1>3 DEF PlainInv, Pending, Live, Told
<1> QED  BY <1>3, <1>6, <1>7, <1>8, <1>9 DEF SyncInv, GrantInv

\* Every step keeps the invariant.
LEMMA SyncStep ==
    ASSUME TypeOK, TypeOK', TxNotStalled, KeysHeld, KeysHeld', UpInv, SyncInv, NamedInv,
           [Next]_vars, ~(SendRefused \/ PeerLcpReopen \/ PeerRechallenge)
    PROVE  SyncInv'
<1>1. CASE Start \/ ClientReceives \/ SendComplete \/ SendIp
  BY <1>1, ClientKeepsSync
<1>2. CASE PeerOpens \/ PeerCcpRepeat \/ PeerEcho \/ PeerTerminate \/ PeerSendIp
  BY <1>2, CalmSends, CcpSends, DataSends DEF PeerOpens
<1>3. CASE PeerReceives
  BY <1>3, LcpTakes, ChapTakes, CcpTakes, IpcpTakes, DataTakes DEF PeerReceives
<1>4. CASE StreamError
  BY <1>4 DEF StreamError, SyncInv, Regular, peerVars
<1>5. CASE UNCHANGED vars
  <2>1. /\ UNCHANGED <<auth_done, ccp_done, ip_configured, local_ip, ready, mppe, stream_ok,
                       s2c, p_policy, p_lcp, p_ccp, p_ipcp, p_await, p_chal, p_master,
                       p_mppe, sent, bad>>
        /\ Out' = Out
    BY <1>5 DEF vars, clientVars, linkVars, upVars, txVars, peerVars, Out, Held
  <2>2. OnceInv' <=> OnceInv
    BY <2>1 DEF OnceInv, AuthOnce, CcpOnce, DataLast, Live
  <2>3. (GrantMarks' <=> GrantMarks) /\ (GrantIn' <=> GrantIn) /\ (GrantOut' <=> GrantOut)
    BY <2>1 DEF GrantMarks, GrantIn, GrantOut, Live, Told
  <2>4. GrantKeys' <=> GrantKeys
    BY <2>1 DEF GrantKeys, InChain, OutChain, Unused, ClientRecvEnd, ClientSendEnd,
                PeerRecvEnd, PeerSendEnd
  <2>5. PlainInv' <=> PlainInv
    BY <2>1 DEF PlainInv, Pending, Live, Told
  <2> QED  BY <2>1, <2>2, <2>3, <2>4, <2>5 DEF SyncInv, GrantInv, Regular
<1> QED  BY <1>1, <1>2, <1>3, <1>4, <1>5 DEF Next

\* The keys before the client starts.
LEMMA NamedInit == Init => NamedInv
BY DEF Init, MppeOff, Opened, NamedInv

\* The operations on the keys keep their name.
LEMMA NamedKept ==
    ASSUME NEW x \in MppeStates
    PROVE  /\ Named(x) => Named(MppeAdvance(x))
           /\ \A f : Named(x) => Named(MppeCatchUp(x, f))
           /\ x.master # 0 => Named(mppe_init_keys(x))
           /\ x.enabled /\ Named(x) => Named(mppe_init_keys(x))
           /\ mppe_init_keys(x).enabled => x.enabled \/ x.master # 0
           /\ MppeAdvance(x).enabled = x.enabled
           /\ \A f : MppeCatchUp(x, f).enabled = x.enabled
           /\ ~[x EXCEPT !.enabled = FALSE].enabled
<1>1. Named(x) => Named(MppeAdvance(x))
  BY DEF Named, MppeAdvance, mppe_rekey, MppeStates
<1>2. ASSUME NEW f PROVE Named(x) => Named(MppeCatchUp(x, f))
  BY DEF Named, MppeCatchUp, mppe_rekey, MppeStates
<1>3. /\ x.master # 0 => Named(mppe_init_keys(x))
      /\ x.master = 0 => mppe_init_keys(x) = x
  BY DEF Named, mppe_init_keys, MppeStates
<1>4. /\ MppeAdvance(x).enabled = x.enabled
      /\ \A f : MppeCatchUp(x, f).enabled = x.enabled
      /\ ~[x EXCEPT !.enabled = FALSE].enabled
  BY DEF MppeAdvance, MppeCatchUp, MppeStates
<1> QED  BY <1>1, <1>2, <1>3, <1>4

\* What a step of the client leaves alone, and what it may do to the keys.
LEMMA ClientLeaves ==
    ASSUME Start \/ ClientReceives \/ SendComplete \/ SendIp
    PROVE  UNCHANGED <<stream_ok, p_ccp, p_mppe, p_master>>
<1>1. CASE Start \/ SendComplete \/ SendIp
  BY <1>1 DEF Start, SendComplete, SendIp, peerVars
<1>2. CASE ClientReceives
  BY <1>2
     DEF ClientReceives, Dispatch, peerVars,
         LcpConfReqRcvd, LcpConfAckRcvd, LcpConfNakRcvd, LcpTermReqRcvd,
         LcpEchoReqRcvd, LcpOtherRcvd, ChapChallengeRcvd, ChapSuccessRcvd,
         ChapFailureRcvd, CcpConfReqRcvd, CcpConfAckRcvd, CcpConfRejRcvd,
         IpcpConfReqRcvd, IpcpConfAckRcvd, IpcpConfNakRcvd, IpcpOtherRcvd,
         MppeRcvd, IpRcvd
<1> QED  BY <1>1, <1>2

LEMMA ClientKeys ==
    ASSUME Start \/ ClientReceives \/ SendComplete \/ SendIp
    PROVE  \/ mppe' = mppe \/ mppe' = mppe_init_keys(mppe)
           \/ mppe' = [mppe EXCEPT !.enabled = FALSE]
           \/ \E f : mppe' = MppeCatchUp(mppe, f)
           \/ mppe' = MppeAdvance(mppe)
           \/ /\ failed' = "none"
              /\ \E id : mppe' = [mppe EXCEPT !.master = id]
<1>1. CASE Start \/ SendComplete \/ SendIp
  BY <1>1 DEF Start, SendComplete, SendIp, clientVars
<1>2. CASE ClientReceives
  BY <1>2
     DEF ClientReceives, IpcpPreamble, sstp_pppd_set_mppe_keys,
         LcpConfReqRcvd, LcpConfAckRcvd, LcpConfNakRcvd, LcpTermReqRcvd,
         LcpEchoReqRcvd, LcpOtherRcvd, ChapChallengeRcvd, ChapSuccessRcvd,
         ChapFailureRcvd, CcpConfReqRcvd, CcpConfAckRcvd, CcpConfRejRcvd,
         IpcpConfReqRcvd, IpcpConfAckRcvd, IpcpConfNakRcvd, IpcpOtherRcvd,
         MppeRcvd, IpRcvd
<1> QED  BY <1>1, <1>2

\* The same of a step of the server.
LEMMA PeerLeaves ==
    ASSUME \/ PeerOpens \/ PeerReceives \/ PeerCcpRepeat \/ PeerEcho
           \/ PeerTerminate \/ PeerSendIp
    PROVE  UNCHANGED <<stream_ok, mppe>>
BY DEF PeerOpens, PeerReceives, PeerLcpOpen, PeerChallenge, PeerCcpOpen, PeerIpcpOpen,
       PeerLcpConfReq, PeerLcpOther, PeerChap, PeerCcp, PeerIpcp, PeerData, PeerTakes,
       PeerCcpRepeat, PeerEcho, PeerTerminate, PeerSendIp, clientVars

LEMMA PeerKeys ==
    ASSUME \/ PeerOpens \/ PeerReceives \/ PeerCcpRepeat \/ PeerEcho
           \/ PeerTerminate \/ PeerSendIp
    PROVE  \/ Opened(p_ccp') /\ Opened(p_ccp) /\ p_mppe' = p_mppe
           \/ ~Opened(p_ccp')
           \/ /\ Opened(p_ccp)
              /\ p_mppe' = MppeAdvance(p_mppe) \/ \E f : p_mppe' = MppeCatchUp(p_mppe, f)
           \/ /\ p_master # 0
              /\ p_mppe' = mppe_init_keys([p_mppe EXCEPT !.master = p_master])
<1>1. CASE PeerOpens \/ PeerCcpRepeat \/ PeerEcho \/ PeerTerminate
  BY <1>1 DEF PeerOpens, PeerLcpOpen, PeerChallenge, PeerCcpOpen, PeerIpcpOpen,
              PeerCcpRepeat, PeerEcho, PeerTerminate, peerVars, Opened
<1>2. CASE PeerSendIp
  BY <1>2 DEF PeerSendIp
<1>3. CASE PeerLcpConfReq
  BY <1>3 DEF PeerLcpConfReq, Opened
<1>4. CASE PeerLcpOther \/ PeerChap \/ PeerIpcp
  BY <1>4 DEF PeerLcpOther, PeerChap, PeerIpcp
<1>5. CASE PeerCcp
  <2>1. \/ UNCHANGED <<p_ccp, p_mppe>>
        \/ p_master # 0 /\ \E fsm : PeerCcpSet(fsm)
    BY <1>5 DEF PeerCcp
  <2> QED  BY <2>1 DEF PeerCcpSet
<1>6. CASE PeerData
  BY <1>6 DEF PeerData
<1> QED  BY <1>1, <1>2, <1>3, <1>4, <1>5, <1>6 DEF PeerReceives

\* Every usual step keeps the name of the session keys: the client's master
\* keys do not change once MPPE is on, and the server's are set as CCP opens.
LEMMA NamedStep ==
    ASSUME TypeOK, UpInv, SyncInv, KeysHeld', NamedInv, [Next]_vars,
           ~(SendRefused \/ PeerLcpReopen \/ PeerRechallenge)
    PROVE  NamedInv'
<1> SUFFICES ASSUME stream_ok' PROVE NamedInv'
  BY DEF NamedInv
<1>1. mppe \in MppeStates /\ p_mppe \in MppeStates
  BY DEF TypeOK
<1>2. CASE Start \/ ClientReceives \/ SendComplete \/ SendIp
  <2>1. UNCHANGED <<stream_ok, p_ccp, p_mppe, p_master>>
    BY <1>2, ClientLeaves
  <2>2. OnceInv
    BY <2>1 DEF SyncInv
  <2>3. \/ mppe' = mppe \/ mppe' = mppe_init_keys(mppe)
        \/ mppe' = [mppe EXCEPT !.enabled = FALSE]
        \/ \E f : mppe' = MppeCatchUp(mppe, f)
        \/ mppe' = MppeAdvance(mppe)
        \/ /\ failed' = "none"
           /\ \E id : mppe' = [mppe EXCEPT !.master = id]
    BY <1>2, ClientKeys
  <2>4. CASE failed' = "none" /\ \E id : mppe' = [mppe EXCEPT !.master = id]
    <3>1. mppe.enabled => p_master # 0 /\ mppe.master = p_master
      BY <2>2 DEF OnceInv, AuthOnce, CcpOnce
    <3>2. PICK id : mppe' = [mppe EXCEPT !.master = id]
      BY <2>4
    <3>3. mppe'.enabled = mppe.enabled /\ mppe'.skey = mppe.skey /\ mppe'.rkey = mppe.rkey
      BY <1>1, <3>2 DEF MppeStates
    <3>4. mppe.enabled => mppe'.master = mppe.master
      BY <2>1, <2>4, <3>1 DEF KeysHeld
    <3> QED  BY <2>1, <3>3, <3>4 DEF NamedInv, Named
  <2>5. CASE ~(failed' = "none" /\ \E id : mppe' = [mppe EXCEPT !.master = id])
    <3>1. mppe.enabled => Named(mppe)
      BY <2>1 DEF NamedInv
    <3>2. ASSUME mppe' = mppe_init_keys(mppe) PROVE mppe'.enabled => Named(mppe')
      BY <1>1, <3>1, <3>2, NamedKept
    <3>3. ASSUME mppe' = [mppe EXCEPT !.enabled = FALSE] PROVE mppe'.enabled => Named(mppe')
      BY <1>1, <3>3, NamedKept
    <3>4. ASSUME \E f : mppe' = MppeCatchUp(mppe, f) PROVE mppe'.enabled => Named(mppe')
      BY <1>1, <3>1, <3>4, NamedKept
    <3>5. ASSUME mppe' = MppeAdvance(mppe) PROVE mppe'.enabled => Named(mppe')
      BY <1>1, <3>1, <3>5, NamedKept
    <3>6. mppe'.enabled => Named(mppe')
      BY <2>3, <2>5, <3>1, <3>2, <3>3, <3>4, <3>5
    <3> QED  BY <2>1, <3>6 DEF NamedInv, Opened
  <2> QED  BY <2>4, <2>5
<1>3. CASE \/ PeerOpens \/ PeerReceives \/ PeerCcpRepeat \/ PeerEcho
           \/ PeerTerminate \/ PeerSendIp
  <2>1. UNCHANGED <<stream_ok, mppe>>
    BY <1>3, PeerLeaves
  <2>2. OnceInv
    BY <2>1 DEF SyncInv
  <2>3. \/ Opened(p_ccp') /\ Opened(p_ccp) /\ p_mppe' = p_mppe
        \/ ~Opened(p_ccp')
        \/ /\ Opened(p_ccp)
           /\ p_mppe' = MppeAdvance(p_mppe) \/ \E f : p_mppe' = MppeCatchUp(p_mppe, f)
        \/ p_master # 0 /\ p_mppe' = mppe_init_keys([p_mppe EXCEPT !.master = p_master])
    BY <1>3, PeerKeys
  <2>4. p_master \in Nat
    BY DEF TypeOK
  <2>5. /\ [p_mppe EXCEPT !.master = p_master] \in MppeStates
        /\ [p_mppe EXCEPT !.master = p_master].master = p_master
    BY <1>1, <2>4 DEF MppeStates
  <2>6. Opened(p_ccp') => Named(p_mppe')
    BY <1>1, <2>1, <2>3, <2>5, NamedKept DEF NamedInv
  <2> QED  BY <2>1, <2>6 DEF NamedInv
<1>4. CASE StreamError
  BY <1>4 DEF StreamError
<1>5. CASE UNCHANGED vars
  BY <1>5 DEF vars, clientVars, peerVars, NamedInv
<1> QED  BY <1>2, <1>3, <1>4, <1>5 DEF Next

\* Both ends agree on whether packets are encrypted and with which key: the keys
\* of the accepted exchange, restarted by mppe_init_keys at the same frames of
\* CCP and advanced packet by packet, whatever the interleaving.  Excepted are
\* the server that naks the client's CCP request and repeats its own, and what
\* follows a renegotiation of LCP, a late Challenge or a refused frame.
THEOREM MppeStaysInSync == Spec => []MppeInSync
<1> DEFINE Inv == /\ TypeOK /\ TxNotStalled /\ ChapInv /\ LinkInv
                  /\ Undisturbed => SyncInv /\ NamedInv
<1>1. Init => Inv
  BY TypeInit, ChapInit, LinkInit, SyncInit, NamedInit
<1>2. Inv /\ [Next]_vars => Inv'
  <2> SUFFICES ASSUME Inv, [Next]_vars PROVE Inv'
    OBVIOUS
  <2>1. TypeOK' /\ TxNotStalled' /\ ChapInv' /\ LinkInv'
    BY TypeStep, ChapStep, LinkStep
  <2>2. ASSUME Undisturbed' PROVE SyncInv' /\ NamedInv'
    <3>1. Undisturbed /\ ~(SendRefused \/ PeerLcpReopen \/ PeerRechallenge)
      BY <2>2, CalmStep
    <3>2. UpInv /\ UpInv' /\ SyncInv /\ NamedInv
      BY <2>1, <2>2, <3>1 DEF LinkInv
    <3>3. KeysHeld /\ KeysHeld'
      BY <2>1, <3>2 DEF ChapInv, UpInv, AuthInv, KeysHeld
    <3> QED  BY <2>1, <3>1, <3>2, <3>3, SyncStep, NamedStep
  <2> QED  BY <2>1, <2>2
<1>3. Inv => MppeInSync
  BY DEF SyncInv, Regular, MppeInSync
<1> QED
  BY <1>1, <1>2, <1>3, PTL DEF Spec

=============================================================================
