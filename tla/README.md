# Verification of the SSTP client for iOS

TLA+ models of the SSTP VPN client in `src/`: the app (`com.vn.sstp/`), the
packet tunnel extension (`tunnel/`), and the C engine it runs (`sstp/`, the
parts that iOS code reaches). TLC checks the models on small instances. TLAPS
proves most of their invariants, and both refinements, for every value of the
constants. `PROJECT.json` lists the
runs, the source lines every definition stands for, the hazards the properties
are aimed at and the disagreements found.

    tlc -config MCTunnel.cfg MCTunnel        # any MC module with one of its cfgs
    tlapm TunnelProofs.tla                   # any of the Proofs modules

## 1. The system

```
 app (VPNManager)  --NEVPNManager-->  PacketTunnelProvider       one process each
        ^------- App Group keys, get_status answers ----|
                                       |  main queue, global queue, packet flow
                                       |  worker thread, one per session
                                       v
          sstp_ios_session  (create, start_ex, run, stop, free)        sstp-ios.c
             |  libevent loop on the worker thread
             +-- connect, TLS, trust       sstp-stream.c, sstp-ios-trust.m
             +-- HTTP upgrade              sstp-http.c
             +-- SSTP control              sstp-state.c
             +-- PPP: LCP CHAP CCP IPCP    ios-pppd.c
             +-- IP from the device        socket pair, ios_inject_cb
```

| Component | State | Operations | What makes it correct |
|---|---|---|---|
| In-process PPP client, `ios-pppd.c` | negotiation flags, addresses, MPPE keys and coherency counts, transmit list and the frame in flight | start, one handler per protocol and code, send_ip, send completion | no frame stuck in the queue; both ends hold the same keys; encrypted traffic is readable; reported up only when agreed; negotiation ends |
| Packet tunnel provider, `PacketTunnelProvider.m` | session, worker, generation, stage, reconnect attempt and schedule, packet loop flag, start completion | start, stop, failure, reconnect, settings, packet loop | no use of freed sessions; fatal codes are not retried, transient ones are; stop completes and leaves nothing; start is answered |
| Session lifecycle, `sstp-ios.c` | the heap cell, stop pipe, inject socket pair, failed/ready marks, jump buffer | create, start_ex, run, stop, free, write_ip and the callbacks | one outcome per session, named correctly |
| SSTP control, `sstp-state.c` | echo count, one transmit buffer, state | Connect-Request, Call-Connected, Echo, Disconnect, Abort, the receive callback | the receiver is re-armed on every path; a silent server is noticed |
| TLS stream, `sstp-stream.c` | list of send operations, write event, receive and connect operations | connect, send, send_cont, recv_sstp | no lost wake-up; order of frames; a blocked record is repeated before any other; packets are handed on whole, and all of them |
| HTTP upgrade, `sstp-http.c` | request buffer, timer | hello, answer | control only after a 200 |
| TLS trust, `sstp-ios-trust.m`, `sstp-ios.c` | mode, pin, CA bundle | verify in the handshake, after it, or after HTTP | no control message to an untrusted server |
| Packets, buffers, URL | none | encode, decode, parse | the length of a header is modelled with the receive side; else not modelled (section 8) |
| App, `VPNManager.m`, `ViewController.m` | connectRequested, watchdog flag and blocks, the error shown | tap, save, load, start, disconnect, notifications, poll | one start at a time; a start that comes to nothing is reported; the error shown is that of the tunnel that ended; connecting is possible again |
| Linux client, logging, dumps, CHAP hashes, CMAC, FCS | | | not modelled (section 8) |

Interaction: the provider calls C on three threads (worker, main or global
queue for stop and free, packet flow for write_ip). C calls back on the worker
(`on_stage`, `on_ready`, `on_fail`) and the callbacks hop to the main queue as
blocks. Inside a session everything is a libevent callback on the worker, and
`sstp_ios_fail_ex` leaves that loop by `longjmp`. The server is reached through
one TLS stream. The app starts and stops the provider through
NEVPNConnection, is told of its status by notifications that carry no status,
and learns of errors from keys in the App Group's defaults or by asking the
provider, another process.

What is hard: nonatomic provider properties shared by four kinds of threads;
blocks that outlive the session they speak of (the generation check); a stop
with a five-second limit against a blocking name lookup; completions that free
what a queue may still hold; negotiation without timers of its own; a length
and its packet written in two calls and read in two others; the echo timer
against late replies and against packets that OpenSSL has decrypted and no
socket event announces; two processes that write and read the same defaults.

## 2. Modules

| Module | Models | Used by |
|---|---|---|
| `IosPppd` | PPP client against an external RFC 1661 server | `MCIosPppd`, `IosPppdProofs`, `IosPppdMppeProofs` |
| `Tunnel` | provider and life of its sessions; implements `ProviderStatus` | `MCTunnel`, `TunnelProofs` |
| `ProviderStatus` | abstract: what is seen of a provider from outside | `Tunnel`, `VpnManager` |
| `VpnManager` | the app, the framework, and the status channel, on top of `ProviderStatus` | `MCVpnManager`, `VpnManagerProofs` |
| `SstpSession` | one connection: TCP, TLS, HTTP, control, PPP, up | `MCSstpSession`, `SstpSessionProofs` |
| `SstpStream` | the stream's send queue and its two users; implements `FrameLink` | `MCSstpStream`, `SstpStreamProofs` |
| `FrameLink` | abstract: the FIFO of frames PPP relies on | `SstpStream` |
| `SstpRecv` | packets out of TLS records, the read event, echoes | `MCSstpRecv`, `SstpRecvProofs` |
| `Inject` | packets from the packet flow to the event loop | `MCInject`, `InjectProofs` |

Each `...Proofs` module extends the module it is about and holds nothing but its
inductive invariant, lemmas and theorems (section 6).

The components meet at narrow interfaces, and each module replaces the others by
what they may do: `Tunnel` sees a session as its outcomes (resolved or not,
transient or fatal failure, up), `SstpSession` sees PPP as the frames it sends
and the events it raises, `IosPppd` sees the stream as a FIFO that takes some of
what it is given now and the rest at a completion. Two of these interfaces are
specifications of their own:

- `ProviderStatus` has the provider's phase, the error it would report and its
  packet loop flag, and nine steps (start, refused start, retry, failure, up,
  ...). `Tunnel`, with `Phase` as the refinement mapping, is checked to
  implement it (`ProviderImplemented`) and proved to, and `VpnManager` uses the same steps for
  its provider, adding what each writes to the App Group. So the app is checked
  against what the provider with all its threads can do, without those threads.
- `FrameLink` is a FIFO of frames that is lossless until a write has failed and
  writes every frame at last. `SstpStream` implements it (`LinkImplemented`; the
  safety part, `SafeSpec`, is proved) with the frame in flight and `ios-pppd.c`'s
  list as its queue; `IosPppd` relies on it.

### IosPppd

The variables are the fields of `struct sstp_pppd` (`started`, `lcp_opened`,
`auth_done`, `ccp_done`, `ip_configured`, `up_notified`, `local_ip`, `peer_ip`,
the MPPE state, `txq` for `tx_head`, `tx_inflight`), the session's `ready` and
`failed` marks, the two directions of the stream, and the server's state
(`p_*`). `tx_busy` is `tx_inflight` holding a frame. One handler of `ios-pppd.c` is one action,
including everything it sends: `Transmit` queues the frames in order and
`Flush` is `ppp_flush_start`, which hands frames to the stream until one blocks.
`ios_pppd_cb`, called synchronously from the handlers, is part of their actions
(`NotifyUp`, the failures).

Data: a frame is its protocol, its code and one value (identifier or address).
MS-CHAPv2 is reduced to the identity of the exchange: master keys are the number
of the Challenge they come from, a session key is that number and how often it
was stepped. The coherency count keeps its wrap (`% CcMod`). Options are kept
only where a handler's branch depends on them (MPPE refused, DNS refused).

The server may delay anything, nak LCP, repeat a Challenge under a new
identifier, repeat a CCP request, grant, reject, nak or protocol-reject CCP,
grant or reject DNS, start IPCP before CCP, terminate, and the connection may
break in any state. Three upsets are bounded together with the repetitions
(`RoomFor`): the server negotiates an open LCP again (`PeerLcpReopen`, which takes
its own state back to the start), it challenges a client it has authenticated
(`PeerRechallenge`), and the stream refuses a frame of a live connection
(`SendRefused`, the bad write retry of the run `stream_retry`). `Undisturbed` says
that none has happened. `SendRefused` is not `StreamError`: after a refusal later
frames pass, those behind the lost one when the next is sent; after a
`StreamError` TCP or TLS is gone, and nothing passes in either direction.

### Tunnel

`mainq` is the main queue as a FIFO of blocks; each block of the code is one
action (`StageBlock`, `ReadyBlock`, `FailBlock`, ...), atomic because the queue
is serial. `worker` holds the worker threads, `tasks` the teardowns on the
global queue with a program counter, `timers` and `settings` what is pending in
`dispatch_after` and `setTunnelNetworkSettings`, `reads` and `writer` the packet
handlers. `mem` is the heap of sessions: freed or not, stop pipe present, stop
byte written. A thread that touches a freed session is recorded in `uaf`, and
nothing happens afterwards: what follows is undefined.

`stopTunnel` and the teardowns read `self.session`, use it and clear it in
separate steps, so that they interleave with each other. `lapsed` records that
the five seconds of a wait ran out; `raced` that a teardown and a stop took the
same session.

A session that runs goes through `RunCalls` (connect, TLS, HTTP, each under a
timer) to "calling", where SSTP and PPP negotiate, and from there up, into a
failure, or nowhere: neither `sstp-state.c` nor `ios-pppd.c` has a timer that ends
a negotiation whose server still answers echoes.

Reductions: the provider is started once (the system creates a provider per
start); stopTunnel runs on the main queue; the connection stages are one value
(`connecting`) because no decision tells them apart; the completion handler of
setTunnelNetworkSettings is one action between two blocks of the main queue
(`SettingsDone`; NetworkExtension does not say on which queue it calls it);
`on_packet` is omitted, since it changes no state.

### SstpSession

One libevent callback is one action. `phase` follows the connection, `recv` is
the reader whose receive event is armed, `txq` the operations the stream still
has to write, `echo` the unanswered Echo-Requests, `code` and `why` the error
code given to `sstp_ios_fail_ex` and the event that led to it. Each of the
callbacks (`ios_connected`, `ios_http_done`, `ios_state_cb`, `ios_pppd_cb`,
`sstp_state_recv` with one operator per control message) keeps its early
returns; what stands after a call that fails is not executed. `cert` is what is
true of the server's certificate, chosen once, and each verifier's answer
follows from it: OpenSSL's chain (complete, a self-signed leaf, or wrong above
the leaf), the name and whether the host is an IP literal, for which the
handshake checks no name, the pin and SecTrust. All control messages are built in
one `tx_buf`, so an operation that waits when another message is built is
"spent": the first one writes what the buffer holds by then, and the spent one
finds nothing to write, which OpenSSL answers with an error and
`sstp_state_send_complete` with an abort (`Queues`, `WritesNothing`). `txq` is in
the order of `stream->send` but for an operation that blocks twice, which is
`SstpStream`'s matter. The server answers, refuses, disconnects, aborts, sends
messages that do not parse, asks for echoes, or falls silent.

### SstpStream

`send` is `stream->send`, as the sequence of buffers of the queued operations;
`tx_buf` is the single control buffer of `sstp-state.c`; `pppq` and `inflight`
are `ios-pppd.c`'s list and its frame in flight. `held` is what OpenSSL
insists on: after an `SSL_write` that would block, the same buffer must be
offered again, and anything else fails. The loop of `sstp_send_cont` and the
recursion through completions are stepped through (`SendContTurn`, `Continues`),
and no other callback starts before they end. A write takes the record, would
block, or fails.

### SstpRecv

`stream` holds the bytes the server has sent and the client not read; records are
places in it (`net` where each ends, `rec` where the bytes end that OpenSSL has
decrypted and not returned), so the server cuts its packets into records as it
likes. A byte is named by its packet
and place and has a value only at the two places of the length, which keep their
width (`Base` values each); payload bytes read as a length count as zero, which
matters only after a packet was already mutilated. One `SSL_read` is one action
(`ReadTurn`, `ReadBlocks`, `ReadFails`), the event firing is `Readable`, its sixty
seconds `Timeout`. `sstp_state_recv` is part of the action that calls it.
`length` is kept apart from `buf`, because `sstp_buff_reset` resets the offset and
leaves the bytes of the packet before, and the loop reads them. `cut`, `split` and
`first` record how a packet came to be mutilated. The model ends with the first
wrong packet. Left out: a length field larger than the receive buffer. The code
never compares `sstp_pkt_len` with `rx_buf->max`; `Want` is the length as it
computes it, and the packets of the model fit.

### VpnManager

Every callback on the app's main thread is one action: a tap, the completion of
saving, the completion of loading (which starts the tunnel), a watchdog block, a
notification, an answer to get_status. `tap` counts how many taps wait for which
completion. `inbox` holds notifications and answers in their order; a
notification is handled with the status found then. `status`, `launch` and
`stopReason` are the framework's, external: it may drop a start it accepted, and
the provider may be started from the Settings app, crash, or be stopped by the
system. `group` is the App Group's defaults. Of the error message, hint and stage
only the code and whether the stage is idle are kept. `Relaunch` ends the app and
opens it again.

### Inject

Every `read` and `write` on the socket pair is an action of its own: the length,
then the packet, on the packet flow's thread; the length, then the packet, in
`ios_inject_cb`'s loop. Bytes are named by packet and place, so that a packet
put together from the wrong bytes shows. `broken` records that a call moved
fewer bytes than it was asked for, whatever the code then does about it.

## 3. Runs

| Run | Checks | Result |
|---|---|---|
| `pppd` | TypeOK, TxNotStalled, KeysAgree, UpAgreed, MppeInSync, NegotiationEnds | hold; about 1,114,000 states |
| `tunnel` | TypeOK, MemorySafe, NoRetryAfterFatal, ReaderAlive, IdleAfterStop, StopEnds, StartAnswered, ProviderImplemented | hold; about 177,000 states |
| `session` | TypeOK, NeverDeaf, TrustBeforeControl, EchoAbortOnlyIfSilent, SilenceNoticed | hold; about 965,000 states |
| `stream` | TypeOK, WakeupArmed, QueuedOwned, PppInOrder, CtlInOrder, HeldQueued, LinkImplemented | hold; about 62,000 states |
| `recv` | TypeOK, Framed, NoFalseAbort, PacketsArrive | hold; about 742,000 states |
| `inject` | TypeOK, InOrderUnlessBroken, AcceptedGiven | hold; about 23,000 states |
| `app` | TypeOK, ResultShown, DropReported, NeverLockedOut | hold; about 500,000 states |
| `tunnel_retry` | TransientRetried | violated |
| `tunnel_zombie` | NoZombieWorker | violated |
| `session_binding` | BindingFailureNamed | violated |
| `stream_retry` | WriteAfterComplete | violated |
| `app_doubletap` | OneStart | violated |

What the passing runs show:

- **pppd.** Whatever the server naks, repeats or refuses, a queued frame always
  has a completion coming; the client's master keys are those of the exchange
  the server accepted; every IP packet is encrypted exactly when the receiver
  expects it, with the right key and count; the tunnel is reported up only after
  authentication and with the address the server chose. Negotiation ends, or
  hangs for good because the server rejects the DNS options: `handle_ipcp` has no
  branch for a Configure-Reject, so the server never acknowledges the address.
  `MppeInSync` leaves out the server that naks the client's CCP request and
  repeats its own: `handle_ccp` then switches MPPE on although CCP counted as
  done without it.
  After an upset (any two of them) the keys still agree: those of a late
  Challenge or of a new authentication replace the old ones at both ends. The
  tunnel is still reported up only after authentication, CCP and an acknowledged
  address, although the server may by then have begun anew.
  Negotiation may hang in two more ways (`MayHang`): the server negotiates
  an open LCP again, and `handle_lcp` acknowledges its request without sending its
  own, or a frame was lost and nobody sends it again. Not claimed after an upset:
  `TxNotStalled` after a refused frame (the frames behind it wait for the next one
  to be queued, as `ppp_flush_start` leaves them), and `MppeInSync` (the client
  keeps MPPE on while the server negotiates again, and a late Challenge changes
  the master keys under session keys derived from the old ones).
- **tunnel.** A session is freed under its worker only when the five seconds
  lapsed, and stopped or freed twice only when a teardown and a stop raced.
  (The packet handler, which reads `self.session` for every packet, may meet a
  freed session too: modelled, and listed among the hazards.)
  Otherwise every stop completes with all sessions freed and all workers ended,
  the status stays idle, no session follows a fatal failure, a reconnected
  tunnel reads packets, and a start is answered, with one exception: a session
  that calls for ever. With a server that answers echoes but never completes
  the call or PPP, nothing in the provider or the engine ends the session, and
  the start is not answered before somebody stops the tunnel. Seen from outside the provider
  takes only the steps of `ProviderStatus`: no stale report, timer or settings
  completion shows as anything else. One of these steps is unpleasant, and the
  code has it: settings that are applied after the session failed clear the
  error and start the packet loop of a tunnel already cancelled (`Revive`).
- **session.** In each phase the right reader is armed; nothing but the HTTP
  request goes to a server the trust mode does not accept (SecTrust's verdict in
  `system`, chain and name in `custom_ca`, the pin in `pinned`); echoes end a session
  only with a silent server; a silent server and a refused call always end it.
  (A Connect-Request or Call-Connected that the socket does not take at once
  also ends the session: `sstp_state_send_request` and `sstp_state_send_connect`
  treat "queued, will be written" as a failure. Later a control message built
  while another one waits in `tx_buf` ends it too.)
- **stream.** No operation is left without an event, no freed frame is in the
  list, a held record can always be repeated, control messages that overwrite
  each other in the one buffer are neither repeated nor written late, and
  towards PPP the two queues are one FIFO that loses a frame only when a write
  has failed.
- **recv.** What is handed on is the next whole packet, with two exceptions,
  both in the code: a timeout inside a packet forgets its first part, and a
  record that ends inside a header makes the loop compare its offset with a
  length that is not there yet (zero before the first packet; half old, half new
  after three bytes). Packets left in OpenSSL behind the first one of a record
  arrive all the same, if only because a timeout makes the server answer; and
  Echo-Replies waiting there never add up to an abort, as long as they came in
  time.
- **inject.** As long as no read or write comes up short, PPP gets the packets
  whole, in order, and all that were accepted. A callback between the two writes
  of one packet is such a short read: it consumes the length and gives up, and
  the packet's bytes are later read as a length.
- **app.** A tunnel that is down and quiet shows the error it ended with, also
  after reconnects, crashes and starts from the Settings app; a start that the
  framework accepted and dropped has a watchdog or a notification coming that
  ends the request; and a request ends, so that the app can connect again,
  unless the provider starts for ever: the status then stays Connecting and every
  further connect is refused, until the user disconnects.
  Excepted from the first are overlapping starts and settings that are
  applied after a failure, both of which remove the error from the App Group.

The violations, each against a sentence of the repository (quoted in
`PROJECT.json`, `findings`):

- **tunnel_retry.** A failure inside `start_ex` reaches the provider twice, from
  `sstp_ios_fail_ex` and from the worker. The first report schedules a
  reconnect, the second finds it scheduled and ends the tunnel.
- **tunnel_zombie.** A name lookup longer than five seconds leaves the worker
  alive on a freed session after the stop completed.
- **session_binding.** A failed crypto binding is reported as `sstp_control`,
  which is transient: the `longjmp` skips the code that names it.
- **stream_retry.** An operation that blocks twice moves to the tail, another
  buffer is offered first, and OpenSSL refuses it.
- **app_doubletap.** `connectRequested` is set in the completion of an
  asynchronous load. A second tap before that passes the check, and its start is
  made during the first.

One more disagreement is visible in a definition and has no run. In `pinned` mode
`ios_verify_callback` accepts the leaf that has the pinned hash, self-signed or
not, but `ios_http_done` (`PostHttpAccepts`, `sstp-ios.c:701`) then asks OpenSSL for
a good chain and the host's name in that mode too. So a self-signed server with
the right pin fails with `tls_cert`, which is fatal, where
`docs/backlog/tls-certificate-verification.md:208` says "Self-signed + correct pin |
Connected" and `docs/agent-playbook.md:50` recommends `pinned` for such servers.
`TrustBeforeControl` asks for no more than the pin in that mode: it says that no
server is trusted that should not be, not that every server is that should.

## 4. Bounds, and why they are enough

| Bound | Value | Code | Why |
|---|---|---|---|
| `CcMod` | 3 | 0x1000 | the count starts at its maximum, so it wraps with the first packet after every restart |
| `MaxIp` | 2 each way | none | one packet before and one after a key restart |
| `MaxNaks`, `MaxRetx`, `MaxCcpRetx`, `MaxEcho` (IosPppd) | 1 | none | each repetition meets every state of the other end once; keys are proved for any number |
| `MaxUnusual`, `MaxSent` (IosPppd) | 2, 3 | none | Naks, repetitions and upsets, any two of them (an echo counts for two), and these with the IP packets, any three: so two packets one way around a repetition or an upset. Keys, `UpAgreed` and `MppeInSync` are proved for any number |
| `MaxReconnect` | 2 | 3 | a first, a middle and a last attempt; 3 was also checked (about 796,000 states); the violation runs use 3 |
| `MaxReady` | 1 | none | one session that comes up and resets the attempts, with failures before and after it |
| `LateReports` | FALSE | | a worker returns from a failed `start_ex` before the reconnect delay (a second or more) ends; with TRUE `MemorySafe` does not hold, section 7 |
| `MaxEcho` (SstpSession) | 1 | 4 | the counter is compared and reset, never added to otherwise: one tolerated, one too many |
| `TlsModes` | `system`, `custom_ca`, `pinned` | and `insecure` | `insecure` accepts every server and is a debug build's only; its path is that of `custom_ca` without the checks |
| `MaxFrames`, `MaxSrvEcho` | 1 | none | a PPP frame and an echo of the server against every control message |
| `MaxCtl`, `MaxPpp` | 4, 6 | none | a held record with a control message and a frame behind it, and completions that send more |
| `Hdr`, `WriterMax`, `ReaderMax` | 2, 3, 4 | 4, 2000, 2048 | the order of the code's limits; a packet one longer than `WriterMax` is offered and refused |
| `Cap`, `MaxPkts` | 9, 3 | kernel | not a multiple of header and packet, so that the buffer fills between the two writes and inside one |
| `Base`, `Lens`, `EchoLen` | 6, {6}, 5 | 256, any, 8 | one length that needs the high byte and one that does not, so that old and new length bytes mix, and both longer than a header |
| `EchoLimit` | 1 | 4 | compared and reset, as `MaxEcho` above |
| `MaxPackets`, `MaxBytes`, `MaxRecords` | 2, 11, 1 | none | a packet and an Echo-Reply, or parts of both, in one record, and every cut of them; `Lens = {5, 6}` with two records was also checked for the invariants (12 million states) |
| `MaxAsked` | 2 | none | one more request than `EchoLimit` allows |
| `Codes` | one | the list in `sstp-ios-error.c` | codes are compared with none and shown; mended and final failures are told apart by `outcome` |
| `MaxTaps` | 2 | none | a start during or after another one |
| `MaxEvents` | 1 | none | one of: reconnect, crash, start elsewhere, restart of the app, late settings, against every state of two starts |
| `MaxInbox` | 2 | none | a notification and an answer, or two notifications, under way; later changes of status wait |

Deadlock is not checked: the modelled systems legitimately stop (a failed or
stopped session, a stopped tunnel, bounds used up). `NegotiationEnds`,
`StopEnds`, `StartAnswered`, `SilenceNoticed`, `LinkImplemented`,
`PacketsArrive`, `AcceptedGiven` and `NeverLockedOut` check that they do not stop
too early.

## 5. Fairness

All is weak fairness, but for one case.

- IosPppd: libevent serves events that are ready, the stream completes what it
  accepted (or breaks), and a server that takes part opens LCP, CHAP and IPCP and
  answers. Renegotiation, repetition, refusals and packets need never happen, and
  no fairness stands for a timer of PPP, which has none.
- Tunnel: queues and threads are scheduled, delays and the five-second limit
  pass, settings are answered, name lookups return at some time, and a running
  session fails or gets as far as the call, because connect, handshake and HTTP
  have timeouts. It need not get further: a call has none. A session that is up
  may stay up for good, and nobody need ever stop it.
- SstpSession: the loop runs, its timers fire, the kernel takes what fits, and
  a server that is not silent answers.
- SstpStream: a callback ends, the write event fires (it has a timeout), and,
  strongly fair, a socket tried again and again takes the record at last.
- SstpRecv: the loop runs, the read event has a timeout, and TCP carries what the
  server writes. The server need not send anything, and answers echoes only when
  `MaxAsked` of them wait; before that it may be as late as it likes.
- VpnManager: completions are called, the main queue and its delays run,
  notifications and answers are delivered, and the framework and the provider
  act on a start, a failure and a stop. The provider's part of this is what
  `StopEnds` of `Tunnel` shows. A provider that is starting need not get anywhere,
  since `StartAnswered` does not say that it does. Nobody need tap, nothing need
  fail, and a tunnel that is up may stay.
- Inject: the event loop serves the socket pair, `write_ip` returns.

## 6. Proofs

Every theorem holds for every value of the constants: any number of sessions,
attempts, frames, packets, taps and echoes, where a run has one to six. The only
assumptions are the named `ASSUME`s on the constants, which say that bounds are
natural numbers and how the code's limits are ordered, and for four theorems of
`TunnelProofs` the hypothesis below.

| Module | Theorem | Says, always |
|---|---|---|
| `IosPppdProofs` | `TypeCorrect`, `NoLostWakeup`, `MasterKeysAgree`, `UpIsAgreed` | `TypeOK`, `TxNotStalled`, `KeysAgree`, `UpAgreed` |
| `IosPppdMppeProofs` | `MppeStaysInSync` | `MppeInSync` |
| `TunnelProofs` | `TypeCorrect` | `TypeOK` |
| | `ProviderRefinement` | `Spec => ProviderImplemented` |
| | `SessionsOwned`, `FatalIsFinal`, `PacketsAreRead`, `StopIsFinal` | if `~LateReports`: `MemorySafe`, `NoRetryAfterFatal`, `ReaderAlive`, `IdleAfterStop` |
| `SstpSessionProofs` | `TypeCorrect`, `Listening`, `TrustFirst`, `EchoAccusesSilence` | `TypeOK`, `NeverDeaf`, `TrustBeforeControl`, `EchoAbortOnlyIfSilent` |
| `SstpStreamProofs` | `TypeCorrect`, `SendWakeup`, `BufferOwned`, `RetryPossible`, `FramesInOrder`, `ControlInOrder` | `TypeOK`, `WakeupArmed`, `QueuedOwned`, `HeldQueued`, `PppInOrder`, `CtlInOrder` |
| | `StreamIsLink` | `Spec => Link!SafeSpec` |
| `SstpRecvProofs` | `TypeCorrect`, `FramingHolds`, `NoFalseAborts` | `TypeOK`, `Framed`, `NoFalseAbort` |
| `InjectProofs` | `TypeCorrect`, `PacketsWhole` | `TypeOK`, `InOrderUnlessBroken` |
| `VpnManagerProofs` | `TypeCorrect`, `EndShown`, `DropIsReported` | `TypeOK`, `ResultShown`, `DropReported` |

**IosPppd.**
- *Types and wake-up.* `TypeOK /\ TxNotStalled` is inductive: the queue's typing
  needs that a handler which finds nothing in flight also finds nothing waiting.
  `FlushIn` and `TransmitIn` state what `ppp_flush_start` does to any set of
  frames, once, and every handler's step cites them.
- *Keys.* `KeysAgree` alone is not inductive: a Response still on its way might
  be accepted after a newer Challenge changed the client's keys. `ChapInv` adds
  what excludes it. While the session has not failed, the client's exchange is at
  most the server's latest Challenge; Responses queued, in flight or on the wire
  carry numbers up to the client's exchange; the Challenges on their way are
  increasing and newer than the client's exchange; and once the server accepted,
  its exchange, its latest Challenge and the client's exchange are the same. It
  needs the stream to be FIFO and the server to accept only a Response to its
  latest Challenge (RFC 1994).
- *Up.* `LinkInv` is `BaseInv`, which always holds, and `UpInv`, which holds while
  the link is `Undisturbed`. `UpInv` is about the order of frames in both
  directions (what is on the
  wire, in the stream's hands and in the transmit queue counts as one sequence).
  The server's LCP Naks precede its Ack, and its Challenges follow it; so once
  the client has sent a Response no LCP request follows, and the server does not
  take an accepted exchange back. The Success precedes every IPCP frame, and
  what the server acknowledges is what it assigned, so an address is configured
  only for an authenticated client. Of this `BaseInv` keeps what a refused frame, a new
  negotiation or a late Challenge cannot undo: the Success still comes before
  every IPCP frame, and every acknowledged address is the assigned one. TLC
  checked `UpInv` on the instance of the
  `pppd` run before it was proved.
- *MPPE in step.* `MppeInSync` (no packet is lost to a key, a count or a
  disagreement on whether MPPE is on) needs an invariant about all that is under
  way, `SyncInv`, which builds on `KeysAgree` and `UpInv`:
  - `OnceInv`: each phase happens once and in order. There is one Success, before
    every frame of CCP, IPCP and data; one CCP request of the client, behind which
    its IPCP requests and its acknowledgement queue; data only once the address is
    set.
  - `GrantInv`, for a server that grants MPPE: the client's request for its address
    travels behind its CCP acknowledgement, and the server's acknowledgement of the
    address behind its CCP frames. So both ends have opened CCP before the first
    packet, and no later CCP frame restarts the keys (`mppe_init_keys`) under it.
    `GrantKeys` then says in each direction that the MPPE frames under way lead,
    one rekeying and one count (modulo `CcMod`) at a time, from what the receiver
    holds, or will restart at, to what the sender holds (`Chain`).
  - `PlainInv`, for a server that refuses: a request of the server that switches
    MPPE on at the client is followed by a Configure-Nak that switches it off
    before the address is acknowledged, so no packet is ever encrypted.

  The exception in the property is where `PlainInv` breaks: a request that the
  server repeats after its Nak switches MPPE on again. `NamedInv` says that the
  session keys in use come from the current master keys, as rekeying needs
  (`mppe_rekey` hashes both); that and `SyncInv` are claimed while the link is
  `Undisturbed`. Once the server has
  terminated the link it discards what it receives, so the facts about what
  it has answered are about a link that is not terminated (`Live`). TLC checked
  `SyncInv`, with `Chain` written out for the MPPE frames by index, on the instance of the `pppd` run
  before it was proved.

**Tunnel.** Types need that nothing but a refused start happens before the
start (`Fresh`), the refinement also that nothing under way carries a generation
yet to come and that a stop request has ended the packet loop (`OrderInv`). The
four other theorems rest on `TunnelInv`, which adds:
- `TokenInv`: every worker but the last has ended, there is one teardown at a
  time, and in the current generation the failure, the delay, the teardown and
  the new session follow one another, none of them after a fatal failure;
- `LoopInv`: `packetLoopRunning` is set only over a session that no teardown has
  taken, with a handler outstanding;
- `ThreadInv`: the provider knows the worker that may still run, a stop waits for
  that one, and unless its five seconds lapsed no worker is left after it;
- `StageInv`: what workers posted is shown before the stop's last block;
- `HeapInv`: the provider's own session is never freed, one that a teardown or a
  stop took belongs to it alone unless two of them raced, and none is freed under
  its worker unless a wait lapsed.

The hypothesis `~LateReports` says that a worker whose `start_ex` failed returns,
and has reported, before the delay of the reconnect that its first report
scheduled is over: one second or more, against the few instructions between
`sstp_ios_fail_ex` and the return. Nothing in the code enforces it. With
`LateReports = TRUE` TLC finds all four violated, which is why the theorems state
the hypothesis instead of a module assuming it.

**SstpSession.** `SessionInv` says for each phase which reader is armed and that
the HTTP request is alone in the send queue, that a phase past a trust decision
implies an accepted certificate (`TrustByPhase`), and that while the server
answers, an unanswered Echo-Request or its answer is on its way, unless a later
message took its place in `tx_buf` and left a spent operation that will end the
session (`EchoPending`).

**SstpStream.** `StreamInv` orders everything by age: frames on the wire before
the held one, before the one in flight, before the list; control messages by
number, the newest in `tx_buf`, and what OpenSSL holds not younger than that.
`HeldMessage` ties the held record to the buffer it came from. For `StreamIsLink`
each step is shown to append to, move the head of, or leave alone the abstract
queue (the frame in flight and `pppq`).

**SstpRecv.** `RecvInv` has the types, the order of the records and that a packet
in the buffer still lacks bytes, and that an event waits for them only when
OpenSSL has nothing left. `FrameInv` says of the buffer followed by the stream,
until something is lost: every byte stands in its whole packet (`Blocks`), the
packets are the next ones in order or Echo-Replies (`Numbered`), and the length
bytes that were read are in place, or else the length of the packet before is
(`HeadInv`, the part the stale bytes of `sstp_buff_reset` hang on). A read that
does not complete a packet leaves that sequence as it is, one that does drops
the first packet, so each fact is a lemma about sequences. `EchoInv`: while the
server is in time, of two open requests one reply waits in OpenSSL and the other
is behind it or owed, so a third timeout without one is a late server.

**Inject.** `InOrderUnlessBroken` is proved with the shape of the whole stream of
bytes: after a byte come the rest of its packet, then the first byte of another,
and then later packets only (`Runs`); the reader is at the start of a packet or
behind the header it decoded, the writer at the end of one or behind this one's
header, and if the pipe is empty inside a packet both are inside the same.
`Runs` speaks of any two places, not of neighbours, since going from neighbours
to a distance would be an induction over the data.

**VpnManager.** `DownInv`: while the status is Disconnected there is no provider,
and the notification of it comes after all that the provider has answered.
`RequestInv`: a request without a tunnel has a watchdog that will give it up, or
a notification that will. `OutcomeInv`: apart from overlapping starts and late
settings, the App Group has the code of the last outcome, and so has the app, or
a notification is on its way.

What stays with TLC, and why:
- liveness: `NegotiationEnds`, `StopEnds`, `StartAnswered`, `SilenceNoticed`,
  `PacketsArrive`, `AcceptedGiven`, `NeverLockedOut`, and the fairness part of
  `LinkImplemented` (that every frame is written at last): this prover has no
  reasoning about fairness and `ENABLED`.

Every safety invariant that a passing run checks is also the property of a
theorem.

## 7. Plan

Done, the most important behaviour first: the PPP client, the provider, the
session, the send queue, the socket pair; then the app with the status channel,
the receive side, and the two abstract specifications; then the proofs of
section 6. Left:

1. A tunnel with late reports (`LateReports = TRUE`): a report that arrives after
   the reconnect delay is counted against the next session, and the teardown it
   starts overlaps that session, whose worker may then meet a freed session
   although no wait lapsed. It needs a bound on how long a worker takes to
   return that the repository does not state.
2. A server that sends a second Connect-Ack, for which `ios_state_cb` creates a
   second PPP context.

## 8. Not modelled

- MS-CHAPv2 hashes, MPPE key arithmetic, CMAC and FCS: values too large to
  enumerate, covered by the repository's vector tests. What matters to the protocol, which
  exchange a key belongs to, is modelled.
- The verifiers behind the trust modes (OpenSSL, SecTrust): outcomes.
- Reading the provider configuration, CA bundles and the Keychain: pure input.
- SSTP attributes, buffers, the URL parser and the HTTP header's text: sequential
  code on bytes, unit-tested, on whose layout no decision of the modelled
  control depends. The length in the packet header is modelled (`SstpRecv`).
- The Linux command-line client (`sstp-client.c`, `sstp-event.c`, `sstp-option.c`,
  `sstp-route.c`, `sstp-task.c`, `sstp-api.c`, and `sstp-pppd.c`, which the target
  does not build): nothing in the iOS code calls it. The proxy handshake and the
  plain-text sender likewise.
- Layout of the view controller, Keychain wrappers, logging and packet dumps
  (`sstp-dump.c`): input and output only.
- Vendored headers (`include/openssl`, `libevent`): more than two thirds of the
  lines under `src/` that look like implementation are theirs. OpenSSL and
  libevent appear as what the code is told by them: answers of `SSL_write` and
  `SSL_read`, events that fire. So the map covers a small share of all lines,
  and most of the code that decides: five sixths of `ios-pppd.c`, about three
  quarters of `PacketTunnelProvider.m` and `VPNManager.m`, two thirds of
  `sstp-state.c`, and half of `sstp-ios.c` and `sstp-stream.c`.
- What a program does after it used freed memory: `Tunnel` stops there.
