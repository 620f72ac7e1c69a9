------------------------------- MODULE Tunnel -------------------------------
(***************************************************************************)
(* The packet tunnel provider (tunnel/PacketTunnelProvider.m) and the life *)
(* of the C sessions it runs (create, start_ex, run, stop and free of      *)
(* sstp/sstp-ios.c): start, automatic reconnect, network settings, the     *)
(* packet loop and stop.                                                   *)
(*                                                                         *)
(* Four kinds of threads meet here: the main queue (a FIFO of blocks), the *)
(* worker thread of each session, the global queue that tears sessions     *)
(* down, and the packet flow's handler.  The provider's properties are     *)
(* nonatomic and shared by all of them.                                    *)
(*                                                                         *)
(* Sessions and workers are numbered in the order they are created, so 0   *)
(* is NULL.  What happens after freed memory was used is undefined: no     *)
(* action is enabled from there on.                                        *)
(***************************************************************************)
EXTENDS Integers, Sequences, FiniteSets

CONSTANTS
    MaxReconnect,   \* kSSTPMaxReconnectAttempts
    MaxReady,       \* bound: sessions that come up (each resets the attempts)
    LateReports     \* may a worker take longer than a reconnect delay (a
                    \* second or more) to return from a failed start_ex?

ASSUME TunnelAssumption ==
    MaxReconnect \in Nat /\ MaxReady \in Nat /\ LateReports \in BOOLEAN

VARIABLES
    \* the provider's properties
    session, workerThread, packetLoopRunning, userStopRequested,
    sessionGeneration, currentStage, reconnectAttempt, reconnectScheduled,
    lastErrorCode,
    answered,       \* startCompletionCalled, and what the handler was given
    \* threads and queues
    mainq,          \* blocks on the main queue
    stopping,       \* the session a stopTunnel under way has read, or "no"
    timers,         \* generations with a pending reconnect delay
    settings,       \* generations with a pending setTunnelNetworkSettings
    tasks,          \* teardowns on the global queue
    worker,         \* worker threads
    reads, writer,  \* readPackets handlers outstanding, the session one holds
    \* the heap
    mem,            \* the sessions allocated
    \* observations
    cancel,         \* what cancelTunnelWithError was called for
    stopped,        \* stopTunnel's completion handler was called
    uaf,            \* who used a freed session
    lapsed, raced,  \* a stop deadline passed; two teardowns took one session
    readies

propVars == <<session, workerThread, packetLoopRunning, userStopRequested,
              sessionGeneration, currentStage, reconnectAttempt,
              reconnectScheduled, lastErrorCode, answered>>
reportVars == <<lastErrorCode, answered>>
flowVars == <<reads, writer>>
obsVars  == <<cancel, stopped>>
vars == <<propVars, mainq, stopping, timers, settings, tasks, worker,
          flowVars, mem, obsVars, uaf, lapsed, raced, readies>>

-----------------------------------------------------------------------------
None == "none"
CodesOfFailure == {"transient", "fatal"}
Stages == {"idle", "connecting", "applying", "connected", "reconnecting",
           "disconnecting", "error"}
Blocks == [k : {"fail"}, gen : Nat, code : CodesOfFailure]
          \cup [k : {"ready", "timer", "begin"}, gen : Nat]
          \cup [k : {"stage", "stopDone"}]
\* A worker: where it is in its block, the session it works on, and the code
\* it failed with.
Workers == [pc : {"new", "starting", "resolving", "failed", "started",
                  "running", "calling", "up", "done"},
            h : Nat, code : CodesOfFailure \cup {"none"}]
Cells == [freed : BOOLEAN, pipes : BOOLEAN, stop : BOOLEAN]
Tasks == [kind : {"teardown", "stop"}, gen : Nat, pc : {"read", "clear", "wait"},
          s : Nat, w : Nat]
NotStopping == [busy |-> FALSE, s |-> 0]

Running == uaf = {}
MainFree == Running /\ ~stopping.busy

\* Thread `who' touches session s (nothing happens for NULL).
Uses(who, s) == uaf' = IF s # 0 /\ mem[s].freed THEN {who} ELSE {}

\* Variant: the stop byte is never written.
StopNotSent(m, s) == m
\* sstp_ios_session_stop: one byte into the stop pipe once it exists; before
\* that the loop break it asks for is forgotten when the loop starts.
sstp_ios_session_stop(m, s) ==
    IF s # 0 /\ m[s].pipes THEN [m EXCEPT ![s].stop = TRUE] ELSE m

\* sstp_ios_session_free closes the pipes and releases the session.
sstp_ios_session_free(m, s) ==
    IF s = 0 THEN m ELSE [m EXCEPT ![s].freed = TRUE, ![s].pipes = FALSE]

\* Another teardown or a stop already took the session the provider holds.
SharedSession ==
    session # 0 /\ (stopping.s = session \/ \E t \in tasks : t.s = session)

Fail(code) == [k |-> "fail", gen |-> sessionGeneration, code |-> code]

-----------------------------------------------------------------------------
(* Main queue: start, the blocks, stop.                                    *)

\* Variant: an error is not reported to the framework.
AnswerOnlySuccess(a) == IF answered = "no" /\ a = "ok" THEN a ELSE answered
\* completeStartWithError: only the first answer counts.
completeStartWithError(a) == IF answered = "no" THEN a ELSE answered

\* beginSessionWithGeneration: nothing when stopped or overtaken; else a
\* session still there is freed, and a new one with its worker started.
beginSessionWithGeneration(gen) ==
    IF userStopRequested \/ sessionGeneration # gen
      THEN UNCHANGED <<session, workerThread, currentStage, worker, mem, uaf>>
      ELSE LET n == Len(mem) + 1
               m == sstp_ios_session_free(
                        sstp_ios_session_stop(mem, session), session)
           IN  /\ Uses("free", session)
               /\ mem' = Append(m, [freed |-> FALSE, pipes |-> FALSE,
                                    stop |-> FALSE])
               /\ worker' = Append(worker, [pc |-> "new", h |-> 0,
                                            code |-> "none"])
               /\ session' = n /\ workerThread' = n
               /\ currentStage' = "connecting"

\* startTunnelWithOptions, once per provider: credentials missing, or the
\* first session.
startTunnel ==
    /\ MainFree /\ sessionGeneration = 0 /\ answered = "no"
    /\ \/ /\ answered' = "error" /\ currentStage' = "error"
          /\ lastErrorCode' = "missing_credentials"
          /\ UNCHANGED <<session, workerThread, sessionGeneration, worker, mem,
                         uaf>>
       \/ /\ sessionGeneration' = 1
          /\ session' = 1 /\ workerThread' = 1 /\ currentStage' = "connecting"
          /\ mem' = <<[freed |-> FALSE, pipes |-> FALSE, stop |-> FALSE]>>
          /\ worker' = <<[pc |-> "new", h |-> 0, code |-> "none"]>>
          /\ UNCHANGED <<reportVars, uaf>>
    /\ UNCHANGED <<packetLoopRunning, userStopRequested, reconnectAttempt,
                   reconnectScheduled, mainq, stopping, timers, settings,
                   tasks, flowVars, obsVars, lapsed, raced, readies>>

\* The main queue runs its next block of kind k.
RunsBlock(k) ==
    /\ MainFree /\ mainq # << >> /\ Head(mainq).k = k
    /\ mainq' = Tail(mainq)
    /\ UNCHANGED <<stopping, flowVars, lapsed, raced, readies>>

\* on_stage's block carries no generation.
StageBlock ==
    /\ RunsBlock("stage")
    /\ currentStage' = "connecting"
    /\ UNCHANGED <<session, workerThread, packetLoopRunning, userStopRequested,
                   sessionGeneration, reconnectAttempt, reconnectScheduled,
                   reportVars, timers, settings, tasks, worker, mem, obsVars, uaf>>

\* on_ready's block and applyTunnelSettings.
ReadyBlock ==
    /\ RunsBlock("ready")
    /\ IF sessionGeneration # Head(mainq).gen \/ userStopRequested
         THEN UNCHANGED <<reconnectAttempt, currentStage, settings>>
         ELSE /\ reconnectAttempt' = 0
              /\ currentStage' = "applying"
              /\ settings' = settings \cup {sessionGeneration}
    /\ UNCHANGED <<session, workerThread, packetLoopRunning, userStopRequested,
                   sessionGeneration, reconnectScheduled, reportVars, timers,
                   tasks, worker, mem, obsVars, uaf>>

\* Variants: one attempt too many; fatal codes not told apart.
canReconnectOnceMore(code) ==
    code # "fatal" /\ reconnectAttempt <= MaxReconnect /\ ~reconnectScheduled
canReconnectAlways(code) ==
    reconnectAttempt < MaxReconnect /\ ~reconnectScheduled
\* handleSessionFailure's canReconnect.
canReconnect(code) ==
    code # "fatal" /\ reconnectAttempt < MaxReconnect /\ ~reconnectScheduled

\* The failures handleSessionFailure does not act on.
Ignored(gen) == sessionGeneration # gen \/ userStopRequested

\* on_fail's block and handleSessionFailure: a delayed reconnect, or the end.
FailBlock ==
    /\ RunsBlock("fail")
    /\ LET b == Head(mainq)
       IN  \/ /\ Ignored(b.gen)
              /\ UNCHANGED <<reconnectAttempt, reconnectScheduled, currentStage,
                             reportVars, timers, cancel>>
           \/ /\ ~Ignored(b.gen) /\ canReconnect(b.code)
              /\ reconnectAttempt' = reconnectAttempt + 1
              /\ reconnectScheduled' = TRUE
              /\ currentStage' = "reconnecting"
              /\ timers' = timers \cup {b.gen}
              /\ lastErrorCode' = b.code
              /\ UNCHANGED <<answered, cancel>>
           \/ /\ ~Ignored(b.gen) /\ ~canReconnect(b.code)
              /\ currentStage' = "error"
              /\ lastErrorCode' = b.code
              /\ answered' = completeStartWithError("error")
              /\ cancel' = [code |-> b.code, attempt |-> reconnectAttempt]
              /\ UNCHANGED <<reconnectAttempt, reconnectScheduled, timers>>
    /\ UNCHANGED <<session, workerThread, packetLoopRunning, userStopRequested,
                   sessionGeneration, settings, tasks, worker, mem, stopped, uaf>>

\* dispatch_after: the delay of a scheduled reconnect ends, by then (unless
\* LateReports) the worker that failed is out of start_ex.
TimerDue ==
    /\ Running
    /\ LateReports \/ \A w \in DOMAIN worker : worker[w].pc # "failed"
    /\ \E g \in timers :
         /\ timers' = timers \ {g}
         /\ mainq' = Append(mainq, [k |-> "timer", gen |-> g])
    /\ UNCHANGED <<propVars, stopping, settings, tasks, worker, flowVars, mem,
                   obsVars, uaf, lapsed, raced, readies>>

\* The delayed block: a new generation, and the teardown of the old session.
TimerBlock ==
    /\ RunsBlock("timer")
    /\ reconnectScheduled' = FALSE
    /\ IF userStopRequested \/ sessionGeneration # Head(mainq).gen
         THEN UNCHANGED <<sessionGeneration, tasks>>
         ELSE /\ sessionGeneration' = sessionGeneration + 1
              /\ tasks' = tasks \cup {[kind |-> "teardown", pc |-> "read",
                                       gen |-> sessionGeneration + 1,
                                       s |-> 0, w |-> 0]}
    /\ UNCHANGED <<session, workerThread, packetLoopRunning, userStopRequested,
                   currentStage, reconnectAttempt, reportVars, timers, settings,
                   worker, mem, obsVars, uaf>>

BeginBlock ==
    /\ RunsBlock("begin")
    /\ beginSessionWithGeneration(Head(mainq).gen)
    /\ UNCHANGED <<packetLoopRunning, userStopRequested, sessionGeneration,
                   reconnectAttempt, reconnectScheduled, reportVars, timers,
                   settings, tasks, obsVars>>

\* stopTunnel's last block calls the completion handler.
StopDoneBlock ==
    /\ RunsBlock("stopDone")
    /\ currentStage' = "idle"
    /\ stopped' = TRUE
    /\ UNCHANGED <<session, workerThread, packetLoopRunning, userStopRequested,
                   sessionGeneration, reconnectAttempt, reconnectScheduled,
                   reportVars, timers, settings, tasks, worker, mem, cancel, uaf>>

\* The completion of setTunnelNetworkSettings looks only at the generation;
\* on success it starts the packet loop unless one runs.
SettingsDone ==
    /\ MainFree
    /\ \E g \in settings :
         /\ settings' = settings \ {g}
         /\ \/ /\ sessionGeneration # g
               /\ UNCHANGED <<currentStage, reportVars, cancel, packetLoopRunning,
                              reads>>
            \/ /\ sessionGeneration = g
               /\ currentStage' = "error"
               /\ lastErrorCode' = "internal"
               /\ answered' = completeStartWithError("error")
               /\ cancel' = [code |-> "settings", attempt |-> reconnectAttempt]
               /\ UNCHANGED <<packetLoopRunning, reads>>
            \/ /\ sessionGeneration = g
               /\ currentStage' = "connected"
               /\ lastErrorCode' = None
               /\ answered' = completeStartWithError("ok")
               /\ packetLoopRunning' = TRUE
               /\ reads' = IF packetLoopRunning THEN reads ELSE reads + 1
               /\ UNCHANGED cancel
    /\ UNCHANGED <<session, workerThread, userStopRequested, sessionGeneration,
                   reconnectAttempt, reconnectScheduled, mainq, stopping,
                   timers, tasks, worker, writer, mem, stopped, uaf, lapsed,
                   raced, readies>>

\* Variant: a stop leaves the generation alone.
GenerationKept == sessionGeneration
\* The generation a stop leaves.
StopGeneration == sessionGeneration + 1

\* stopTunnelWithReason up to reading self.session, and the rest of it: the
\* global queue may run between the two.
stopTunnel ==
    /\ MainFree /\ ~userStopRequested /\ sessionGeneration # 0
    /\ userStopRequested' = TRUE
    /\ reconnectScheduled' = FALSE
    /\ packetLoopRunning' = FALSE
    /\ currentStage' = "disconnecting"
    /\ lastErrorCode' \in {"cancelled", lastErrorCode}  \* user-initiated or not
    /\ sessionGeneration' = StopGeneration
    /\ stopping' = [busy |-> TRUE, s |-> session]
    /\ raced' = (raced \/ SharedSession)
    /\ UNCHANGED <<session, workerThread, reconnectAttempt, answered, mainq,
                   timers, settings, tasks, worker, flowVars, mem, obsVars,
                   uaf, lapsed, readies>>

stopTunnelTake ==
    /\ Running /\ stopping.busy
    /\ session' = 0 /\ workerThread' = 0
    /\ Uses("stop", stopping.s)
    /\ mem' = sstp_ios_session_stop(mem, stopping.s)
    /\ tasks' = tasks \cup {[kind |-> "stop", gen |-> sessionGeneration,
                             pc |-> "wait", s |-> stopping.s,
                             w |-> workerThread]}
    /\ stopping' = NotStopping
    /\ UNCHANGED <<packetLoopRunning, userStopRequested, sessionGeneration,
                   currentStage, reconnectAttempt, reconnectScheduled, reportVars,
                   mainq, timers, settings, worker, flowVars, obsVars, lapsed,
                   raced, readies>>

-----------------------------------------------------------------------------
(* The global queue: teardownWorkerKeepingCredentials, and the end of stop. *)

\* Variant: the packet loop is left running.
LoopKept == packetLoopRunning
\* teardown's first statement.
LoopAfterTeardown == FALSE

TeardownRead ==
    /\ Running
    /\ \E t \in tasks :
         /\ t.pc = "read"
         /\ packetLoopRunning' = LoopAfterTeardown
         /\ tasks' = (tasks \ {t}) \cup {[t EXCEPT !.pc = "clear", !.s = session,
                                                   !.w = workerThread]}
    /\ raced' = (raced \/ SharedSession)
    /\ UNCHANGED <<session, workerThread, userStopRequested, sessionGeneration,
                   currentStage, reconnectAttempt, reconnectScheduled, reportVars,
                   mainq, stopping, timers, settings, worker, flowVars, mem,
                   obsVars, uaf, lapsed, readies>>

TeardownClear ==
    /\ Running
    /\ \E t \in tasks :
         /\ t.pc = "clear"
         /\ session' = 0 /\ workerThread' = 0
         /\ Uses("stop", t.s)
         /\ mem' = sstp_ios_session_stop(mem, t.s)
         /\ tasks' = (tasks \ {t}) \cup {[t EXCEPT !.pc = "wait"]}
    /\ UNCHANGED <<packetLoopRunning, userStopRequested, sessionGeneration,
                   currentStage, reconnectAttempt, reconnectScheduled, reportVars,
                   mainq, stopping, timers, settings, worker, flowVars, obsVars,
                   lapsed, raced, readies>>

WorkerFinished(t) == t.w # 0 => worker[t.w].pc = "done"

\* Variant: the session is freed without waiting for its worker.
NoWait(t) == TRUE
\* The wait ends with the worker; five seconds may also pass (lapse below).
WaitOver(t) == WorkerFinished(t)

\* The wait ends, the session is freed, and the main queue is told.
FreesSession(t) ==
    /\ Uses("free", t.s)
    /\ mem' = sstp_ios_session_free(mem, t.s)
    /\ tasks' = tasks \ {t}
    /\ mainq' = Append(mainq, IF t.kind = "stop"
                                THEN [k |-> "stopDone"]
                                ELSE [k |-> "begin", gen |-> t.gen])
    /\ UNCHANGED <<propVars, stopping, timers, settings, worker, flowVars,
                   obsVars, raced, readies>>

WaitEnds ==
    /\ Running
    /\ \E t \in tasks : t.pc = "wait" /\ WaitOver(t) /\ FreesSession(t)
    /\ UNCHANGED lapsed

\* kSSTPStopTimeoutSeconds passed: the session is freed all the same.
WaitLapses ==
    /\ Running
    /\ \E t \in tasks : t.pc = "wait" /\ ~WorkerFinished(t) /\ FreesSession(t)
    /\ lapsed' = TRUE

-----------------------------------------------------------------------------
(* The worker threads: start_ex, then run.                                 *)

workerOnly == <<propVars, stopping, timers, settings, tasks, flowVars, obsVars,
                lapsed, raced>>

Goes(w, pc) == worker' = [worker EXCEPT ![w].pc = pc]
\* sstp_ios_fail_ex or the worker's own on_fail: the worker is left at pc.
FailsWith(w, pc, code) ==
    /\ worker' = [worker EXCEPT ![w].pc = pc, ![w].code = code]
    /\ mainq' = Append(mainq, Fail(code))

\* start_ex is called on the session the provider holds now.
WorkerEnter(w) ==
    /\ worker[w].pc = "new"
    /\ IF session = 0
         THEN FailsWith(w, "done", "transient") /\ UNCHANGED uaf
         ELSE /\ worker' = [worker EXCEPT ![w].pc = "starting", ![w].h = session]
              /\ Uses("worker", session)
              /\ UNCHANGED mainq
    /\ UNCHANGED <<workerOnly, mem, readies>>

\* start_ex up to the blocking name lookup: event base, pipes, TLS context.
WorkerOpen(w) ==
    LET s == worker[w].h IN
    /\ worker[w].pc = "starting"
    /\ Uses("worker", s)
    /\ \/ /\ mem' = [mem EXCEPT ![s].pipes = TRUE]
          /\ Goes(w, "resolving")
          /\ mainq' = Append(mainq, [k |-> "stage"])
       \/ /\ FailsWith(w, "failed", "transient")
          /\ UNCHANGED mem
    /\ UNCHANGED <<workerOnly, readies>>

\* getaddrinfo returned, and the connect was started or not: dns_resolve,
\* tls_handshake and tcp_timeout are transient.
WorkerResolve(w) ==
    /\ worker[w].pc = "resolving"
    /\ Uses("worker", worker[w].h)
    /\ \/ Goes(w, "started") /\ UNCHANGED mainq
       \/ FailsWith(w, "failed", "transient")
    /\ UNCHANGED <<workerOnly, mem, readies>>

\* start_ex returned nonzero: the worker reports what fail_ex already has.
WorkerReport(w) ==
    /\ worker[w].pc = "failed"
    /\ FailsWith(w, "done", "transient")
    /\ UNCHANGED <<workerOnly, mem, uaf, readies>>

\* sstp_ios_session_run, on the session the provider holds now.
WorkerRun(w) ==
    /\ worker[w].pc = "started"
    /\ Uses("worker", session)
    /\ worker' = IF session # 0 /\ mem[session].pipes
                   THEN [worker EXCEPT ![w].pc = "running", ![w].h = session]
                   ELSE [worker EXCEPT ![w].pc = "done"]
    /\ UNCHANGED <<workerOnly, mainq, mem, readies>>

\* The event loop connects, does the TLS handshake and the HTTP upgrade, each
\* under a timer, and calls (ios_http_done).  From here on only the server's
\* silence is timed: one that answers echoes but no Call-Connect-Request, or
\* whose PPP negotiation hangs (IosPppd), keeps the session for ever.
RunCalls(w) ==
    /\ worker[w].pc = "running"
    /\ Uses("worker", worker[w].h)
    /\ Goes(w, "calling")
    /\ UNCHANGED <<workerOnly, mainq, mem, readies>>

\* SSTP_PPP_UP sets a stage and calls on_ready.
RunReady(w) ==
    /\ worker[w].pc = "calling" /\ readies < MaxReady
    /\ Uses("worker", worker[w].h)
    /\ Goes(w, "up")
    /\ mainq' = mainq \o <<[k |-> "stage"],
                           [k |-> "ready", gen |-> sessionGeneration]>>
    /\ readies' = readies + 1
    /\ UNCHANGED <<workerOnly, mem>>

\* fail_ex in a callback jumps out of the loop.
RunFails(w) ==
    /\ worker[w].pc \in {"running", "calling", "up"}
    /\ Uses("worker", worker[w].h)
    /\ \E code \in CodesOfFailure : FailsWith(w, "done", code)
    /\ UNCHANGED <<workerOnly, mem, readies>>

\* ios_stop_cb breaks the loop.
RunStopped(w) ==
    /\ worker[w].pc \in {"running", "calling", "up"} /\ mem[worker[w].h].stop
    /\ Uses("worker", worker[w].h)
    /\ Goes(w, "done")
    /\ UNCHANGED <<workerOnly, mainq, mem, readies>>

WorkerStep(w) ==
    /\ Running
    /\ \/ WorkerEnter(w) \/ WorkerOpen(w) \/ WorkerResolve(w)
       \/ WorkerReport(w) \/ WorkerRun(w) \/ RunStopped(w)
Outcome(w) == Running /\ (RunCalls(w) \/ RunReady(w) \/ RunFails(w))

-----------------------------------------------------------------------------
(* The packet flow: readPackets' handler.                                  *)

\* Packets arrive: the handler ends when the loop or the session is gone,
\* else it takes the session to write to.
PacketsRead ==
    /\ Running /\ reads > 0 /\ writer = 0
    /\ IF packetLoopRunning /\ session # 0
         THEN writer' = session /\ UNCHANGED reads
         ELSE reads' = reads - 1 /\ UNCHANGED writer
    /\ UNCHANGED <<propVars, mainq, stopping, timers, settings, tasks, worker,
                   mem, obsVars, uaf, lapsed, raced, readies>>

\* sstp_ios_session_write_ip, then readPackets again.
PacketsWritten ==
    /\ Running /\ writer # 0
    /\ Uses("writer", writer)
    /\ writer' = 0
    /\ reads' = IF packetLoopRunning THEN reads ELSE reads - 1
    /\ UNCHANGED <<propVars, mainq, stopping, timers, settings, tasks, worker,
                   mem, obsVars, lapsed, raced, readies>>

-----------------------------------------------------------------------------
Init ==
    /\ session = 0 /\ workerThread = 0 /\ packetLoopRunning = FALSE
    /\ userStopRequested = FALSE /\ sessionGeneration = 0
    /\ currentStage = "idle" /\ reconnectAttempt = 0
    /\ reconnectScheduled = FALSE /\ lastErrorCode = None /\ answered = "no"
    /\ mainq = << >> /\ stopping = NotStopping
    /\ timers = {} /\ settings = {} /\ tasks = {} /\ worker = << >>
    /\ reads = 0 /\ writer = 0 /\ mem = << >>
    /\ cancel = [code |-> "none", attempt |-> 0]
    /\ stopped = FALSE /\ uaf = {} /\ lapsed = FALSE /\ raced = FALSE
    /\ readies = 0

MainBlock == \/ StageBlock \/ ReadyBlock \/ FailBlock \/ TimerBlock
             \/ BeginBlock \/ StopDoneBlock
GlobalStep == TeardownRead \/ TeardownClear

Next ==
    \/ startTunnel \/ stopTunnel \/ stopTunnelTake \/ MainBlock \/ TimerDue
    \/ SettingsDone \/ GlobalStep \/ WaitEnds \/ WaitLapses
    \/ \E w \in DOMAIN worker : WorkerStep(w) \/ Outcome(w)
    \/ PacketsRead \/ PacketsWritten

Spec == Init /\ [][Next]_vars

\* The queues and threads are scheduled, delays and deadlines pass, settings
\* are answered, name lookups return, and connect, handshake and upgrade end by
\* their timers.  A call need not come to anything; neither users nor packets
\* need ever come.
FairSpec ==
    /\ Spec
    /\ WF_vars(startTunnel) /\ WF_vars(MainBlock) /\ WF_vars(TimerDue)
    /\ WF_vars(stopTunnelTake) /\ WF_vars(SettingsDone) /\ WF_vars(GlobalStep)
    /\ WF_vars(WaitEnds \/ WaitLapses)
    /\ \A w \in 1 .. 2 + MaxReconnect * (MaxReady + 1) :
         /\ WF_vars(w \in DOMAIN worker /\ WorkerStep(w))
         /\ WF_vars(w \in DOMAIN worker /\ worker[w].pc = "running" /\ Outcome(w))

-----------------------------------------------------------------------------
(* Properties.                                                             *)

\* The provider's properties, the queues, threads and heap keep their types,
\* and the reconnect attempts their limit.
TypeOK ==
    /\ session \in 0 .. Len(mem) /\ workerThread \in 0 .. Len(worker)
    /\ Len(mem) = Len(worker)
    /\ packetLoopRunning \in BOOLEAN /\ userStopRequested \in BOOLEAN
    /\ sessionGeneration \in Nat /\ currentStage \in Stages
    /\ reconnectAttempt \in 0 .. MaxReconnect
    /\ reconnectScheduled \in BOOLEAN
    /\ lastErrorCode \in CodesOfFailure \cup
           {None, "missing_credentials", "internal", "cancelled"}
    /\ answered \in {"no", "ok", "error"}
    /\ mainq \in Seq(Blocks)
    /\ stopping \in [busy : BOOLEAN, s : 0 .. Len(mem)]
    /\ timers \subseteq Nat /\ settings \subseteq Nat
    /\ \A t \in tasks : t \in Tasks /\ t.s <= Len(mem) /\ t.w <= Len(worker)
    /\ worker \in Seq(Workers) /\ mem \in Seq(Cells)
    /\ \A w \in DOMAIN worker :
         /\ worker[w].h <= Len(mem)
         /\ worker[w].pc \in {"starting", "resolving", "running", "calling", "up"} =>
                worker[w].h # 0
    /\ reads \in Nat /\ writer \in 0 .. Len(mem)
    /\ cancel \in [code : CodesOfFailure \cup {"none", "settings"},
                   attempt : 0 .. MaxReconnect]
    /\ stopped \in BOOLEAN /\ lapsed \in BOOLEAN /\ raced \in BOOLEAN
    /\ uaf \subseteq {"worker", "stop", "free", "writer"}
    /\ readies \in 0 .. MaxReady

\* A session is freed under its worker only when the five seconds of a stop
\* ran out, and stopped or freed twice only when a reconnect's teardown and
\* stopTunnel took it at once.
MemorySafe ==
    /\ "worker" \in uaf => lapsed
    /\ uaf \cap {"stop", "free"} # {} => raced

\* No session follows one that failed fatally (auth_rejected or
\* tls_cert), whatever timers and failures were still in flight.
NoRetryAfterFatal ==
    \A w \in DOMAIN worker : worker[w].code = "fatal" => w = Len(worker)

\* While the packet loop counts as running a readPackets handler is
\* outstanding: packets of the device are not left unread after a reconnect.
ReaderAlive == packetLoopRunning => reads > 0

\* Once stopTunnel completed, the status shown to the app stays idle: stages,
\* failures, timers and settings still in flight do not revive it.
IdleAfterStop == stopped /\ ~lapsed => currentStage = "idle"

\* stopTunnel always completes, and then every session is freed and every
\* worker has ended.
StopEnds ==
    userStopRequested ~>
        \/ /\ stopped
           /\ \A s \in DOMAIN mem : mem[s].freed
           /\ \A w \in DOMAIN worker : worker[w].pc = "done"
        \/ uaf # {}

\* Every start is answered, with the tunnel or an error, unless it is stopped
\* first or a call goes on for ever: no timer of the provider or the engine
\* bounds a call, and nothing else leaves a start without an answer.
StartAnswered ==
    \/ <>(answered # "no" \/ userStopRequested \/ uaf # {})
    \/ <>[](\E w \in DOMAIN worker : worker[w].pc = "calling")

\* How far the provider is, for those who see it from outside.
Phase ==
    CASE stopped -> "gone"
      [] ~stopped /\ userStopRequested -> "stopping"
      [] ~userStopRequested /\ (cancel.code # None \/ answered = "error") -> "failed"
      [] ~userStopRequested /\ cancel.code = None /\ answered = "ok" -> "up"
      [] OTHER -> IF sessionGeneration > 0 THEN "starting" ELSE "launched"

Provider == INSTANCE ProviderStatus WITH Failures <- CodesOfFailure, prov <- Phase

\* The provider with its queues, threads and sessions implements the provider
\* the app is modelled on: no stale failure, timer or settings completion makes
\* a visible change of another kind.
ProviderImplemented == Provider!Spec

\* A transient failure ends the tunnel only after all reconnect attempts.
TransientRetried == cancel.code = "transient" => cancel.attempt = MaxReconnect

\* When a stop completes no worker is left in a name lookup or in the event
\* loop of its session.
NoZombieWorker ==
    stopped => \A w \in DOMAIN worker :
                 worker[w].pc \notin {"resolving", "running", "calling", "up"}

=============================================================================
