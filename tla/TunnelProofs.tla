---------------------------- MODULE TunnelProofs ----------------------------
(***************************************************************************)
(* Proofs about the packet tunnel provider, Tunnel: the type invariant,    *)
(* that it implements ProviderStatus, and its safety invariants.           *)
(***************************************************************************)
EXTENDS Tunnel, SequenceTheorems, TLAPS

-----------------------------------------------------------------------------
(* Sequences: a member is added, taken away or changed.                    *)

\* A sequence with a member added at its end.
LEMMA AppendSeq ==
    ASSUME NEW S, NEW s \in Seq(S), NEW e \in S
    PROVE  /\ Append(s, e) \in Seq(S)
           /\ Len(s) \in Nat /\ DOMAIN s = 1 .. Len(s)
           /\ Len(Append(s, e)) = Len(s) + 1
           /\ DOMAIN Append(s, e) = 1 .. (Len(s) + 1)
           /\ \A i \in DOMAIN s : i \in DOMAIN Append(s, e) /\ Append(s, e)[i] = s[i]
           /\ Append(s, e)[Len(s) + 1] = e
           /\ \A i \in DOMAIN Append(s, e) : i \in DOMAIN s \/ i = Len(s) + 1
  <1>1. /\ Append(s, e) \in Seq(S)
        /\ Len(Append(s, e)) = Len(s) + 1
        /\ \A i \in 1 .. Len(s) : Append(s, e)[i] = s[i]
        /\ Append(s, e)[Len(s) + 1] = e
    BY AppendProperties
  <1>2. Len(s) \in Nat /\ DOMAIN s = 1 .. Len(s)
    BY LenProperties
  <1>3. DOMAIN Append(s, e) = 1 .. (Len(s) + 1)
    BY <1>1, LenProperties
  <1>4. \A i \in DOMAIN Append(s, e) : i \in DOMAIN s \/ i = Len(s) + 1
    BY <1>2, <1>3
  <1>5. \A i \in DOMAIN s : i \in DOMAIN Append(s, e)
    BY <1>2, <1>3
  <1> QED  BY <1>1, <1>2, <1>3, <1>4, <1>5

\* A sequence without its head.
LEMMA TailSeq ==
    ASSUME NEW S, NEW s \in Seq(S), s # << >>
    PROVE  /\ Tail(s) \in Seq(S) /\ Head(s) \in S
           /\ Len(s) \in Nat \ {0} /\ DOMAIN s = 1 .. Len(s) /\ Head(s) = s[1]
           /\ 1 \in DOMAIN s
           /\ DOMAIN Tail(s) = 1 .. (Len(s) - 1)
           /\ \A i \in DOMAIN Tail(s) : i + 1 \in DOMAIN s /\ Tail(s)[i] = s[i + 1]
  <1>1. /\ Tail(s) \in Seq(S) /\ Head(s) \in S
        /\ Len(Tail(s)) = Len(s) - 1
        /\ \A i \in 1 .. Len(Tail(s)) : Tail(s)[i] = s[i + 1]
    BY HeadTailProperties
  <1>2. Len(s) \in Nat \ {0} /\ DOMAIN s = 1 .. Len(s) /\ Head(s) = s[1]
    BY LenProperties, EmptySeq
  <1>3. DOMAIN Tail(s) = 1 .. (Len(s) - 1)
    BY <1>1, LenProperties
  <1>4. 1 \in DOMAIN s /\ \A i \in DOMAIN Tail(s) : i + 1 \in DOMAIN s
    BY <1>2, <1>3
  <1> QED  BY <1>1, <1>2, <1>3, <1>4

\* A sequence with one member changed.
LEMMA ChangeSeq ==
    ASSUME NEW S, NEW s \in Seq(S), NEW n \in DOMAIN s, NEW e \in S
    PROVE  /\ [s EXCEPT ![n] = e] \in Seq(S)
           /\ Len([s EXCEPT ![n] = e]) = Len(s)
           /\ DOMAIN [s EXCEPT ![n] = e] = DOMAIN s
           /\ [s EXCEPT ![n] = e][n] = e
           /\ \A i \in DOMAIN s : i # n => [s EXCEPT ![n] = e][i] = s[i]
  <1>1. DOMAIN s = 1 .. Len(s)
    BY LenProperties
  <1>2. [s EXCEPT ![n] = e] \in Seq(S) /\ Len([s EXCEPT ![n] = e]) = Len(s)
    BY <1>1, ExceptSeq
  <1> QED  BY <1>1, <1>2

-----------------------------------------------------------------------------
(* The type invariant in parts.                                            *)

FlagTypes ==
    /\ packetLoopRunning \in BOOLEAN /\ userStopRequested \in BOOLEAN
    /\ reconnectScheduled \in BOOLEAN
    /\ stopped \in BOOLEAN /\ lapsed \in BOOLEAN /\ raced \in BOOLEAN
NameTypes ==
    /\ currentStage \in Stages
    /\ lastErrorCode \in CodesOfFailure \cup
           {None, "missing_credentials", "internal", "cancelled"}
    /\ answered \in {"no", "ok", "error"}
    /\ uaf \subseteq {"worker", "stop", "free", "writer"}
NumberTypes ==
    /\ sessionGeneration \in Nat /\ reconnectAttempt \in 0 .. MaxReconnect
    /\ timers \subseteq Nat /\ settings \subseteq Nat
    /\ reads \in Nat /\ readies \in 0 .. MaxReady
    /\ cancel \in [code : CodesOfFailure \cup {"none", "settings"},
                   attempt : 0 .. MaxReconnect]
QueueTypes == mainq \in Seq(Blocks)
HeapTypes ==
    /\ mem \in Seq(Cells) /\ worker \in Seq(Workers) /\ Len(mem) = Len(worker)
    /\ session \in 0 .. Len(mem) /\ workerThread \in 0 .. Len(worker)
    /\ stopping \in [busy : BOOLEAN, s : 0 .. Len(mem)]
    /\ writer \in 0 .. Len(mem)
TaskTypes == \A t \in tasks : t \in Tasks /\ t.s <= Len(mem) /\ t.w <= Len(worker)
WorkerTypes ==
    \A w \in DOMAIN worker :
        /\ worker[w].h <= Len(mem)
        /\ worker[w].pc \in {"starting", "resolving", "running", "calling", "up"} =>
               worker[w].h # 0

\* The type invariant is its parts.
LEMMA TypeParts ==
    TypeOK <=> /\ FlagTypes /\ NameTypes /\ NumberTypes /\ QueueTypes /\ HeapTypes
               /\ TaskTypes /\ WorkerTypes
  BY DEF TypeOK, FlagTypes, NameTypes, NumberTypes, QueueTypes, HeapTypes, TaskTypes, WorkerTypes

\* The blocks a block of kind k can be.
LEMMA BlockKinds ==
    ASSUME NEW b \in Blocks
    PROVE  /\ b.k = "fail" => b.gen \in Nat /\ b.code \in CodesOfFailure
           /\ b.k \in {"ready", "timer", "begin"} => b.gen \in Nat
           /\ b.k \in {"fail", "ready", "timer", "begin", "stage", "stopDone"}
  BY DEF Blocks

\* The block the main queue runs is a block, and is taken off the queue.
LEMMA HeadBlock ==
    ASSUME QueueTypes, NEW k, RunsBlock(k)
    PROVE  /\ mainq # << >> /\ mainq' = Tail(mainq) /\ Tail(mainq) \in Seq(Blocks)
           /\ Head(mainq) \in Blocks /\ Head(mainq).k = k
           /\ stopping' = stopping /\ reads' = reads /\ writer' = writer
           /\ lapsed' = lapsed /\ raced' = raced /\ readies' = readies
           /\ Running /\ ~stopping.busy
  BY TailSeq DEF RunsBlock, QueueTypes, flowVars, MainFree

\* What is posted is a block.
LEMMA NewBlocks ==
    /\ \A g \in Nat, c \in CodesOfFailure : [k |-> "fail", gen |-> g, code |-> c] \in Blocks
    /\ \A g \in Nat : /\ [k |-> "ready", gen |-> g] \in Blocks
                      /\ [k |-> "timer", gen |-> g] \in Blocks
                      /\ [k |-> "begin", gen |-> g] \in Blocks
    /\ [k |-> "stage"] \in Blocks /\ [k |-> "stopDone"] \in Blocks
  BY DEF Blocks


-----------------------------------------------------------------------------
(* The heap and the worker threads.                                        *)

\* Two heaps with the same sessions.
SameCells(m, n) == n \in Seq(Cells) /\ Len(n) = Len(m) /\ DOMAIN n = DOMAIN m

\* A session that is stopped, freed or given its pipes stays a session.
LEMMA StopCells ==
    ASSUME NEW m \in Seq(Cells), NEW s \in 0 .. Len(m)
    PROVE  /\ SameCells(m, sstp_ios_session_stop(m, s))
           /\ \A i \in DOMAIN m : /\ sstp_ios_session_stop(m, s)[i].freed = m[i].freed
                                  /\ sstp_ios_session_stop(m, s)[i].pipes = m[i].pipes
  <1>1. Len(m) \in Nat /\ DOMAIN m = 1 .. Len(m) /\ \A i \in DOMAIN m : m[i] \in Cells
    BY LenProperties, ElementOfSeq
  <1>2. CASE s # 0 /\ m[s].pipes
    <2> DEFINE c == [m[s] EXCEPT !.stop = TRUE]
    <2>1. s \in DOMAIN m
      BY <1>1, <1>2
    <2>2. c \in Cells /\ c.freed = m[s].freed /\ c.pipes = m[s].pipes
      BY <1>1, <2>1 DEF Cells
    <2>3. sstp_ios_session_stop(m, s) = [m EXCEPT ![s] = c]
      BY <1>2 DEF sstp_ios_session_stop
    <2> HIDE DEF c
    <2> QED  BY <2>1, <2>2, <2>3, ChangeSeq DEF SameCells
  <1>3. CASE ~(s # 0 /\ m[s].pipes)
    <2>1. sstp_ios_session_stop(m, s) = m
      BY <1>3 DEF sstp_ios_session_stop
    <2> QED  BY <2>1 DEF SameCells
  <1> QED  BY <1>2, <1>3

\* A free marks the one session it is given.
LEMMA FreeCells ==
    ASSUME NEW m \in Seq(Cells), NEW s \in 0 .. Len(m)
    PROVE  /\ SameCells(m, sstp_ios_session_free(m, s))
           /\ \A i \in DOMAIN m : i # s => sstp_ios_session_free(m, s)[i] = m[i]
           /\ s # 0 => sstp_ios_session_free(m, s)[s].freed
  <1>1. Len(m) \in Nat /\ DOMAIN m = 1 .. Len(m) /\ \A i \in DOMAIN m : m[i] \in Cells
    BY LenProperties, ElementOfSeq
  <1>2. CASE s # 0
    <2> DEFINE c == [m[s] EXCEPT !.freed = TRUE, !.pipes = FALSE]
    <2>1. s \in DOMAIN m
      BY <1>1, <1>2
    <2>2. c \in Cells /\ c.freed
      BY <1>1, <2>1 DEF Cells
    <2>3. sstp_ios_session_free(m, s) = [m EXCEPT ![s] = c]
      BY <1>2 DEF sstp_ios_session_free
    <2> HIDE DEF c
    <2> QED  BY <2>1, <2>2, <2>3, ChangeSeq DEF SameCells
  <1>3. CASE s = 0
    <2>1. sstp_ios_session_free(m, s) = m
      BY <1>3 DEF sstp_ios_session_free
    <2> QED  BY <2>1, <1>3 DEF SameCells
  <1> QED  BY <1>2, <1>3

\* start_ex's pipes are the session's own.
LEMMA PipeCells ==
    ASSUME NEW m \in Seq(Cells), NEW s \in DOMAIN m
    PROVE  /\ SameCells(m, [m EXCEPT ![s].pipes = TRUE])
           /\ \A i \in DOMAIN m : [m EXCEPT ![s].pipes = TRUE][i].freed = m[i].freed
  <1> DEFINE c == [m[s] EXCEPT !.pipes = TRUE]
  <1>1. m[s] \in Cells
    BY ElementOfSeq, LenProperties
  <1>2. c \in Cells /\ c.freed = m[s].freed
    BY <1>1 DEF Cells
  <1> DEFINE n == [m EXCEPT ![s].pipes = TRUE]
  <1>3. n = [m EXCEPT ![s] = c]
    OBVIOUS
  <1> HIDE DEF c, n
  <1>4. SameCells(m, n) /\ \A i \in DOMAIN m : n[i].freed = m[i].freed
    BY <1>2, <1>3, ChangeSeq DEF SameCells
  <1> QED  BY <1>4 DEF n

\* Worker w moves to p, with session h and code c; the others stay.
WorkerAt(w, p, h, c) ==
    /\ worker' \in Seq(Workers) /\ Len(worker') = Len(worker)
    /\ DOMAIN worker' = DOMAIN worker
    /\ \A i \in DOMAIN worker : i # w => worker'[i] = worker[i]
    /\ worker'[w].pc = p /\ worker'[w].h = h /\ worker'[w].code = c

PCs == {"new", "starting", "resolving", "failed", "started", "running", "calling", "up", "done"}

\* The fields of a worker.
LEMMA WorkerFields ==
    ASSUME HeapTypes, NEW w \in DOMAIN worker
    PROVE  /\ worker[w] \in Workers /\ worker[w].pc \in PCs /\ worker[w].h \in Nat
           /\ worker[w].code \in CodesOfFailure \cup {"none"}
           /\ w \in 1 .. Len(worker) /\ Len(worker) \in Nat
           /\ DOMAIN worker = 1 .. Len(worker)
  <1>1. worker[w] \in Workers /\ Len(worker) \in Nat /\ DOMAIN worker = 1 .. Len(worker)
    BY ElementOfSeq, LenProperties DEF HeapTypes
  <1> QED  BY <1>1 DEF Workers, PCs

\* What a move or a failure of worker w makes of it.
LEMMA WorkerMoves ==
    ASSUME HeapTypes, NEW w \in DOMAIN worker, NEW p \in PCs
    PROVE  /\ Goes(w, p) => WorkerAt(w, p, worker[w].h, worker[w].code)
           /\ \A c \in CodesOfFailure : FailsWith(w, p, c) => WorkerAt(w, p, worker[w].h, c)
           /\ worker' = [worker EXCEPT ![w].pc = p, ![w].h = session] =>
                  WorkerAt(w, p, session, worker[w].code)
           /\ UNCHANGED worker => WorkerAt(w, worker[w].pc, worker[w].h, worker[w].code)
  <1> USE DEF HeapTypes
  <1>1. worker \in Seq(Workers) /\ session \in Nat
    BY LenProperties
  <1>2. worker[w] \in Workers
    BY WorkerFields
  <1>3. ASSUME NEW e \in Workers, worker' = [worker EXCEPT ![w] = e]
        PROVE  WorkerAt(w, e.pc, e.h, e.code)
    BY <1>1, <1>3, ChangeSeq DEF WorkerAt
  <1>4. ASSUME Goes(w, p)
        PROVE  WorkerAt(w, p, worker[w].h, worker[w].code)
    <2> DEFINE e == [worker[w] EXCEPT !.pc = p]
    <2>1. e \in Workers /\ e.pc = p /\ e.h = worker[w].h /\ e.code = worker[w].code
      BY <1>2 DEF Workers, PCs
    <2>2. worker' = [worker EXCEPT ![w] = e]
      BY <1>4 DEF Goes
    <2> HIDE DEF e
    <2>3. WorkerAt(w, e.pc, e.h, e.code)
      BY <1>3, <2>1, <2>2
    <2> QED  BY <2>1, <2>3
  <1>5. ASSUME NEW c \in CodesOfFailure, FailsWith(w, p, c)
        PROVE  WorkerAt(w, p, worker[w].h, c)
    <2> DEFINE e == [worker[w] EXCEPT !.pc = p, !.code = c]
    <2>1. e \in Workers /\ e.pc = p /\ e.h = worker[w].h /\ e.code = c
      BY <1>2 DEF Workers, PCs
    <2>2. worker' = [worker EXCEPT ![w] = e]
      BY <1>5 DEF FailsWith
    <2> HIDE DEF e
    <2>3. WorkerAt(w, e.pc, e.h, e.code)
      BY <1>3, <2>1, <2>2
    <2> QED  BY <2>1, <2>3
  <1>6. ASSUME worker' = [worker EXCEPT ![w].pc = p, ![w].h = session]
        PROVE  WorkerAt(w, p, session, worker[w].code)
    <2> DEFINE e == [worker[w] EXCEPT !.pc = p, !.h = session]
    <2>1. e \in Workers /\ e.pc = p /\ e.h = session /\ e.code = worker[w].code
      BY <1>1, <1>2 DEF Workers, PCs
    <2>2. worker' = [worker EXCEPT ![w] = e]
      BY <1>6
    <2> HIDE DEF e
    <2>3. WorkerAt(w, e.pc, e.h, e.code)
      BY <1>3, <2>1, <2>2
    <2> QED  BY <2>1, <2>3
  <1>7. UNCHANGED worker => WorkerAt(w, worker[w].pc, worker[w].h, worker[w].code)
    BY <1>1 DEF WorkerAt
  <1> QED  BY <1>4, <1>5, <1>6, <1>7


-----------------------------------------------------------------------------
(* The type invariant.                                                     *)

\* Every step keeps the flags.
LEMMA FlagsKept ==
    ASSUME TypeOK, Next
    PROVE  FlagTypes'
  <1>1. FlagTypes
    BY TypeParts
  <1> USE <1>1 DEF FlagTypes
  <1>2. CASE startTunnel
    BY <1>2 DEF startTunnel, obsVars
  <1>3. CASE stopTunnel
    BY <1>3 DEF stopTunnel, obsVars
  <1>4. CASE stopTunnelTake
    BY <1>4 DEF stopTunnelTake, obsVars
  <1>5. CASE StageBlock \/ ReadyBlock \/ FailBlock \/ TimerBlock
    BY <1>5 DEF StageBlock, ReadyBlock, FailBlock, TimerBlock, RunsBlock, obsVars
  <1>6. CASE BeginBlock \/ StopDoneBlock
    BY <1>6 DEF BeginBlock, StopDoneBlock, RunsBlock, obsVars
  <1>7. CASE TimerDue
    BY <1>7 DEF TimerDue, propVars, obsVars
  <1>8. CASE SettingsDone
    BY <1>8 DEF SettingsDone
  <1>9. CASE TeardownRead
    BY <1>9 DEF TeardownRead, LoopAfterTeardown, obsVars
  <1>10. CASE TeardownClear
    BY <1>10 DEF TeardownClear, obsVars
  <1>11. CASE WaitEnds \/ WaitLapses
    BY <1>11 DEF WaitEnds, WaitLapses, FreesSession, propVars, obsVars
  <1>12. ASSUME NEW w \in DOMAIN worker, WorkerStep(w) \/ Outcome(w)
         PROVE  FlagTypes'
    BY <1>12 DEF WorkerStep, Outcome, WorkerEnter, WorkerOpen, WorkerResolve, WorkerReport,
        WorkerRun, RunCalls, RunReady, RunFails, RunStopped, workerOnly, propVars, obsVars
  <1>13. CASE PacketsRead \/ PacketsWritten
    BY <1>13 DEF PacketsRead, PacketsWritten, propVars, obsVars
  <1> QED
    BY <1>2, <1>3, <1>4, <1>5, <1>6, <1>7, <1>8, <1>9, <1>10, <1>11, <1>12, <1>13
    DEF Next, MainBlock, GlobalStep

\* Every step keeps the stage, the error code and what was answered.
LEMMA NamesKept ==
    ASSUME TypeOK, Next
    PROVE  NameTypes'
  <1>1. NameTypes /\ QueueTypes
    BY TypeParts
  <1> USE <1>1 DEF NameTypes
  <1>2. CASE startTunnel
    BY <1>2 DEF startTunnel, Stages, reportVars
  <1>3. CASE stopTunnel
    BY <1>3 DEF stopTunnel, Stages
  <1>4. CASE stopTunnelTake
    BY <1>4 DEF stopTunnelTake, Uses, reportVars
  <1>5. CASE StageBlock \/ ReadyBlock \/ TimerBlock
    BY <1>5 DEF StageBlock, ReadyBlock, TimerBlock, Stages, reportVars
  <1>6. CASE FailBlock
    <2>1. Head(mainq) \in Blocks /\ Head(mainq).k = "fail"
      BY <1>6, HeadBlock DEF FailBlock
    <2>2. Head(mainq).code \in CodesOfFailure
      BY <2>1, BlockKinds
    <2> QED  BY <1>6, <2>2 DEF FailBlock, Stages, reportVars, completeStartWithError
  <1>7. CASE BeginBlock
    BY <1>7 DEF BeginBlock, beginSessionWithGeneration, Uses, Stages, reportVars
  <1>8. CASE StopDoneBlock
    BY <1>8 DEF StopDoneBlock, Stages, reportVars
  <1>9. CASE TimerDue
    BY <1>9 DEF TimerDue, propVars
  <1>10. CASE SettingsDone
    BY <1>10 DEF SettingsDone, Stages, reportVars, completeStartWithError
  <1>11. CASE TeardownRead \/ TeardownClear
    BY <1>11 DEF TeardownRead, TeardownClear, Uses, reportVars
  <1>12. CASE WaitEnds \/ WaitLapses
    BY <1>12 DEF WaitEnds, WaitLapses, FreesSession, Uses, propVars
  <1>13. ASSUME NEW w \in DOMAIN worker, WorkerStep(w) \/ Outcome(w)
         PROVE  NameTypes'
    BY <1>13 DEF WorkerStep, Outcome, WorkerEnter, WorkerOpen, WorkerResolve, WorkerReport,
        WorkerRun, RunCalls, RunReady, RunFails, RunStopped, workerOnly, propVars, Uses
  <1>14. CASE PacketsRead \/ PacketsWritten
    BY <1>14 DEF PacketsRead, PacketsWritten, propVars, Uses
  <1> QED
    BY <1>2, <1>3, <1>4, <1>5, <1>6, <1>7, <1>8, <1>9, <1>10, <1>11, <1>12, <1>13, <1>14
    DEF Next, MainBlock, GlobalStep

\* A readPackets handler that holds a session is outstanding.
WriterReads == writer # 0 => reads > 0

\* Every step keeps the counters in their limits.
LEMMA NumbersKept ==
    ASSUME TypeOK, WriterReads, Next
    PROVE  NumberTypes' /\ WriterReads'
  <1>1. NumberTypes /\ QueueTypes
    BY TypeParts
  <1> DEFINE Cancels == [code : CodesOfFailure \cup {"none", "settings"},
                         attempt : 0 .. MaxReconnect]
  <1>2. /\ sessionGeneration \in Nat /\ reconnectAttempt \in 0 .. MaxReconnect
        /\ timers \subseteq Nat /\ settings \subseteq Nat
        /\ reads \in Nat /\ readies \in 0 .. MaxReady
        /\ cancel \in Cancels /\ MaxReconnect \in Nat /\ MaxReady \in Nat
        /\ writer # 0 => reads > 0
    BY <1>1, TunnelAssumption DEF NumberTypes, WriterReads
  <1> SUFFICES /\ sessionGeneration' \in Nat /\ reconnectAttempt' \in 0 .. MaxReconnect
               /\ timers' \subseteq Nat /\ settings' \subseteq Nat
               /\ reads' \in Nat /\ readies' \in 0 .. MaxReady
               /\ cancel' \in Cancels
               /\ writer' # 0 => reads' > 0
    BY DEF NumberTypes, WriterReads
  <1> HIDE DEF Cancels
  <1>3. CASE startTunnel
    BY <1>2, <1>3 DEF startTunnel, flowVars, obsVars
  <1>4. CASE stopTunnel
    BY <1>2, <1>4 DEF stopTunnel, flowVars, obsVars, StopGeneration
  <1>5. CASE stopTunnelTake
    BY <1>2, <1>5 DEF stopTunnelTake, flowVars, obsVars
  <1>6. CASE StageBlock \/ BeginBlock \/ StopDoneBlock
    BY <1>2, <1>6 DEF StageBlock, BeginBlock, StopDoneBlock, RunsBlock, flowVars, obsVars
  <1>7. CASE ReadyBlock
    <2>1. /\ UNCHANGED <<sessionGeneration, timers, reads, readies, cancel, writer>>
          /\ reconnectAttempt' \in {0, reconnectAttempt}
          /\ settings' \in {settings, settings \cup {sessionGeneration}}
      BY <1>7 DEF ReadyBlock, RunsBlock, flowVars, obsVars
    <2> QED  BY <1>2, <2>1
  <1>8. CASE FailBlock
    <2>1. Head(mainq) \in Blocks /\ Head(mainq).k = "fail"
      BY <1>1, <1>8, HeadBlock DEF FailBlock
    <2>2. Head(mainq).code \in CodesOfFailure /\ Head(mainq).gen \in Nat
      BY <2>1, BlockKinds
    <2>3. [code |-> Head(mainq).code, attempt |-> reconnectAttempt] \in Cancels
      BY <1>2, <2>2 DEF Cancels
    <2>4. /\ UNCHANGED <<sessionGeneration, settings, reads, readies, writer>>
          /\ timers' \in {timers, timers \cup {Head(mainq).gen}}
      BY <1>8 DEF FailBlock, RunsBlock, flowVars
    <2>5. \/ reconnectAttempt' = reconnectAttempt
          \/ reconnectAttempt < MaxReconnect /\ reconnectAttempt' = reconnectAttempt + 1
      BY <1>8 DEF FailBlock, canReconnect
    <2>6. cancel' \in {cancel, [code |-> Head(mainq).code, attempt |-> reconnectAttempt]}
      BY <1>8 DEF FailBlock
    <2>7. reconnectAttempt' \in 0 .. MaxReconnect
      BY <1>2, <2>5
    <2> QED  BY <1>2, <2>2, <2>3, <2>4, <2>6, <2>7
  <1>9. CASE TimerDue
    BY <1>2, <1>9 DEF TimerDue, propVars, flowVars, obsVars
  <1>10. CASE TimerBlock
    BY <1>2, <1>10 DEF TimerBlock, RunsBlock, flowVars, obsVars
  <1>11. CASE SettingsDone
    <2>1. [code |-> "settings", attempt |-> reconnectAttempt] \in Cancels
      BY <1>2 DEF Cancels
    <2>2. /\ sessionGeneration' = sessionGeneration /\ reconnectAttempt' = reconnectAttempt
          /\ timers' = timers /\ settings' \subseteq settings /\ writer' = writer
          /\ readies' = readies
      BY <1>11 DEF SettingsDone
    <2>3. reads' = reads \/ reads' = reads + 1
      BY <1>11 DEF SettingsDone
    <2>4. cancel' \in Cancels
      BY <1>2, <1>11, <2>1 DEF SettingsDone
    <2> QED  BY <1>2, <2>2, <2>3, <2>4
  <1>12. CASE TeardownRead \/ TeardownClear
    BY <1>2, <1>12 DEF TeardownRead, TeardownClear, flowVars, obsVars
  <1>13. CASE WaitEnds \/ WaitLapses
    BY <1>2, <1>13 DEF WaitEnds, WaitLapses, FreesSession, propVars, flowVars, obsVars
  <1>14. ASSUME NEW w \in DOMAIN worker, WorkerStep(w) \/ Outcome(w)
         PROVE  /\ UNCHANGED workerOnly
                /\ readies' = readies \/ (readies < MaxReady /\ readies' = readies + 1)
    BY <1>14 DEF WorkerStep, Outcome, WorkerEnter, WorkerOpen, WorkerResolve, WorkerReport,
        WorkerRun, RunCalls, RunReady, RunFails, RunStopped
  <1>15. CASE \E w \in DOMAIN worker : WorkerStep(w) \/ Outcome(w)
    <2>1. /\ UNCHANGED workerOnly
          /\ readies' = readies \/ (readies < MaxReady /\ readies' = readies + 1)
      BY <1>14, <1>15
    <2>2. UNCHANGED <<sessionGeneration, reconnectAttempt, timers, settings, reads, cancel,
                      writer>>
      BY <2>1 DEF workerOnly, propVars, flowVars, obsVars
    <2>3. readies' \in 0 .. MaxReady
      BY <1>2, <2>1
    <2> QED  BY <1>2, <2>2, <2>3
  <1>16. CASE PacketsRead
    BY <1>2, <1>16 DEF PacketsRead, propVars, obsVars
  <1>17. CASE PacketsWritten
    BY <1>2, <1>17 DEF PacketsWritten, propVars, obsVars
  <1> QED
    BY <1>3, <1>4, <1>5, <1>6, <1>7, <1>8, <1>9, <1>10, <1>11, <1>12, <1>13, <1>15, <1>16, <1>17
    DEF Next, MainBlock, GlobalStep

\* Every step keeps the main queue a queue of blocks.
LEMMA QueueKept ==
    ASSUME TypeOK, Next
    PROVE  QueueTypes'
  <1>1. mainq \in Seq(Blocks) /\ QueueTypes /\ sessionGeneration \in Nat
        /\ timers \subseteq Nat /\ TaskTypes
    BY TypeParts DEF NumberTypes, QueueTypes
  <1> SUFFICES mainq' \in Seq(Blocks)
    BY DEF QueueTypes
  <1>2. CASE startTunnel \/ stopTunnel \/ stopTunnelTake \/ SettingsDone
    BY <1>1, <1>2 DEF startTunnel, stopTunnel, stopTunnelTake, SettingsDone
  <1>3. ASSUME NEW k, RunsBlock(k)
        PROVE  mainq' \in Seq(Blocks)
    BY <1>1, <1>3, HeadBlock
  <1>4. CASE MainBlock
    BY <1>3, <1>4 DEF MainBlock, StageBlock, ReadyBlock, FailBlock, TimerBlock, BeginBlock,
        StopDoneBlock
  <1>5. CASE TimerDue
    <2>1. PICK g \in timers : mainq' = Append(mainq, [k |-> "timer", gen |-> g])
      BY <1>5 DEF TimerDue
    <2> QED  BY <1>1, <2>1, NewBlocks, AppendProperties
  <1>6. CASE TeardownRead \/ TeardownClear
    BY <1>1, <1>6 DEF TeardownRead, TeardownClear
  <1>7. CASE WaitEnds \/ WaitLapses
    <2>1. PICK t \in tasks : FreesSession(t)
      BY <1>7 DEF WaitEnds, WaitLapses
    <2>2. t.gen \in Nat
      BY <1>1 DEF TaskTypes, Tasks
    <2> QED  BY <1>1, <2>1, <2>2, NewBlocks, AppendProperties DEF FreesSession
  <1>8. ASSUME NEW w \in DOMAIN worker, WorkerStep(w) \/ Outcome(w)
        PROVE  mainq' \in Seq(Blocks)
    <2>1. \A c \in CodesOfFailure : Fail(c) \in Blocks
      BY <1>1, NewBlocks DEF Fail
    <2>2. "transient" \in CodesOfFailure
      BY DEF CodesOfFailure
    <2>3. CASE mainq' = mainq
      BY <1>1, <2>3
    <2>4. CASE \E c \in CodesOfFailure : mainq' = Append(mainq, Fail(c))
      BY <1>1, <2>1, <2>4, AppendProperties
    <2>5. CASE mainq' = Append(mainq, [k |-> "stage"])
      BY <1>1, <2>5, NewBlocks, AppendProperties
    <2>6. CASE RunReady(w)
      <3> DEFINE a == [k |-> "stage"]  b == [k |-> "ready", gen |-> sessionGeneration]
      <3>0. a \in Blocks /\ b \in Blocks
        BY <1>1, NewBlocks
      <3>1. <<a, b>> \in Seq(Blocks)
        <4> HIDE DEF a, b
        <4> QED  BY <3>0
      <3> QED  BY <1>1, <2>6, <3>1, ConcatProperties DEF RunReady
    <2> QED
      BY <1>8, <2>2, <2>3, <2>4, <2>5, <2>6
      DEF WorkerStep, Outcome, WorkerEnter, WorkerOpen, WorkerResolve, WorkerReport,
        WorkerRun, RunCalls, RunFails, RunStopped, FailsWith
  <1>9. CASE PacketsRead \/ PacketsWritten
    BY <1>1, <1>9 DEF PacketsRead, PacketsWritten
  <1> QED
    BY <1>2, <1>4, <1>5, <1>6, <1>7, <1>8, <1>9 DEF Next, GlobalStep


\* The sessions and workers are those there were, up to their fields.
Steady ==
    /\ SameCells(mem, mem') /\ worker' \in Seq(Workers)
    /\ Len(worker') = Len(worker) /\ DOMAIN worker' = DOMAIN worker
    /\ session' \in {0, session} /\ workerThread' \in {0, workerThread}
    /\ stopping' \in {stopping, NotStopping, [busy |-> TRUE, s |-> session]}
    /\ writer' \in {0, writer, session}

\* A heap in shape stays in shape.
LEMMA SteadyHeap ==
    ASSUME HeapTypes, Steady
    PROVE  HeapTypes' /\ Len(mem') = Len(mem)
  <1>1. /\ mem \in Seq(Cells) /\ worker \in Seq(Workers) /\ Len(mem) = Len(worker)
        /\ session \in 0 .. Len(mem) /\ workerThread \in 0 .. Len(worker)
        /\ writer \in 0 .. Len(mem) /\ Len(mem) \in Nat
    BY LenProperties DEF HeapTypes
  <1>2. /\ mem' \in Seq(Cells) /\ worker' \in Seq(Workers) /\ Len(mem') = Len(mem)
        /\ Len(worker') = Len(worker)
        /\ session' \in {0, session} /\ workerThread' \in {0, workerThread}
        /\ writer' \in {0, writer, session}
    BY DEF Steady, SameCells
  <1>3. /\ session' \in 0 .. Len(mem') /\ workerThread' \in 0 .. Len(worker')
        /\ writer' \in 0 .. Len(mem')
    BY <1>1, <1>2
  <1>4. stopping' \in [busy : BOOLEAN, s : 0 .. Len(mem)]
    <2> DEFINE S == [busy : BOOLEAN, s : 0 .. Len(mem)]
    <2>1. stopping \in S
      BY DEF HeapTypes
    <2>2. NotStopping \in S
      BY <1>1 DEF NotStopping
    <2>3. [busy |-> TRUE, s |-> session] \in S
      BY <1>1
    <2> HIDE DEF S
    <2> QED  BY <2>1, <2>2, <2>3 DEF Steady, S
  <1> QED  BY <1>1, <1>2, <1>3, <1>4 DEF HeapTypes

\* Worker steps keep the heap in shape, and touch nothing of the provider.
LEMMA WorkerSteady ==
    ASSUME TypeOK, NEW w \in DOMAIN worker, WorkerStep(w) \/ Outcome(w)
    PROVE  Steady /\ WorkerTypes' /\ UNCHANGED workerOnly
  <1>1. HeapTypes /\ WorkerTypes
    BY TypeParts
  <1>2. /\ mem \in Seq(Cells) /\ Len(mem) \in Nat /\ DOMAIN mem = 1 .. Len(mem)
        /\ session \in 0 .. Len(mem)
    BY <1>1, LenProperties DEF HeapTypes
  <1>3. worker[w].h \in Nat /\ worker[w].h <= Len(mem) /\ worker[w].pc \in PCs
    BY <1>1, WorkerFields DEF WorkerTypes
  <1>4. UNCHANGED workerOnly
    BY DEF WorkerStep, Outcome, WorkerEnter, WorkerOpen, WorkerResolve, WorkerReport,
        WorkerRun, RunCalls, RunReady, RunFails, RunStopped
  <1>5. UNCHANGED <<session, workerThread, stopping, writer>>
    BY <1>4 DEF workerOnly, propVars, flowVars
  <1>6. /\ worker[w].pc \in {"starting", "resolving", "running", "calling", "up"} => worker[w].h # 0
        /\ "transient" \in CodesOfFailure
    BY <1>1 DEF WorkerTypes, CodesOfFailure
  <1>7. ASSUME NEW p \in PCs, NEW h \in Nat, NEW c, WorkerAt(w, p, h, c), h <= Len(mem),
               p \in {"starting", "resolving", "running", "calling", "up"} => h # 0,
               SameCells(mem, mem')
        PROVE  Steady /\ WorkerTypes'
    <2>1. Steady
      BY <1>5, <1>7 DEF Steady, WorkerAt
    <2>2. WorkerTypes'
      BY <1>1, <1>7 DEF WorkerAt, WorkerTypes, SameCells
    <2> QED  BY <2>1, <2>2
  <1>8. UNCHANGED mem => SameCells(mem, mem')
    BY <1>2 DEF SameCells
  <1> USE DEF PCs
  <1>9. CASE WorkerEnter(w)
    <2>1. UNCHANGED mem
      BY <1>9 DEF WorkerEnter
    <2>2. \/ WorkerAt(w, "done", worker[w].h, "transient")
          \/ session # 0 /\ WorkerAt(w, "starting", session, worker[w].code)
      BY <1>1, <1>6, <1>9, WorkerMoves DEF WorkerEnter
    <2>3. SameCells(mem, mem') /\ session \in Nat /\ session <= Len(mem)
      BY <1>2, <1>8, <2>1
    <2>4. CASE WorkerAt(w, "done", worker[w].h, "transient")
      BY <1>3, <1>4, <1>7, <2>3, <2>4
    <2>5. CASE session # 0 /\ WorkerAt(w, "starting", session, worker[w].code)
      BY <1>4, <1>7, <2>3, <2>5
    <2> QED  BY <2>2, <2>4, <2>5
  <1>10. CASE WorkerOpen(w)
    <2>1. worker[w].h \in DOMAIN mem
      BY <1>2, <1>3, <1>6, <1>10 DEF WorkerOpen
    <2>2. SameCells(mem, mem')
      <3>1. mem' = [mem EXCEPT ![worker[w].h].pipes = TRUE] \/ UNCHANGED mem
        BY <1>10 DEF WorkerOpen
      <3>2. SameCells(mem, [mem EXCEPT ![worker[w].h].pipes = TRUE])
        BY <1>2, <2>1, PipeCells
      <3> QED  BY <1>8, <3>1, <3>2
    <2>3. \/ WorkerAt(w, "failed", worker[w].h, "transient")
          \/ WorkerAt(w, "resolving", worker[w].h, worker[w].code)
      BY <1>1, <1>6, <1>10, WorkerMoves DEF WorkerOpen
    <2>4. worker[w].h # 0
      BY <1>6, <1>10 DEF WorkerOpen
    <2>5. CASE WorkerAt(w, "failed", worker[w].h, "transient")
      BY <1>3, <1>4, <1>7, <2>2, <2>5
    <2>6. CASE WorkerAt(w, "resolving", worker[w].h, worker[w].code)
      BY <1>3, <1>4, <1>7, <2>2, <2>4, <2>6
    <2> QED  BY <2>3, <2>5, <2>6
  <1>11. CASE WorkerResolve(w)
    <2>1. \/ WorkerAt(w, "failed", worker[w].h, "transient")
          \/ WorkerAt(w, "started", worker[w].h, worker[w].code)
      BY <1>1, <1>6, <1>11, WorkerMoves DEF WorkerResolve
    <2> QED  BY <1>3, <1>7, <1>8, <1>11, <2>1 DEF WorkerResolve
  <1>12. CASE WorkerReport(w)
    <2>1. WorkerAt(w, "done", worker[w].h, "transient")
      BY <1>1, <1>6, <1>12, WorkerMoves DEF WorkerReport
    <2> QED  BY <1>3, <1>7, <1>8, <1>12, <2>1 DEF WorkerReport
  <1>13. CASE WorkerRun(w)
    <2>1. \/ session # 0 /\ WorkerAt(w, "running", session, worker[w].code)
          \/ WorkerAt(w, "done", worker[w].h, worker[w].code)
      BY <1>1, <1>13, WorkerMoves DEF WorkerRun, Goes
    <2> QED  BY <1>2, <1>3, <1>7, <1>8, <1>13, <2>1 DEF WorkerRun
  <1>14. CASE RunReady(w)
    <2>1. WorkerAt(w, "up", worker[w].h, worker[w].code) /\ worker[w].h # 0
      BY <1>1, <1>6, <1>14, WorkerMoves DEF RunReady
    <2> QED  BY <1>3, <1>7, <1>8, <1>14, <2>1 DEF RunReady
  <1>14a. CASE RunCalls(w)
    <2>1. WorkerAt(w, "calling", worker[w].h, worker[w].code) /\ worker[w].h # 0
      BY <1>1, <1>6, <1>14a, WorkerMoves DEF RunCalls
    <2> QED  BY <1>3, <1>7, <1>8, <1>14a, <2>1 DEF RunCalls
  <1>15. CASE RunFails(w)
    <2>1. \E c \in CodesOfFailure : WorkerAt(w, "done", worker[w].h, c)
      BY <1>1, <1>15, WorkerMoves DEF RunFails
    <2> QED  BY <1>3, <1>7, <1>8, <1>15, <2>1 DEF RunFails
  <1>16. CASE RunStopped(w)
    <2>1. WorkerAt(w, "done", worker[w].h, worker[w].code)
      BY <1>1, <1>16, WorkerMoves DEF RunStopped
    <2> QED  BY <1>3, <1>7, <1>8, <1>16, <2>1 DEF RunStopped
  <1> QED
    BY <1>4, <1>9, <1>10, <1>11, <1>12, <1>13, <1>14, <1>14a, <1>15, <1>16
    DEF WorkerStep, Outcome


NewWorker == [pc |-> "new", h |-> 0, code |-> "none"]
NewSession == [freed |-> FALSE, pipes |-> FALSE, stop |-> FALSE]

\* A session and its worker are added; the last session may be freed first.
Begins ==
    /\ mem' \in Seq(Cells) /\ worker' \in Seq(Workers)
    /\ Len(mem') = Len(mem) + 1 /\ Len(worker') = Len(worker) + 1
    /\ DOMAIN worker' = 1 .. (Len(worker) + 1)
    /\ \A w \in DOMAIN worker : w \in DOMAIN worker' /\ worker'[w] = worker[w]
    /\ worker'[Len(worker) + 1] = NewWorker
    /\ session' = Len(mem) + 1 /\ workerThread' = Len(mem) + 1
    /\ UNCHANGED <<stopping, writer>>

\* A heap with a new session is in shape.
LEMMA BeginsHeap ==
    ASSUME HeapTypes, WorkerTypes, Begins
    PROVE  HeapTypes' /\ WorkerTypes' /\ Len(mem) <= Len(mem')
  <1>1. /\ Len(mem) = Len(worker) /\ Len(mem) \in Nat /\ DOMAIN worker = 1 .. Len(worker)
        /\ stopping \in [busy : BOOLEAN, s : 0 .. Len(mem)] /\ writer \in 0 .. Len(mem)
    BY LenProperties DEF HeapTypes
  <1>2. /\ stopping' \in [busy : BOOLEAN, s : 0 .. Len(mem')]
    <2>1. 0 .. Len(mem) \subseteq 0 .. Len(mem')
      BY <1>1 DEF Begins
    <2> QED  BY <1>1, <2>1 DEF Begins
  <1>3. /\ session' \in 0 .. Len(mem') /\ workerThread' \in 0 .. Len(worker')
        /\ writer' \in 0 .. Len(mem') /\ Len(mem') = Len(worker') /\ Len(mem) <= Len(mem')
    BY <1>1 DEF Begins
  <1>4. ASSUME NEW w \in DOMAIN worker'
        PROVE  /\ worker'[w].h <= Len(mem')
               /\ worker'[w].pc \in {"starting", "resolving", "running", "calling", "up"} =>
                      worker'[w].h # 0
    <2>1. CASE w \in DOMAIN worker
      <3>1. worker'[w] = worker[w] /\ worker[w].h <= Len(mem) /\ worker[w].h \in Nat
        BY <2>1, WorkerFields DEF Begins, WorkerTypes
      <3>2. worker'[w].h <= Len(mem')
        BY <1>1, <3>1 DEF Begins
      <3>3. worker[w].pc \in {"starting", "resolving", "running", "calling", "up"} => worker[w].h # 0
        BY <2>1 DEF WorkerTypes
      <3> QED  BY <3>1, <3>2, <3>3
    <2>2. CASE w = Len(worker) + 1
      BY <1>1, <2>2 DEF Begins, NewWorker
    <2>3. w \in DOMAIN worker \/ w = Len(worker) + 1
      BY <1>1 DEF Begins
    <2> QED  BY <2>1, <2>2, <2>3
  <1> QED  BY <1>2, <1>3, <1>4 DEF HeapTypes, WorkerTypes, Begins

\* A new session and a new worker are what they should be.
LEMMA NewCells ==
    NewSession \in Cells /\ NewWorker \in Workers
  BY DEF NewSession, NewWorker, Cells, Workers

\* beginSessionWithGeneration does nothing, or begins a session.
LEMMA BeginHeap ==
    ASSUME HeapTypes, BeginBlock
    PROVE  \/ UNCHANGED <<session, workerThread, worker, mem, uaf, stopping, writer>>
           \/ Begins /\ ~userStopRequested /\ sessionGeneration = Head(mainq).gen
  <1>1. UNCHANGED <<stopping, writer>>
    BY DEF BeginBlock, RunsBlock, flowVars
  <1>2. CASE userStopRequested \/ sessionGeneration # Head(mainq).gen
    BY <1>1, <1>2 DEF BeginBlock, beginSessionWithGeneration
  <1>3. CASE ~(userStopRequested \/ sessionGeneration # Head(mainq).gen)
    <2> DEFINE m == sstp_ios_session_free(sstp_ios_session_stop(mem, session), session)
    <2>1. /\ mem' = Append(m, NewSession) /\ worker' = Append(worker, NewWorker)
          /\ session' = Len(mem) + 1 /\ workerThread' = Len(mem) + 1
      BY <1>3 DEF BeginBlock, beginSessionWithGeneration, NewSession, NewWorker
    <2>2. mem \in Seq(Cells) /\ session \in 0 .. Len(mem) /\ worker \in Seq(Workers)
      BY DEF HeapTypes
    <2>3. SameCells(mem, sstp_ios_session_stop(mem, session))
      BY <2>2, StopCells
    <2>4. SameCells(sstp_ios_session_stop(mem, session), m)
      BY <2>2, <2>3, FreeCells DEF SameCells
    <2>5. m \in Seq(Cells) /\ Len(m) = Len(mem)
      BY <2>3, <2>4 DEF SameCells
    <2> HIDE DEF m
    <2>6. mem' \in Seq(Cells) /\ Len(mem') = Len(mem) + 1
      BY <2>1, <2>5, NewCells, AppendProperties
    <2>7. Begins
      BY <1>1, <2>1, <2>2, <2>6, NewCells, AppendSeq DEF Begins
    <2> QED  BY <1>3, <2>7
  <1> QED  BY <1>2, <1>3

\* startTunnel with credentials begins the first session.
LEMMA StartHeap ==
    ASSUME HeapTypes, startTunnel, mem = << >>
    PROVE  \/ UNCHANGED <<session, workerThread, worker, mem, uaf, stopping, writer>>
           \/ Begins
  <1>1. UNCHANGED <<stopping, writer>>
    BY DEF startTunnel, flowVars
  <1>2. CASE sessionGeneration' = 1
    <2>1. Len(mem) = 0 /\ Len(worker) = 0 /\ worker = << >>
      BY EmptySeq DEF HeapTypes
    <2>2. mem' = Append(mem, NewSession) /\ worker' = Append(worker, NewWorker)
          /\ session' = 1 /\ workerThread' = 1
      BY <1>2, <2>1 DEF startTunnel, NewSession, NewWorker
    <2>3. mem \in Seq(Cells) /\ worker \in Seq(Workers)
      BY DEF HeapTypes
    <2>4. mem' \in Seq(Cells) /\ Len(mem') = Len(mem) + 1
      BY <2>2, <2>3, NewCells, AppendProperties
    <2>5. Begins
      BY <1>1, <2>1, <2>2, <2>3, <2>4, NewCells, AppendSeq DEF Begins
    <2> QED  BY <2>5
  <1>3. CASE sessionGeneration' # 1
    BY <1>1, <1>3 DEF startTunnel
  <1> QED  BY <1>2, <1>3


\* Before the tunnel is started nothing has happened but a refused start.
Fresh ==
    sessionGeneration = 0 =>
        /\ mem = << >> /\ worker = << >> /\ tasks = {} /\ mainq = << >>
        /\ stopping = NotStopping /\ timers = {} /\ settings = {}
        /\ session = 0 /\ writer = 0 /\ reads = 0
        /\ ~userStopRequested /\ ~packetLoopRunning /\ ~stopped
        /\ cancel.code = None /\ answered # "ok"
        /\ answered = "no" => lastErrorCode = None

\* Nothing but startTunnel ends the state before the start.
LEMMA FreshKept ==
    ASSUME TypeOK, Fresh, Next
    PROVE  Fresh'
  <1>1. sessionGeneration \in Nat
    BY TypeParts DEF NumberTypes
  <1>2. CASE sessionGeneration # 0
    <2>1. \/ sessionGeneration' = sessionGeneration
          \/ sessionGeneration' = sessionGeneration + 1
          \/ sessionGeneration' = 1
      <3>1. CASE startTunnel \/ stopTunnel \/ stopTunnelTake \/ TimerDue \/ SettingsDone
        BY <3>1 DEF startTunnel, stopTunnel, stopTunnelTake, TimerDue, SettingsDone, propVars,
            StopGeneration
      <3>2. CASE MainBlock
        BY <3>2 DEF MainBlock, StageBlock, ReadyBlock, FailBlock, TimerBlock, BeginBlock,
            StopDoneBlock
      <3>3. CASE GlobalStep \/ WaitEnds \/ WaitLapses \/ PacketsRead \/ PacketsWritten
        BY <3>3 DEF GlobalStep, TeardownRead, TeardownClear, WaitEnds, WaitLapses,
            FreesSession, PacketsRead, PacketsWritten, propVars
      <3>4. CASE \E w \in DOMAIN worker : WorkerStep(w) \/ Outcome(w)
        BY <3>4, WorkerSteady DEF workerOnly, propVars
      <3> QED  BY <3>1, <3>2, <3>3, <3>4 DEF Next
    <2>2. sessionGeneration' # 0
      BY <1>1, <1>2, <2>1
    <2> QED  BY <2>2 DEF Fresh
  <1>3. CASE sessionGeneration = 0
    <2>1. /\ mem = << >> /\ worker = << >> /\ tasks = {} /\ mainq = << >>
          /\ stopping = NotStopping /\ timers = {} /\ settings = {}
          /\ writer = 0 /\ reads = 0 /\ DOMAIN worker = {} /\ ~stopping.busy
      BY <1>3 DEF Fresh, NotStopping
    <2>2. ~MainBlock
      BY <2>1 DEF MainBlock, StageBlock, ReadyBlock, FailBlock, TimerBlock, BeginBlock,
          StopDoneBlock, RunsBlock
    <2>3. ~(stopTunnel \/ stopTunnelTake \/ SettingsDone \/ TimerDue)
      BY <1>3, <2>1 DEF stopTunnel, stopTunnelTake, SettingsDone, TimerDue
    <2>4. ~(GlobalStep \/ WaitEnds \/ WaitLapses \/ PacketsRead \/ PacketsWritten)
      BY <2>1 DEF GlobalStep, TeardownRead, TeardownClear, WaitEnds, WaitLapses, PacketsRead,
          PacketsWritten
    <2>5. startTunnel
      BY <2>1, <2>2, <2>3, <2>4 DEF Next
    <2>6. CASE sessionGeneration' = 1
      BY <2>6 DEF Fresh
    <2>7. CASE sessionGeneration' # 1
      <3>1. /\ UNCHANGED <<mem, worker, tasks, mainq, stopping, timers, settings, session,
                           writer, reads, userStopRequested, packetLoopRunning, stopped,
                           cancel>>
            /\ answered' = "error"
        BY <2>5, <2>7 DEF startTunnel, flowVars, obsVars
      <3> QED  BY <1>3, <3>1 DEF Fresh
    <2> QED  BY <2>6, <2>7
  <1> QED  BY <1>2, <1>3

\* Every step keeps the sessions and the workers in shape.
LEMMA HeapKept ==
    ASSUME TypeOK, Fresh, Next
    PROVE  HeapTypes' /\ WorkerTypes' /\ Len(mem) <= Len(mem')
  <1>1. HeapTypes /\ WorkerTypes /\ TaskTypes
    BY TypeParts
  <1>2. /\ mem \in Seq(Cells) /\ worker \in Seq(Workers) /\ Len(mem) \in Nat
        /\ SameCells(mem, mem) /\ stopping.s \in 0 .. Len(mem)
    BY <1>1, LenProperties DEF HeapTypes, SameCells
  <1>3. ASSUME Steady, UNCHANGED worker
        PROVE  HeapTypes' /\ WorkerTypes' /\ Len(mem) <= Len(mem')
    <2>1. HeapTypes' /\ Len(mem') = Len(mem)
      BY <1>1, <1>3, SteadyHeap
    <2>2. WorkerTypes'
      BY <1>1, <1>3, <2>1 DEF WorkerTypes
    <2> QED  BY <1>2, <2>1, <2>2
  <1>4. ASSUME UNCHANGED <<session, workerThread, worker, mem, stopping, writer>>
        PROVE  HeapTypes' /\ WorkerTypes' /\ Len(mem) <= Len(mem')
    BY <1>2, <1>3, <1>4 DEF Steady
  <1>5. CASE startTunnel
    <2>1. mem = << >>
      BY <1>5 DEF startTunnel, Fresh
    <2> QED  BY <1>1, <1>4, <1>5, <2>1, StartHeap, BeginsHeap
  <1>6. CASE stopTunnel
    <2>1. Steady /\ UNCHANGED worker
      BY <1>2, <1>6 DEF stopTunnel, Steady, flowVars
    <2> QED  BY <1>3, <2>1
  <1>7. CASE stopTunnelTake
    <2>1. SameCells(mem, mem')
      BY <1>2, <1>7, StopCells DEF stopTunnelTake
    <2>2. Steady /\ UNCHANGED worker
      BY <1>2, <1>7, <2>1 DEF stopTunnelTake, Steady, flowVars
    <2> QED  BY <1>3, <2>2
  <1>8. CASE StageBlock \/ ReadyBlock \/ FailBlock \/ TimerBlock \/ StopDoneBlock
    BY <1>4, <1>8 DEF StageBlock, ReadyBlock, FailBlock, TimerBlock, StopDoneBlock,
        RunsBlock, flowVars
  <1>9. CASE BeginBlock
    BY <1>1, <1>4, <1>9, BeginHeap, BeginsHeap
  <1>10. CASE TimerDue \/ SettingsDone \/ TeardownRead
    BY <1>4, <1>10 DEF TimerDue, SettingsDone, TeardownRead, propVars, flowVars
  <1>11. CASE TeardownClear
    <2>1. PICK t \in tasks : /\ mem' = sstp_ios_session_stop(mem, t.s)
                             /\ session' = 0 /\ workerThread' = 0
      BY <1>11 DEF TeardownClear
    <2>2. t.s \in 0 .. Len(mem)
      BY <1>1, <1>2 DEF TaskTypes, Tasks
    <2>3. SameCells(mem, mem')
      BY <1>2, <2>1, <2>2, StopCells
    <2>4. UNCHANGED <<worker, stopping, writer>>
      BY <1>11 DEF TeardownClear, flowVars
    <2>5. Steady
      BY <1>2, <2>1, <2>3, <2>4 DEF Steady
    <2> QED  BY <1>3, <2>4, <2>5
  <1>12. CASE WaitEnds \/ WaitLapses
    <2>1. PICK t \in tasks : FreesSession(t)
      BY <1>12 DEF WaitEnds, WaitLapses
    <2>2. t.s \in 0 .. Len(mem)
      BY <1>1, <1>2 DEF TaskTypes, Tasks
    <2>3. SameCells(mem, mem')
      BY <1>2, <2>1, <2>2, FreeCells DEF FreesSession
    <2>4. Steady /\ UNCHANGED worker
      BY <1>2, <2>1, <2>3 DEF FreesSession, Steady, propVars, flowVars
    <2> QED  BY <1>3, <2>4
  <1>13. ASSUME NEW w \in DOMAIN worker, WorkerStep(w) \/ Outcome(w)
         PROVE  HeapTypes' /\ WorkerTypes' /\ Len(mem) <= Len(mem')
    <2>1. HeapTypes' /\ WorkerTypes' /\ Len(mem') = Len(mem)
      BY <1>1, <1>13, WorkerSteady, SteadyHeap
    <2> QED  BY <1>2, <2>1
  <1>14. CASE PacketsRead
    <2>1. Steady /\ UNCHANGED worker
      BY <1>2, <1>14 DEF PacketsRead, Steady, propVars
    <2> QED  BY <1>3, <2>1
  <1>15. CASE PacketsWritten
    <2>1. Steady /\ UNCHANGED worker
      BY <1>2, <1>15 DEF PacketsWritten, Steady, propVars
    <2> QED  BY <1>3, <2>1
  <1> QED
    BY <1>5, <1>6, <1>7, <1>8, <1>9, <1>10, <1>11, <1>12, <1>13, <1>14, <1>15
    DEF Next, MainBlock, GlobalStep


\* Every step keeps the teardowns in shape.
LEMMA TasksKept ==
    ASSUME TypeOK, Fresh, Next
    PROVE  TaskTypes'
  <1>1. HeapTypes /\ TaskTypes /\ sessionGeneration \in Nat
    BY TypeParts DEF NumberTypes
  <1>2. HeapTypes' /\ Len(mem) <= Len(mem')
    BY HeapKept
  <1>3. /\ Len(mem) \in Nat /\ Len(worker) = Len(mem) /\ Len(mem') \in Nat
        /\ Len(worker') = Len(mem') /\ session \in 0 .. Len(mem)
        /\ workerThread \in 0 .. Len(mem) /\ stopping.s \in 0 .. Len(mem)
    BY <1>1, <1>2, LenProperties DEF HeapTypes
  <1> DEFINE Fits(t) == t \in Tasks /\ t.s <= Len(mem) /\ t.w <= Len(mem)
  <1>4. \A t \in tasks : Fits(t)
    BY <1>1, <1>3 DEF TaskTypes
  <1>5. ASSUME \A t \in tasks' : Fits(t)
        PROVE  TaskTypes'
    <2> SUFFICES ASSUME NEW t \in tasks'
                 PROVE  t \in Tasks /\ t.s <= Len(mem') /\ t.w <= Len(worker')
      BY DEF TaskTypes
    <2>1. t \in Tasks /\ t.s <= Len(mem) /\ t.w <= Len(mem)
      BY <1>5
    <2>2. t.s \in Nat /\ t.w \in Nat
      BY <2>1 DEF Tasks
    <2> QED  BY <1>2, <1>3, <2>1, <2>2
  <1>6. ASSUME tasks' \subseteq tasks
        PROVE  TaskTypes'
    BY <1>4, <1>5, <1>6
  <1>7. CASE startTunnel \/ stopTunnel \/ SettingsDone \/ TimerDue \/ PacketsRead \/ PacketsWritten
    BY <1>6, <1>7 DEF startTunnel, stopTunnel, SettingsDone, TimerDue, PacketsRead, PacketsWritten
  <1>8. CASE stopTunnelTake
    <2> DEFINE n == [kind |-> "stop", gen |-> sessionGeneration, pc |-> "wait",
                     s |-> stopping.s, w |-> workerThread]
    <2>1. Fits(n)
      BY <1>1, <1>3 DEF Tasks
    <2>2. tasks' = tasks \cup {n}
      BY <1>8 DEF stopTunnelTake
    <2> HIDE DEF n, Fits
    <2> QED  BY <1>4, <1>5, <2>1, <2>2
  <1>9. CASE TimerBlock
    <2> DEFINE n == [kind |-> "teardown", pc |-> "read", gen |-> sessionGeneration + 1,
                     s |-> 0, w |-> 0]
    <2>1. Fits(n)
      BY <1>1, <1>3 DEF Tasks
    <2>2. tasks' = tasks \cup {n} \/ tasks' = tasks
      BY <1>9 DEF TimerBlock
    <2> HIDE DEF n, Fits
    <2> QED  BY <1>4, <1>5, <2>1, <2>2
  <1>10. CASE StageBlock \/ ReadyBlock \/ FailBlock \/ BeginBlock \/ StopDoneBlock
    BY <1>6, <1>10 DEF StageBlock, ReadyBlock, FailBlock, BeginBlock, StopDoneBlock
  <1>11. CASE TeardownRead
    <2>1. PICK t \in tasks : tasks' = (tasks \ {t}) \cup
              {[t EXCEPT !.pc = "clear", !.s = session, !.w = workerThread]}
      BY <1>11 DEF TeardownRead
    <2> DEFINE n == [t EXCEPT !.pc = "clear", !.s = session, !.w = workerThread]
    <2>2. Fits(n)
      <3>1. t \in Tasks
        BY <1>4
      <3>2. session \in Nat /\ workerThread \in Nat
        BY <1>3
      <3>3. n \in Tasks /\ n.s = session /\ n.w = workerThread
        BY <3>1, <3>2 DEF Tasks
      <3> QED  BY <1>3, <3>3
    <2> HIDE DEF n, Fits
    <2>3. \A x \in tasks' : x \in tasks \/ x = n
      BY <2>1 DEF n
    <2> QED  BY <1>4, <1>5, <2>2, <2>3
  <1>12. CASE TeardownClear
    <2>1. PICK t \in tasks : tasks' = (tasks \ {t}) \cup {[t EXCEPT !.pc = "wait"]}
      BY <1>12 DEF TeardownClear
    <2> DEFINE n == [t EXCEPT !.pc = "wait"]
    <2>2. Fits(n)
      <3>1. t \in Tasks /\ t.s <= Len(mem) /\ t.w <= Len(mem)
        BY <1>4
      <3>2. n \in Tasks /\ n.s = t.s /\ n.w = t.w
        BY <3>1 DEF Tasks
      <3> QED  BY <3>1, <3>2
    <2> HIDE DEF n, Fits
    <2>3. \A x \in tasks' : x \in tasks \/ x = n
      BY <2>1 DEF n
    <2> QED  BY <1>4, <1>5, <2>2, <2>3
  <1>13. CASE WaitEnds \/ WaitLapses
    BY <1>6, <1>13 DEF WaitEnds, WaitLapses, FreesSession
  <1>14. ASSUME NEW w \in DOMAIN worker, WorkerStep(w) \/ Outcome(w)
         PROVE  TaskTypes'
    BY <1>6, <1>14, WorkerSteady DEF workerOnly
  <1> QED
    BY <1>7, <1>8, <1>9, <1>10, <1>11, <1>12, <1>13, <1>14
    DEF Next, MainBlock, GlobalStep

-----------------------------------------------------------------------------
BaseInv == TypeOK /\ WriterReads /\ Fresh

\* The provider before the start.
LEMMA InitBase == Init => BaseInv
  <1> SUFFICES ASSUME Init
               PROVE  BaseInv
    OBVIOUS
  <1>1. FlagTypes
    BY DEF Init, FlagTypes
  <1>2. NameTypes
    BY DEF Init, NameTypes, Stages, CodesOfFailure
  <1>3. NumberTypes
    <2>1. 0 \in 0 .. MaxReconnect /\ 0 \in 0 .. MaxReady
      BY TunnelAssumption
    <2> QED  BY <2>1 DEF Init, NumberTypes
  <1>4. QueueTypes
    BY DEF Init, QueueTypes
  <1>5. HeapTypes /\ TaskTypes
    BY DEF Init, HeapTypes, NotStopping, TaskTypes
  <1>6. WorkerTypes
    BY DEF Init, WorkerTypes
  <1>7. Fresh /\ WriterReads
    BY DEF Init, Fresh, WriterReads, None
  <1> QED  BY <1>1, <1>2, <1>3, <1>4, <1>5, <1>6, <1>7, TypeParts DEF BaseInv

\* Every step keeps the base invariant.
LEMMA BaseKept ==
    ASSUME BaseInv, [Next]_vars
    PROVE  BaseInv'
  <1>1. CASE Next
    <2>1. /\ FlagTypes' /\ NameTypes' /\ NumberTypes' /\ QueueTypes' /\ HeapTypes'
          /\ TaskTypes' /\ WorkerTypes' /\ WriterReads' /\ Fresh'
      BY <1>1, FlagsKept, NamesKept, NumbersKept, QueueKept, HeapKept, TasksKept, FreshKept
      DEF BaseInv
    <2>2. TypeOK'
      BY <2>1 DEF TypeOK, FlagTypes, NameTypes, NumberTypes, QueueTypes, HeapTypes,
          TaskTypes, WorkerTypes
    <2> QED  BY <2>1, <2>2 DEF BaseInv
  <1>2. CASE UNCHANGED vars
    <2>1. /\ UNCHANGED <<session, workerThread, packetLoopRunning, userStopRequested,
                         sessionGeneration, currentStage, reconnectAttempt,
                         reconnectScheduled, lastErrorCode, answered>>
          /\ UNCHANGED <<mainq, stopping, timers, settings, tasks, worker, reads, writer,
                         mem, cancel, stopped, uaf, lapsed, raced, readies>>
      BY <1>2 DEF vars, propVars, flowVars, obsVars
    <2>2. TypeOK'
      BY <2>1 DEF BaseInv, TypeOK
    <2>3. WriterReads' /\ Fresh'
      BY <2>1 DEF BaseInv, WriterReads, Fresh
    <2> QED  BY <2>2, <2>3 DEF BaseInv
  <1> QED  BY <1>1, <1>2

\* The base invariant holds throughout.
LEMMA BaseInvariant == Spec => []BaseInv
  BY InitBase, BaseKept, PTL DEF Spec

\* The provider's properties, queues, threads and sessions keep their types,
\* however often sessions come up and are retried.
THEOREM TypeCorrect == Spec => []TypeOK
  <1>1. BaseInv => TypeOK
    BY DEF BaseInv
  <1> QED  BY <1>1, BaseInvariant, PTL


-----------------------------------------------------------------------------
(* The blocks on the main queue.                                           *)

Entries(q) == {q[i] : i \in DOMAIN q}
Pending == Entries(mainq)
Posted(k) == \E b \in Pending : b.k = k
Numbered == {"fail", "ready", "timer", "begin"}
\* A block of the current generation is on the main queue.
Current(k) == \E b \in Pending : b.k = k /\ b.gen = sessionGeneration

\* The blocks on a queue to which one was added.
LEMMA AppendEntries ==
    ASSUME NEW S, NEW q \in Seq(S), NEW e \in S
    PROVE  Entries(Append(q, e)) = Entries(q) \cup {e}
  <1> DEFINE t == Append(q, e)
  <1>1. /\ DOMAIN q = 1 .. Len(q) /\ DOMAIN t = 1 .. (Len(q) + 1) /\ Len(q) \in Nat
        /\ \A i \in DOMAIN q : i \in DOMAIN t /\ t[i] = q[i]
        /\ t[Len(q) + 1] = e
        /\ \A i \in DOMAIN t : i \in DOMAIN q \/ i = Len(q) + 1
    BY AppendSeq
  <1>2. Len(q) + 1 \in DOMAIN t
    BY <1>1
  <1> HIDE DEF t
  <1>3. Entries(t) = Entries(q) \cup {e}
    BY <1>1, <1>2 DEF Entries
  <1> QED  BY <1>3 DEF t

\* The blocks on a queue whose first was run.
LEMMA TailEntries ==
    ASSUME NEW S, NEW q \in Seq(S), q # << >>
    PROVE  /\ Entries(Tail(q)) \subseteq Entries(q) /\ Head(q) \in Entries(q)
           /\ Entries(q) \subseteq Entries(Tail(q)) \cup {Head(q)}
  <1> DEFINE t == Tail(q)
  <1>1. /\ Len(q) \in Nat \ {0} /\ DOMAIN q = 1 .. Len(q) /\ Head(q) = q[1]
        /\ 1 \in DOMAIN q /\ DOMAIN t = 1 .. (Len(q) - 1)
        /\ \A i \in DOMAIN t : i + 1 \in DOMAIN q /\ t[i] = q[i + 1]
    BY TailSeq
  <1>2. ASSUME NEW i \in DOMAIN q, i # 1
        PROVE  i - 1 \in DOMAIN t /\ t[i - 1] = q[i]
    <2>1. i - 1 \in DOMAIN t /\ (i - 1) + 1 = i
      BY <1>1, <1>2
    <2> QED  BY <1>1, <2>1
  <1> HIDE DEF t
  <1>3. Entries(t) \subseteq Entries(q) /\ Head(q) \in Entries(q)
    BY <1>1 DEF Entries
  <1>4. ASSUME NEW b \in Entries(q)
        PROVE  b \in Entries(t) \cup {Head(q)}
    <2>1. PICK i \in DOMAIN q : b = q[i]
      BY DEF Entries
    <2>2. CASE i = 1
      BY <1>1, <2>1, <2>2
    <2>3. CASE i # 1
      BY <1>2, <2>1, <2>3 DEF Entries
    <2> QED  BY <2>2, <2>3
  <1> QED  BY <1>3, <1>4 DEF t

\* Two blocks are posted one after the other.
LEMMA TwoEntries ==
    ASSUME NEW S, NEW q \in Seq(S), NEW a \in S, NEW b \in S
    PROVE  /\ q \o <<a, b>> = Append(Append(q, a), b)
           /\ Entries(q \o <<a, b>>) = Entries(q) \cup {a, b}
  <1>1. Append(q, a) \in Seq(S) /\ <<a, b>> = Append(<<a>>, b)
    BY AppendProperties
  <1>2. q \o <<a, b>> = Append(Append(q, a), b)
    OBVIOUS
  <1>3. Entries(Append(Append(q, a), b)) = Entries(Append(q, a)) \cup {b}
    <2> DEFINE t == Append(q, a)
    <2>1. t \in Seq(S)
      BY <1>1
    <2> HIDE DEF t
    <2>2. Entries(Append(t, b)) = Entries(t) \cup {b}
      BY <2>1, AppendEntries
    <2> QED  BY <2>2 DEF t
  <1>4. Entries(Append(q, a)) = Entries(q) \cup {a}
    BY AppendEntries
  <1> QED  BY <1>2, <1>3, <1>4

\* What is pending is a block, with a generation where it carries one.
LEMMA PendingBlocks ==
    ASSUME QueueTypes
    PROVE  /\ Pending \subseteq Blocks
           /\ \A b \in Pending : b.k \in Numbered => b.gen \in Nat
  <1>1. Pending \subseteq Blocks
    BY ElementOfSeq, LenProperties DEF QueueTypes, Pending, Entries
  <1> QED  BY <1>1, BlockKinds DEF Numbered


\* What a step may do to the main queue: run a block, post one, or neither.
LEMMA BlockRun ==
    ASSUME QueueTypes, NEW k, RunsBlock(k)
    PROVE  /\ Pending' \subseteq Pending /\ Head(mainq) \in Pending
           /\ Pending \subseteq Pending' \cup {Head(mainq)} /\ Head(mainq).k = k
           /\ Running /\ ~stopping.busy
           /\ UNCHANGED <<stopping, reads, writer, lapsed, raced, readies>>
           /\ k \in Numbered => Head(mainq).gen \in Nat
           /\ k = "fail" => Head(mainq).code \in CodesOfFailure
  <1>1. mainq \in Seq(Blocks) /\ mainq # << >> /\ mainq' = Tail(mainq)
        /\ Head(mainq).k = k /\ Head(mainq) \in Blocks
    BY HeadBlock DEF QueueTypes
  <1>2. /\ Pending' \subseteq Pending /\ Head(mainq) \in Pending
        /\ Pending \subseteq Pending' \cup {Head(mainq)}
    BY <1>1, TailEntries DEF Pending
  <1>3. /\ k \in Numbered => Head(mainq).gen \in Nat
        /\ k = "fail" => Head(mainq).code \in CodesOfFailure
    BY <1>1, BlockKinds DEF Numbered
  <1> QED  BY <1>1, <1>2, <1>3, HeadBlock

\* A posted block is pending.
LEMMA BlockPosted ==
    ASSUME QueueTypes, NEW b \in Blocks, mainq' = Append(mainq, b)
    PROVE  Pending' = Pending \cup {b}
  BY AppendEntries DEF QueueTypes, Pending

\* A queue left alone has the same blocks pending.
LEMMA QueueKeptPending ==
    ASSUME UNCHANGED mainq
    PROVE  Pending' = Pending
  BY DEF Pending

StageBlk == [k |-> "stage"]
ReadyBlk == [k |-> "ready", gen |-> sessionGeneration]

\* What a step of a worker thread does to the queue and to the worker: a stage
\* or the ready report, or a failure, once per way out of the session.
WorkerActs(w) ==
    /\ worker[w].pc # "done"
    /\ worker' \in Seq(Workers) /\ Len(worker') = Len(worker)
    /\ DOMAIN worker' = DOMAIN worker
    /\ \A i \in DOMAIN worker : i # w => worker'[i] = worker[i]
    /\ \/ /\ Pending' \in {Pending, Pending \cup {StageBlk}, Pending \cup {StageBlk, ReadyBlk}}
          /\ worker[w].pc # "failed" /\ worker'[w].code = worker[w].code
       \/ \E c \in CodesOfFailure :
            /\ Pending' = Pending \cup {Fail(c)}
            /\ worker'[w].code = c /\ worker'[w].pc \in {"failed", "done"}
            /\ worker[w].pc = "failed" => worker'[w].pc = "done" /\ c = "transient"
            /\ c = "fatal" => worker'[w].pc = "done"

\* That is all a step of a worker does.
LEMMA WorkerDoes ==
    ASSUME TypeOK, NEW w \in DOMAIN worker, WorkerStep(w) \/ Outcome(w)
    PROVE  WorkerActs(w) /\ Running /\ UNCHANGED workerOnly
  <1>1. HeapTypes /\ QueueTypes /\ sessionGeneration \in Nat
    BY TypeParts DEF NumberTypes
  <1>2. Running /\ UNCHANGED workerOnly
    BY WorkerSteady DEF WorkerStep, Outcome
  <1>3. /\ \A c \in CodesOfFailure : Fail(c) \in Blocks
        /\ StageBlk \in Blocks /\ ReadyBlk \in Blocks /\ "transient" \in CodesOfFailure
    BY <1>1, NewBlocks DEF Fail, StageBlk, ReadyBlk, CodesOfFailure
  <1>4. ASSUME NEW p, NEW h, NEW c, WorkerAt(w, p, h, c)
        PROVE  /\ worker' \in Seq(Workers) /\ Len(worker') = Len(worker)
               /\ DOMAIN worker' = DOMAIN worker
               /\ \A i \in DOMAIN worker : i # w => worker'[i] = worker[i]
               /\ worker'[w].pc = p /\ worker'[w].code = c
    BY <1>4 DEF WorkerAt
  <1>5. ASSUME NEW p \in {"failed", "done"}, NEW c \in CodesOfFailure, FailsWith(w, p, c),
               worker[w].pc # "done", worker[w].pc = "failed" => p = "done" /\ c = "transient",
               c = "fatal" => p = "done"
        PROVE  WorkerActs(w)
    <2>1. WorkerAt(w, p, worker[w].h, c)
      BY <1>1, <1>5, WorkerMoves DEF PCs
    <2>2. Pending' = Pending \cup {Fail(c)}
      BY <1>1, <1>3, <1>5, BlockPosted DEF FailsWith
    <2> QED  BY <1>4, <1>5, <2>1, <2>2 DEF WorkerActs
  <1>6. ASSUME NEW p, NEW h, WorkerAt(w, p, h, worker[w].code), worker[w].pc \notin {"done", "failed"},
               Pending' \in {Pending, Pending \cup {StageBlk}, Pending \cup {StageBlk, ReadyBlk}}
        PROVE  WorkerActs(w)
    <2>1. /\ worker' \in Seq(Workers) /\ Len(worker') = Len(worker)
          /\ DOMAIN worker' = DOMAIN worker
          /\ \A i \in DOMAIN worker : i # w => worker'[i] = worker[i]
          /\ worker'[w].code = worker[w].code
      BY <1>4, <1>6
    <2> QED  BY <1>6, <2>1 DEF WorkerActs
  <1>7. CASE WorkerEnter(w)
    <2>1. CASE session = 0
      <3>1. FailsWith(w, "done", "transient") /\ worker[w].pc = "new"
        BY <1>7, <2>1 DEF WorkerEnter
      <3> QED  BY <1>2, <1>3, <1>5, <3>1
    <2>2. CASE session # 0
      <3>1. WorkerAt(w, "starting", session, worker[w].code)
        BY <1>1, <1>7, <2>2, WorkerMoves DEF WorkerEnter, PCs
      <3>2. Pending' = Pending
        BY <1>7, <2>2, QueueKeptPending DEF WorkerEnter
      <3> QED  BY <1>2, <1>6, <1>7, <3>1, <3>2 DEF WorkerEnter
    <2> QED  BY <2>1, <2>2
  <1>8. CASE WorkerOpen(w)
    <2>1. CASE FailsWith(w, "failed", "transient")
      BY <1>2, <1>3, <1>5, <1>8, <2>1 DEF WorkerOpen
    <2>2. CASE Goes(w, "resolving") /\ mainq' = Append(mainq, [k |-> "stage"])
      <3>1. WorkerAt(w, "resolving", worker[w].h, worker[w].code)
        BY <1>1, <2>2, WorkerMoves DEF PCs
      <3>2. Pending' = Pending \cup {StageBlk}
        BY <1>1, <1>3, <2>2, BlockPosted DEF StageBlk
      <3> QED  BY <1>2, <1>6, <1>8, <3>1, <3>2 DEF WorkerOpen
    <2> QED  BY <1>8, <2>1, <2>2 DEF WorkerOpen
  <1>9. CASE WorkerResolve(w)
    <2>1. CASE FailsWith(w, "failed", "transient")
      BY <1>2, <1>3, <1>5, <1>9, <2>1 DEF WorkerResolve
    <2>2. CASE Goes(w, "started") /\ UNCHANGED mainq
      <3>1. WorkerAt(w, "started", worker[w].h, worker[w].code)
        BY <1>1, <2>2, WorkerMoves DEF PCs
      <3>2. Pending' = Pending
        BY <2>2, QueueKeptPending
      <3> QED  BY <1>2, <1>6, <1>9, <3>1, <3>2 DEF WorkerResolve
    <2> QED  BY <1>9, <2>1, <2>2 DEF WorkerResolve
  <1>10. CASE WorkerReport(w)
    BY <1>2, <1>3, <1>5, <1>10 DEF WorkerReport
  <1>11. CASE WorkerRun(w)
    <2>1. \/ WorkerAt(w, "running", session, worker[w].code)
          \/ WorkerAt(w, "done", worker[w].h, worker[w].code)
      BY <1>1, <1>11, WorkerMoves DEF WorkerRun, Goes, PCs
    <2>2. Pending' = Pending /\ worker[w].pc = "started"
      BY <1>11, QueueKeptPending DEF WorkerRun
    <2> QED  BY <1>2, <1>6, <2>1, <2>2
  <1>12. CASE RunReady(w)
    <2>1. WorkerAt(w, "up", worker[w].h, worker[w].code)
      BY <1>1, <1>12, WorkerMoves DEF RunReady, PCs
    <2>2. Pending' = Pending \cup {StageBlk, ReadyBlk}
      <3>1. mainq' = mainq \o <<StageBlk, ReadyBlk>>
        BY <1>12 DEF RunReady, StageBlk, ReadyBlk
      <3> QED  BY <1>1, <1>3, <3>1, TwoEntries DEF QueueTypes, Pending
    <2> QED  BY <1>2, <1>6, <1>12, <2>1, <2>2 DEF RunReady
  <1>12a. CASE RunCalls(w)
    <2>1. WorkerAt(w, "calling", worker[w].h, worker[w].code)
      BY <1>1, <1>12a, WorkerMoves DEF RunCalls, PCs
    <2>2. Pending' = Pending
      BY <1>12a, QueueKeptPending DEF RunCalls
    <2> QED  BY <1>2, <1>6, <1>12a, <2>1, <2>2 DEF RunCalls
  <1>13. CASE RunFails(w)
    <2>1. PICK c \in CodesOfFailure : FailsWith(w, "done", c)
      BY <1>13 DEF RunFails
    <2> QED  BY <1>2, <1>5, <1>13, <2>1 DEF RunFails
  <1>14. CASE RunStopped(w)
    <2>1. WorkerAt(w, "done", worker[w].h, worker[w].code)
      BY <1>1, <1>14, WorkerMoves DEF RunStopped, PCs
    <2>2. Pending' = Pending
      BY <1>14, QueueKeptPending DEF RunStopped
    <2> QED  BY <1>2, <1>6, <1>14, <2>1, <2>2 DEF RunStopped
  <1> QED
    BY <1>7, <1>8, <1>9, <1>10, <1>11, <1>12, <1>12a, <1>13, <1>14
    DEF WorkerStep, Outcome


-----------------------------------------------------------------------------
(* What the steps of the global queue do.                                  *)

\* A teardown reads self.session and self.workerThread.
LEMMA ReadFacts ==
    ASSUME TypeOK, TeardownRead
    PROVE  /\ Running /\ Pending' = Pending /\ ~packetLoopRunning'
           /\ raced' = (raced \/ SharedSession)
           /\ UNCHANGED <<session, workerThread, userStopRequested, sessionGeneration,
                          currentStage, mainq, stopping, timers, settings, worker, mem,
                          stopped, lapsed, uaf, reads, writer, lastErrorCode, answered,
                          cancel>>
           /\ \E t \in tasks, n \in Tasks :
                /\ t.pc = "read" /\ tasks' = (tasks \ {t}) \cup {n}
                /\ n.kind = t.kind /\ n.gen = t.gen
                /\ n.pc = "clear" /\ n.s = session /\ n.w = workerThread
  <1>1. UNCHANGED <<session, workerThread, userStopRequested, sessionGeneration, currentStage,
                    mainq, stopping, timers, settings, worker, mem, stopped, lapsed, uaf,
                    reads, writer, lastErrorCode, answered, cancel>>
    BY DEF TeardownRead, flowVars, obsVars, reportVars
  <1>2. PICK t \in tasks :
            /\ t.pc = "read" /\ packetLoopRunning' = FALSE
            /\ tasks' = (tasks \ {t}) \cup
                   {[t EXCEPT !.pc = "clear", !.s = session, !.w = workerThread]}
    BY DEF TeardownRead, LoopAfterTeardown
  <1> DEFINE n == [t EXCEPT !.pc = "clear", !.s = session, !.w = workerThread]
  <1>3. t \in Tasks /\ session \in Nat /\ workerThread \in Nat
    BY TypeParts DEF TaskTypes, HeapTypes
  <1>4. /\ n \in Tasks /\ n.kind = t.kind /\ n.gen = t.gen
        /\ n.pc = "clear" /\ n.s = session /\ n.w = workerThread
    BY <1>3 DEF Tasks
  <1>5. tasks' = (tasks \ {t}) \cup {n} /\ ~packetLoopRunning'
    BY <1>2
  <1> HIDE DEF n
  <1>6. Running /\ raced' = (raced \/ SharedSession)
    BY DEF TeardownRead
  <1> QED  BY <1>1, <1>2, <1>4, <1>5, <1>6, QueueKeptPending

\* A teardown clears them and stops the session it read.
LEMMA ClearFacts ==
    ASSUME TypeOK, TeardownClear
    PROVE  /\ Running /\ Pending' = Pending /\ session' = 0 /\ workerThread' = 0
           /\ UNCHANGED <<packetLoopRunning, userStopRequested, sessionGeneration,
                          currentStage, mainq, stopping, timers, settings, worker,
                          stopped, lapsed, raced, reads, writer, lastErrorCode, answered,
                          cancel>>
           /\ \E t \in tasks, n \in Tasks :
                /\ t.pc = "clear" /\ tasks' = (tasks \ {t}) \cup {n}
                /\ n.kind = t.kind /\ n.gen = t.gen
                /\ n.pc = "wait" /\ n.s = t.s /\ n.w = t.w
                /\ mem' = sstp_ios_session_stop(mem, t.s) /\ Uses("stop", t.s)
  <1>1. UNCHANGED <<packetLoopRunning, userStopRequested, sessionGeneration, currentStage,
                    mainq, stopping, timers, settings, worker, stopped, lapsed, raced,
                    reads, writer, lastErrorCode, answered, cancel>>
    BY DEF TeardownClear, flowVars, obsVars, reportVars
  <1>2. PICK t \in tasks :
            /\ t.pc = "clear" /\ session' = 0 /\ workerThread' = 0
            /\ mem' = sstp_ios_session_stop(mem, t.s) /\ Uses("stop", t.s)
            /\ tasks' = (tasks \ {t}) \cup {[t EXCEPT !.pc = "wait"]}
    BY DEF TeardownClear
  <1> DEFINE n == [t EXCEPT !.pc = "wait"]
  <1>3. t \in Tasks
    BY TypeParts DEF TaskTypes
  <1>4. /\ n \in Tasks /\ n.kind = t.kind /\ n.gen = t.gen
        /\ n.pc = "wait" /\ n.s = t.s /\ n.w = t.w
    BY <1>3 DEF Tasks
  <1>5. tasks' = (tasks \ {t}) \cup {n}
    BY <1>2
  <1> HIDE DEF n
  <1>6. Running
    BY DEF TeardownClear
  <1> QED  BY <1>1, <1>2, <1>4, <1>5, <1>6, QueueKeptPending

\* The wait of a teardown or a stop ends: its session is freed and a block posted.
LEMMA FreeFacts ==
    ASSUME TypeOK, WaitEnds \/ WaitLapses
    PROVE  /\ Running
           /\ UNCHANGED <<session, workerThread, packetLoopRunning, userStopRequested,
                          sessionGeneration, currentStage, stopping, timers, settings,
                          worker, stopped, raced, reads, writer, lastErrorCode, answered,
                          cancel>>
           /\ \E t \in tasks, b \in Blocks :
                /\ t.pc = "wait" /\ tasks' = tasks \ {t} /\ t \in Tasks
                /\ WorkerFinished(t) \/ lapsed'
                /\ lapsed => lapsed'
                /\ mainq' = Append(mainq, b) /\ Pending' = Pending \cup {b}
                /\ t.kind = "stop" => b = [k |-> "stopDone"]
                /\ t.kind = "teardown" => b = [k |-> "begin", gen |-> t.gen]
                /\ mem' = sstp_ios_session_free(mem, t.s) /\ Uses("free", t.s)
  <1>1. PICK t \in tasks : /\ t.pc = "wait" /\ FreesSession(t)
                           /\ WorkerFinished(t) \/ lapsed'
    BY DEF WaitEnds, WaitLapses, WaitOver
  <1>2. Running /\ (lapsed => lapsed')
    BY DEF WaitEnds, WaitLapses
  <1>3. UNCHANGED <<session, workerThread, packetLoopRunning, userStopRequested,
                    sessionGeneration, currentStage, stopping, timers, settings, worker,
                    stopped, raced, reads, writer, lastErrorCode, answered, cancel>>
    BY <1>1 DEF FreesSession, propVars, flowVars, obsVars
  <1> DEFINE b == IF t.kind = "stop" THEN [k |-> "stopDone"] ELSE [k |-> "begin", gen |-> t.gen]
  <1>4. t \in Tasks /\ t.gen \in Nat
    BY TypeParts DEF TaskTypes, Tasks
  <1>5. b \in Blocks
    BY <1>4, NewBlocks
  <1>6. /\ t.kind = "stop" => b = [k |-> "stopDone"]
        /\ t.kind = "teardown" => b = [k |-> "begin", gen |-> t.gen]
    OBVIOUS
  <1>7. /\ mainq' = Append(mainq, b) /\ tasks' = tasks \ {t}
        /\ mem' = sstp_ios_session_free(mem, t.s) /\ Uses("free", t.s)
    BY <1>1 DEF FreesSession
  <1> HIDE DEF b
  <1>8. Pending' = Pending \cup {b}
    BY <1>5, <1>7, TypeParts, BlockPosted
  <1> QED  BY <1>1, <1>2, <1>3, <1>4, <1>5, <1>6, <1>7, <1>8

-----------------------------------------------------------------------------
(* Generations, and what a stop request implies.                           *)

\* Nothing under way carries a generation yet to come.
GensPast ==
    /\ \A b \in Pending : b.k \in Numbered => b.gen <= sessionGeneration
    /\ \A g \in timers : g <= sessionGeneration
    /\ \A g \in settings : g <= sessionGeneration
    /\ \A t \in tasks : t.gen <= sessionGeneration

\* Until a stop is asked for nothing of a stop is under way; from then on the
\* packet loop is over, and no settings of the current generation come.
StopAsked ==
    /\ ~userStopRequested =>
           /\ ~stopping.busy /\ ~Posted("stopDone") /\ ~stopped
           /\ \A t \in tasks : t.kind = "teardown"
    /\ userStopRequested => ~packetLoopRunning /\ sessionGeneration \notin settings

\* No step lets anything carry a generation yet to come.
LEMMA GensPastKept ==
    ASSUME TypeOK, GensPast, Next
    PROVE  GensPast'
  <1>1. QueueTypes /\ TaskTypes
    BY TypeParts
  <1>2. /\ sessionGeneration \in Nat /\ timers \subseteq Nat /\ settings \subseteq Nat
        /\ \A b \in Pending : b.k \in Numbered => b.gen \in Nat
        /\ \A t \in tasks : t.gen \in Nat
    BY <1>1, TypeParts, PendingBlocks DEF NumberTypes, TaskTypes, Tasks
  <1> DEFINE Old(b) == b.k \in Numbered => b.gen <= sessionGeneration
             OldTask(t) == t.gen <= sessionGeneration
  <1>3. /\ \A b \in Pending : Old(b)
        /\ \A g \in timers : g <= sessionGeneration
        /\ \A g \in settings : g <= sessionGeneration
        /\ \A t \in tasks : OldTask(t)
    BY DEF GensPast
  <1>4. ASSUME sessionGeneration' = sessionGeneration, \A b \in Pending' : Old(b),
               \A g \in timers' : g <= sessionGeneration,
               \A g \in settings' : g <= sessionGeneration,
               \A t \in tasks' : OldTask(t)
        PROVE  GensPast'
    BY <1>4 DEF GensPast
  <1>5. /\ \A c : Old(Fail(c))
        /\ Old(StageBlk) /\ Old(ReadyBlk) /\ Old([k |-> "stopDone"])
    BY <1>2 DEF Fail, StageBlk, ReadyBlk, Numbered
  <1>6. CASE startTunnel
    <2>1. /\ UNCHANGED <<mainq, timers, settings, tasks>>
          /\ sessionGeneration = 0 /\ sessionGeneration' \in {0, 1}
      BY <1>6 DEF startTunnel
    <2>2. Pending' = Pending
      BY <2>1, QueueKeptPending
    <2> QED  BY <1>2, <1>3, <2>1, <2>2 DEF GensPast
  <1>7. CASE stopTunnel
    <2>1. /\ UNCHANGED <<mainq, timers, settings, tasks>>
          /\ sessionGeneration' = sessionGeneration + 1
      BY <1>7 DEF stopTunnel, StopGeneration
    <2>2. Pending' = Pending
      BY <2>1, QueueKeptPending
    <2> QED  BY <1>2, <1>3, <2>1, <2>2 DEF GensPast
  <1>8. CASE stopTunnelTake
    <2> DEFINE n == [kind |-> "stop", gen |-> sessionGeneration, pc |-> "wait",
                     s |-> stopping.s, w |-> workerThread]
    <2>1. /\ UNCHANGED <<mainq, timers, settings, sessionGeneration>>
          /\ tasks' = tasks \cup {n}
      BY <1>8 DEF stopTunnelTake
    <2>2. OldTask(n)
      BY <1>2
    <2>3. Pending' = Pending
      BY <2>1, QueueKeptPending
    <2> HIDE DEF n, Old, OldTask
    <2> QED  BY <1>3, <1>4, <2>1, <2>2, <2>3
  <1>9. CASE StageBlock \/ BeginBlock \/ StopDoneBlock
    <2>1. PICK k : RunsBlock(k)
      BY <1>9 DEF StageBlock, BeginBlock, StopDoneBlock
    <2>2. UNCHANGED <<timers, settings, tasks, sessionGeneration>>
      BY <1>9 DEF StageBlock, BeginBlock, StopDoneBlock
    <2>3. Pending' \subseteq Pending
      BY <1>1, <2>1, BlockRun
    <2> HIDE DEF Old, OldTask
    <2> QED  BY <1>3, <1>4, <2>2, <2>3
  <1>10. CASE ReadyBlock
    <2>1. /\ UNCHANGED <<timers, tasks, sessionGeneration>>
          /\ settings' \subseteq settings \cup {sessionGeneration}
      BY <1>10 DEF ReadyBlock
    <2>2. Pending' \subseteq Pending
      BY <1>1, <1>10, BlockRun DEF ReadyBlock
    <2>3. \A g \in settings' : g <= sessionGeneration
      BY <1>2, <1>3, <2>1
    <2> HIDE DEF Old, OldTask
    <2> QED  BY <1>3, <1>4, <2>1, <2>2, <2>3
  <1>11. CASE FailBlock
    <2>1. /\ UNCHANGED <<settings, tasks, sessionGeneration>>
          /\ timers' \subseteq timers \cup {Head(mainq).gen}
      BY <1>11 DEF FailBlock
    <2>2. Pending' \subseteq Pending /\ Head(mainq) \in Pending /\ Head(mainq).k = "fail"
      BY <1>1, <1>11, BlockRun DEF FailBlock
    <2>3. \A g \in timers' : g <= sessionGeneration
      BY <1>2, <1>3, <2>1, <2>2 DEF Numbered
    <2> HIDE DEF Old, OldTask
    <2> QED  BY <1>3, <1>4, <2>1, <2>2, <2>3
  <1>12. CASE TimerBlock
    <2>1. Pending' \subseteq Pending /\ UNCHANGED <<timers, settings>>
      BY <1>1, <1>12, BlockRun DEF TimerBlock
    <2> DEFINE n == [kind |-> "teardown", pc |-> "read", gen |-> sessionGeneration + 1,
                     s |-> 0, w |-> 0]
    <2>2. \/ UNCHANGED <<sessionGeneration, tasks>>
          \/ sessionGeneration' = sessionGeneration + 1 /\ tasks' = tasks \cup {n}
      BY <1>12 DEF TimerBlock
    <2>3. n.gen = sessionGeneration + 1
      OBVIOUS
    <2> HIDE DEF n
    <2>4. CASE UNCHANGED <<sessionGeneration, tasks>>
      <3> HIDE DEF Old, OldTask
      <3> QED  BY <1>3, <1>4, <2>1, <2>4
    <2>5. CASE sessionGeneration' = sessionGeneration + 1 /\ tasks' = tasks \cup {n}
      <3>1. \A t \in tasks' : t.gen <= sessionGeneration'
        BY <1>2, <1>3, <2>3, <2>5
      <3>2. /\ \A b \in Pending' : b.k \in Numbered => b.gen <= sessionGeneration'
            /\ \A g \in timers' : g <= sessionGeneration'
            /\ \A g \in settings' : g <= sessionGeneration'
        BY <1>2, <1>3, <2>1, <2>5
      <3> QED  BY <3>1, <3>2 DEF GensPast
    <2> QED  BY <2>2, <2>4, <2>5
  <1>13. CASE TimerDue
    <2>1. PICK g \in timers : /\ timers' = timers \ {g}
                              /\ mainq' = Append(mainq, [k |-> "timer", gen |-> g])
      BY <1>13 DEF TimerDue
    <2> DEFINE e == [k |-> "timer", gen |-> g]
    <2>2. e \in Blocks /\ Old(e)
      BY <1>2, <1>3, NewBlocks
    <2>3. Pending' = Pending \cup {e}
      BY <1>1, <2>1, <2>2, BlockPosted
    <2>4. UNCHANGED <<settings, tasks, sessionGeneration>>
      BY <1>13 DEF TimerDue, propVars
    <2> HIDE DEF e, Old, OldTask
    <2> QED  BY <1>3, <1>4, <2>1, <2>2, <2>3, <2>4
  <1>14. CASE SettingsDone
    <2>1. UNCHANGED <<mainq, timers, tasks, sessionGeneration>> /\ settings' \subseteq settings
      BY <1>14 DEF SettingsDone
    <2>2. Pending' = Pending
      BY <2>1, QueueKeptPending
    <2> HIDE DEF Old, OldTask
    <2> QED  BY <1>3, <1>4, <2>1, <2>2
  <1>15. CASE TeardownRead \/ TeardownClear
    <2>1. UNCHANGED <<mainq, timers, settings, sessionGeneration>>
      BY <1>15 DEF TeardownRead, TeardownClear
    <2>2. Pending' = Pending
      BY <2>1, QueueKeptPending
    <2>3. PICK t \in tasks, n \in Tasks : tasks' = (tasks \ {t}) \cup {n} /\ n.gen = t.gen
      BY <1>15, ReadFacts, ClearFacts
    <2>4. \A u \in tasks' : OldTask(u)
      BY <1>3, <2>3
    <2> HIDE DEF Old, OldTask
    <2> QED  BY <1>3, <1>4, <2>1, <2>2, <2>4
  <1>16. CASE WaitEnds \/ WaitLapses
    <2>1. PICK t \in tasks : FreesSession(t)
      BY <1>16 DEF WaitEnds, WaitLapses
    <2> DEFINE e == IF t.kind = "stop" THEN [k |-> "stopDone"] ELSE [k |-> "begin", gen |-> t.gen]
    <2>2. e \in Blocks /\ Old(e)
      BY <1>2, <1>3, <1>5, NewBlocks
    <2>3. Pending' = Pending \cup {e}
      BY <1>1, <2>1, <2>2, BlockPosted DEF FreesSession
    <2>4. UNCHANGED <<timers, settings, sessionGeneration>> /\ tasks' \subseteq tasks
      BY <2>1 DEF FreesSession, propVars
    <2> HIDE DEF e, Old, OldTask
    <2> QED  BY <1>3, <1>4, <2>2, <2>3, <2>4
  <1>17. ASSUME NEW w \in DOMAIN worker, WorkerStep(w) \/ Outcome(w)
         PROVE  GensPast'
    <2>1. WorkerActs(w) /\ UNCHANGED workerOnly
      BY <1>17, WorkerDoes
    <2>2. UNCHANGED <<timers, settings, tasks, sessionGeneration>>
      BY <2>1 DEF workerOnly, propVars
    <2>3. \A b \in Pending' : b \in Pending \/ b \in {StageBlk, ReadyBlk}
                              \/ \E c \in CodesOfFailure : b = Fail(c)
      BY <2>1 DEF WorkerActs
    <2> HIDE DEF Old, OldTask
    <2> QED  BY <1>3, <1>4, <1>5, <2>2, <2>3
  <1>18. CASE PacketsRead \/ PacketsWritten
    <2>1. UNCHANGED <<mainq, timers, settings, tasks, sessionGeneration>>
      BY <1>18 DEF PacketsRead, PacketsWritten, propVars
    <2>2. Pending' = Pending
      BY <2>1, QueueKeptPending
    <2> HIDE DEF Old, OldTask
    <2> QED  BY <1>3, <1>4, <2>1, <2>2
  <1> QED
    BY <1>6, <1>7, <1>8, <1>9, <1>10, <1>11, <1>12, <1>13, <1>14, <1>15, <1>16, <1>17, <1>18
    DEF Next, MainBlock, GlobalStep


\* No step breaks what a stop request implies.
LEMMA StopAskedKept ==
    ASSUME TypeOK, GensPast, StopAsked, Next
    PROVE  StopAsked'
  <1>1. QueueTypes /\ TaskTypes /\ sessionGeneration \in Nat /\ settings \subseteq Nat
    BY TypeParts DEF NumberTypes
  <1> USE DEF StopAsked, Posted
  <1>2. CASE startTunnel
    <2>1. /\ UNCHANGED <<mainq, stopping, stopped, tasks, settings, userStopRequested,
                         packetLoopRunning>>
          /\ sessionGeneration = 0 /\ sessionGeneration' \in {0, 1}
      BY <1>2 DEF startTunnel, obsVars
    <2>2. Pending' = Pending
      BY <2>1, QueueKeptPending
    <2>3. sessionGeneration' \notin settings \/ ~userStopRequested
      BY <1>1, <2>1 DEF GensPast
    <2> QED  BY <2>1, <2>2, <2>3
  <1>3. CASE stopTunnel
    <2>1. userStopRequested' /\ ~packetLoopRunning' /\ UNCHANGED settings
          /\ sessionGeneration' = sessionGeneration + 1
      BY <1>3 DEF stopTunnel, StopGeneration
    <2>2. sessionGeneration' \notin settings
      BY <1>1, <2>1 DEF GensPast
    <2> QED  BY <2>1, <2>2
  <1>4. CASE stopTunnelTake
    <2>1. stopping.busy /\ UNCHANGED <<userStopRequested, packetLoopRunning, settings,
                                       sessionGeneration>>
      BY <1>4 DEF stopTunnelTake
    <2> QED  BY <2>1
  <1>5. CASE StageBlock \/ ReadyBlock \/ FailBlock \/ BeginBlock \/ TimerBlock
    <2>1. Pending' \subseteq Pending /\ UNCHANGED stopping
      BY <1>1, <1>5, BlockRun DEF StageBlock, ReadyBlock, FailBlock, BeginBlock, TimerBlock
    <2>2. UNCHANGED <<userStopRequested, packetLoopRunning, stopped>>
      BY <1>5 DEF StageBlock, ReadyBlock, FailBlock, BeginBlock, TimerBlock, obsVars
    <2>3. userStopRequested => UNCHANGED <<settings, tasks, sessionGeneration>>
      BY <1>5 DEF StageBlock, ReadyBlock, FailBlock, BeginBlock, TimerBlock
    <2>4. \A t \in tasks' : t \in tasks \/ t.kind = "teardown"
      BY <1>5 DEF StageBlock, ReadyBlock, FailBlock, BeginBlock, TimerBlock
    <2> QED  BY <2>1, <2>2, <2>3, <2>4
  <1>6. CASE StopDoneBlock
    <2>1. Head(mainq) \in Pending /\ Head(mainq).k = "stopDone"
      BY <1>1, <1>6, BlockRun DEF StopDoneBlock
    <2>2. UNCHANGED <<userStopRequested, packetLoopRunning, settings, sessionGeneration>>
      BY <1>6 DEF StopDoneBlock
    <2> QED  BY <2>1, <2>2
  <1>7. CASE TimerDue
    <2>1. PICK g \in timers : mainq' = Append(mainq, [k |-> "timer", gen |-> g])
      BY <1>7 DEF TimerDue
    <2>2. [k |-> "timer", gen |-> g] \in Blocks
      BY NewBlocks, TypeParts DEF NumberTypes
    <2>3. Pending' = Pending \cup {[k |-> "timer", gen |-> g]}
      BY <1>1, <2>1, <2>2, BlockPosted
    <2>4. UNCHANGED <<stopping, stopped, tasks, settings, userStopRequested,
                      packetLoopRunning, sessionGeneration>>
      BY <1>7 DEF TimerDue, propVars, obsVars
    <2> QED  BY <2>3, <2>4
  <1>8. CASE SettingsDone
    <2>1. /\ UNCHANGED <<mainq, stopping, stopped, tasks, userStopRequested,
                         sessionGeneration>>
          /\ settings' \subseteq settings
          /\ packetLoopRunning' => packetLoopRunning \/ sessionGeneration \in settings
      BY <1>8 DEF SettingsDone
    <2>2. Pending' = Pending
      BY <2>1, QueueKeptPending
    <2> QED  BY <2>1, <2>2
  <1>9. CASE TeardownRead
    <2>1. PICK t \in tasks, n \in Tasks : tasks' = (tasks \ {t}) \cup {n} /\ n.kind = t.kind
      BY <1>9, ReadFacts
    <2>2. /\ Pending' = Pending /\ ~packetLoopRunning'
          /\ UNCHANGED <<stopping, stopped, settings, userStopRequested, sessionGeneration>>
      BY <1>9, ReadFacts
    <2> QED  BY <2>1, <2>2
  <1>10. CASE TeardownClear
    <2>1. PICK t \in tasks, n \in Tasks : tasks' = (tasks \ {t}) \cup {n} /\ n.kind = t.kind
      BY <1>10, ClearFacts
    <2>2. /\ Pending' = Pending
          /\ UNCHANGED <<stopping, stopped, settings, userStopRequested, sessionGeneration,
                         packetLoopRunning>>
      BY <1>10, ClearFacts
    <2> QED  BY <2>1, <2>2
  <1>11. CASE WaitEnds \/ WaitLapses
    <2>1. PICK t \in tasks, b \in Blocks :
              /\ tasks' = tasks \ {t} /\ Pending' = Pending \cup {b} /\ t \in Tasks
              /\ t.kind = "stop" => b = [k |-> "stopDone"]
              /\ t.kind = "teardown" => b = [k |-> "begin", gen |-> t.gen]
      BY <1>11, FreeFacts
    <2>2. UNCHANGED <<stopping, stopped, settings, userStopRequested, sessionGeneration,
                      packetLoopRunning>>
      BY <1>11, FreeFacts
    <2>3. b.k = "stopDone" => t.kind = "stop"
      BY <2>1 DEF Tasks
    <2> QED  BY <2>1, <2>2, <2>3
  <1>12. ASSUME NEW w \in DOMAIN worker, WorkerStep(w) \/ Outcome(w)
         PROVE  StopAsked'
    <2>1. WorkerActs(w) /\ UNCHANGED workerOnly
      BY <1>12, WorkerDoes
    <2>2. UNCHANGED <<stopping, stopped, settings, userStopRequested, sessionGeneration,
                      packetLoopRunning, tasks>>
      BY <2>1 DEF workerOnly, propVars, obsVars
    <2>3. \A b \in Pending' : b \in Pending \/ b \in {StageBlk, ReadyBlk}
                              \/ \E c \in CodesOfFailure : b = Fail(c)
      BY <2>1 DEF WorkerActs
    <2>4. \A b \in Pending' : b \in Pending \/ b.k # "stopDone"
      BY <2>3 DEF StageBlk, ReadyBlk, Fail
    <2> QED  BY <2>2, <2>4
  <1>13. CASE PacketsRead \/ PacketsWritten
    <2>1. UNCHANGED <<mainq, stopping, stopped, settings, userStopRequested,
                      sessionGeneration, packetLoopRunning, tasks>>
      BY <1>13 DEF PacketsRead, PacketsWritten, propVars, obsVars
    <2>2. Pending' = Pending
      BY <2>1, QueueKeptPending
    <2> QED  BY <2>1, <2>2
  <1> QED
    BY <1>2, <1>3, <1>4, <1>5, <1>6, <1>7, <1>8, <1>9, <1>10, <1>11, <1>12, <1>13
    DEF Next, MainBlock, GlobalStep


-----------------------------------------------------------------------------
(* The provider implements ProviderStatus.                                 *)

OrderInv == BaseInv /\ GensPast /\ StopAsked

\* The provider before the start.
LEMMA InitOrder == Init => OrderInv
  <1> SUFFICES ASSUME Init
               PROVE  OrderInv
    OBVIOUS
  <1>1. Pending = {}
    BY DEF Init, Pending, Entries
  <1>2. GensPast
    BY <1>1 DEF Init, GensPast
  <1>3. StopAsked
    BY <1>1 DEF Init, StopAsked, Posted, NotStopping
  <1> QED  BY <1>2, <1>3, InitBase DEF OrderInv

\* Every step keeps generations and stop requests in order.
LEMMA OrderKept ==
    ASSUME OrderInv, [Next]_vars
    PROVE  OrderInv'
  <1>1. BaseInv'
    BY BaseKept DEF OrderInv
  <1>2. CASE Next
    BY <1>1, <1>2, GensPastKept, StopAskedKept DEF OrderInv, BaseInv
  <1>3. CASE UNCHANGED vars
    <2>1. UNCHANGED <<mainq, stopping, stopped, settings, userStopRequested,
                      sessionGeneration, packetLoopRunning, tasks, timers>>
      BY <1>3 DEF vars, propVars, obsVars
    <2>2. Pending' = Pending
      BY <2>1, QueueKeptPending
    <2>3. GensPast' /\ StopAsked'
      BY <2>1, <2>2 DEF OrderInv, GensPast, StopAsked, Posted
    <2> QED  BY <1>1, <2>3 DEF OrderInv
  <1> QED  BY <1>2, <1>3

\* They are in order throughout.
LEMMA OrderInvariant == Spec => []OrderInv
  BY InitOrder, OrderKept, PTL DEF Spec

\* The phase in terms of the provider's properties.
PhaseIs ==
    /\ stopped => Phase = "gone"
    /\ ~stopped /\ userStopRequested => Phase = "stopping"
    /\ ~stopped /\ ~userStopRequested =>
         /\ cancel.code # None \/ answered = "error" => Phase = "failed"
         /\ cancel.code = None /\ answered = "ok" => Phase = "up"
         /\ cancel.code = None /\ answered = "no" =>
              Phase = IF sessionGeneration > 0 THEN "starting" ELSE "launched"

\* Exactly these are the phases.
LEMMA PhaseCases == OrderInv => PhaseIs
  <1> SUFFICES ASSUME OrderInv
               PROVE  PhaseIs
    OBVIOUS
  <1>1. answered \in {"no", "ok", "error"} /\ stopped \in BOOLEAN
        /\ userStopRequested \in BOOLEAN
    BY TypeParts DEF OrderInv, BaseInv, NameTypes, FlagTypes
  <1>2. stopped => userStopRequested
    BY DEF OrderInv, StopAsked
  <1>3. stopped => Phase = "gone"
    BY <1>2 DEF Phase
  <1>4. ~stopped /\ userStopRequested => Phase = "stopping"
    BY DEF Phase
  <1>5. ASSUME ~stopped, ~userStopRequested
        PROVE  /\ cancel.code # None \/ answered = "error" => Phase = "failed"
               /\ cancel.code = None /\ answered = "ok" => Phase = "up"
               /\ cancel.code = None /\ answered = "no" =>
                    Phase = IF sessionGeneration > 0 THEN "starting" ELSE "launched"
    BY <1>5 DEF Phase
  <1> QED  BY <1>3, <1>4, <1>5 DEF PhaseIs

\* A step that leaves these alone is not seen from outside.
LEMMA PhaseSame ==
    ASSUME UNCHANGED <<stopped, userStopRequested, cancel, answered, sessionGeneration>>
    PROVE  Phase' = Phase
  BY DEF Phase

\* A provider that was started and not stopped has a session or has failed.
LEMMA LivePhase ==
    ASSUME OrderInv, ~userStopRequested, sessionGeneration > 0
    PROVE  /\ Phase \in {"starting", "up", "failed"}
           /\ ~stopped /\ sessionGeneration \in Nat /\ answered \in {"no", "ok", "error"}
  <1>1. PhaseIs /\ answered \in {"no", "ok", "error"} /\ ~stopped /\ sessionGeneration \in Nat
    BY PhaseCases, TypeParts DEF OrderInv, BaseInv, StopAsked, NameTypes, NumberTypes
  <1> QED  BY <1>1 DEF PhaseIs

\* startTunnel is a start of the abstract provider, or its refusal.
LEMMA StartStatus ==
    ASSUME OrderInv, OrderInv', startTunnel
    PROVE  Provider!StartRefused \/ Provider!Start
  <1>1. PhaseIs /\ PhaseIs'
    <2>1. (OrderInv => PhaseIs)'
      BY PhaseCases, PTL
    <2> QED  BY <2>1, PhaseCases
  <1>2. /\ sessionGeneration = 0 /\ answered = "no" /\ cancel.code = None
        /\ ~userStopRequested /\ ~stopped /\ ~packetLoopRunning /\ lastErrorCode = None
    BY DEF startTunnel, OrderInv, BaseInv, Fresh
  <1>3. UNCHANGED <<stopped, userStopRequested, cancel, packetLoopRunning>>
    BY DEF startTunnel, obsVars
  <1>4. Phase = "launched"
    BY <1>1, <1>2 DEF PhaseIs
  <1>5. CASE answered' = "error"
    <2>1. Phase' = "failed" /\ lastErrorCode' = "missing_credentials"
      BY <1>1, <1>2, <1>3, <1>5 DEF PhaseIs, startTunnel, reportVars
    <2> QED  BY <1>3, <1>4, <2>1 DEF Provider!StartRefused
  <1>6. CASE answered' # "error"
    <2>1. sessionGeneration' = 1 /\ UNCHANGED <<answered, lastErrorCode>>
      BY <1>6 DEF startTunnel, reportVars
    <2>2. Phase' = "starting"
      BY <1>1, <1>2, <1>3, <2>1 DEF PhaseIs
    <2> QED  BY <1>2, <1>3, <1>4, <2>1, <2>2 DEF Provider!Start
  <1> QED  BY <1>5, <1>6

\* handleSessionFailure is a retry or a failure of the abstract provider.
LEMMA FailStatus ==
    ASSUME OrderInv, OrderInv', FailBlock
    PROVE  \/ UNCHANGED <<Phase, lastErrorCode, packetLoopRunning>>
           \/ \E c \in CodesOfFailure : Provider!Retry(c) \/ Provider!Fail(c)
  <1>1. PhaseIs /\ PhaseIs' /\ QueueTypes
    <2>1. (OrderInv => PhaseIs)'
      BY PhaseCases, PTL
    <2> QED  BY <2>1, PhaseCases, TypeParts DEF OrderInv, BaseInv
  <1> DEFINE b == Head(mainq)
  <1>2. b.code \in CodesOfFailure /\ b.gen \in Nat /\ b \in Pending
    BY <1>1, BlockRun DEF FailBlock, Numbered
  <1>3. UNCHANGED <<stopped, userStopRequested, sessionGeneration, packetLoopRunning>>
    BY DEF FailBlock
  <1>4. sessionGeneration > 0
    <2>1. Pending # {}
      BY <1>2
    <2>2. sessionGeneration # 0
      BY <2>1 DEF OrderInv, BaseInv, Fresh, Pending, Entries
    <2> QED  BY <2>2, TypeParts DEF OrderInv, BaseInv, NumberTypes
  <1>5. CASE Ignored(b.gen)
    <2>1. UNCHANGED <<cancel, answered, lastErrorCode>>
      BY <1>5 DEF FailBlock, reportVars
    <2> QED  BY <1>3, <2>1, PhaseSame
  <1>6. CASE ~Ignored(b.gen) /\ canReconnect(b.code)
    <2>1. UNCHANGED <<cancel, answered>> /\ lastErrorCode' = b.code
      BY <1>6 DEF FailBlock
    <2>2. ~userStopRequested /\ Phase' = Phase
      BY <1>3, <1>6, <2>1, PhaseSame DEF Ignored
    <2>3. Phase \in {"starting", "up", "failed"}
      BY <1>4, <2>2, LivePhase
    <2>4. Provider!Retry(b.code) \/ Provider!Fail(b.code)
      BY <1>3, <2>1, <2>2, <2>3 DEF Provider!Retry, Provider!Fail, Provider!HasSession
    <2> QED  BY <1>2, <2>4
  <1>7. CASE ~Ignored(b.gen) /\ ~canReconnect(b.code)
    <2>1. lastErrorCode' = b.code /\ cancel'.code = b.code
      BY <1>7 DEF FailBlock
    <2>2. b.code # None /\ ~userStopRequested
      BY <1>2, <1>7 DEF CodesOfFailure, None, Ignored
    <2>3. Phase \in {"starting", "up", "failed"} /\ ~stopped
      BY <1>4, <2>2, LivePhase
    <2>4. Phase' = "failed"
      BY <1>1, <1>3, <2>1, <2>2, <2>3 DEF PhaseIs
    <2>5. Provider!Fail(b.code)
      BY <1>3, <2>1, <2>3, <2>4 DEF Provider!Fail, Provider!HasSession
    <2> QED  BY <1>2, <2>5
  <1> QED  BY <1>5, <1>6, <1>7


\* The settings' completion brings the abstract provider up, fails or revives it.
LEMMA SettingsStatus ==
    ASSUME OrderInv, OrderInv', SettingsDone
    PROVE  \/ UNCHANGED <<Phase, lastErrorCode, packetLoopRunning>>
           \/ Provider!Fail("internal") \/ Provider!Up \/ Provider!Revive
  <1>1. PhaseIs /\ PhaseIs'
    <2>1. (OrderInv => PhaseIs)'
      BY PhaseCases, PTL
    <2> QED  BY <2>1, PhaseCases
  <1>2. UNCHANGED <<stopped, userStopRequested, sessionGeneration>>
    BY DEF SettingsDone
  <1>3. \/ UNCHANGED <<lastErrorCode, answered, cancel, packetLoopRunning>>
        \/ /\ sessionGeneration \in settings /\ lastErrorCode' = "internal"
           /\ cancel'.code = "settings" /\ UNCHANGED packetLoopRunning
        \/ /\ sessionGeneration \in settings /\ lastErrorCode' = None
           /\ answered' = completeStartWithError("ok") /\ packetLoopRunning' = TRUE
           /\ UNCHANGED cancel
    BY DEF SettingsDone, reportVars
  <1>4. CASE UNCHANGED <<lastErrorCode, answered, cancel, packetLoopRunning>>
    BY <1>2, <1>4, PhaseSame
  <1>5. ASSUME sessionGeneration \in settings
        PROVE  /\ Phase \in {"starting", "up", "failed"} /\ ~stopped /\ ~userStopRequested
               /\ answered \in {"no", "ok", "error"} /\ sessionGeneration > 0
    <2>1. ~userStopRequested
      BY <1>5 DEF OrderInv, StopAsked
    <2>2. sessionGeneration # 0
      BY <1>5 DEF OrderInv, BaseInv, Fresh
    <2>3. sessionGeneration > 0
      BY <2>2, TypeParts DEF OrderInv, BaseInv, NumberTypes
    <2> QED  BY <2>1, <2>3, LivePhase
  <1>6. CASE /\ sessionGeneration \in settings /\ lastErrorCode' = "internal"
             /\ cancel'.code = "settings" /\ UNCHANGED packetLoopRunning
    <2>1. Phase' = "failed"
      BY <1>1, <1>2, <1>5, <1>6 DEF PhaseIs, None
    <2> QED  BY <1>5, <1>6, <2>1 DEF Provider!Fail, Provider!HasSession
  <1>7. CASE /\ sessionGeneration \in settings /\ lastErrorCode' = None
             /\ answered' = completeStartWithError("ok") /\ packetLoopRunning' = TRUE
             /\ UNCHANGED cancel
    <2>1. CASE cancel.code # None \/ answered = "error"
      <3>1. Phase = "failed"
        BY <1>1, <1>5, <1>7, <2>1 DEF PhaseIs
      <3>2. cancel'.code # None \/ answered' = "error"
        BY <1>7, <2>1 DEF completeStartWithError
      <3>3. Phase' = "failed"
        BY <1>1, <1>2, <1>5, <1>7, <3>2 DEF PhaseIs
      <3> QED  BY <1>7, <3>1, <3>3 DEF Provider!Revive
    <2>2. CASE cancel.code = None /\ answered # "error"
      <3>1. Phase \in {"starting", "up"}
        BY <1>1, <1>5, <1>7, <2>2 DEF PhaseIs
      <3>2. cancel'.code = None /\ answered' = "ok"
        BY <1>5, <1>7, <2>2 DEF completeStartWithError
      <3>3. Phase' = "up"
        BY <1>1, <1>2, <1>5, <1>7, <3>2 DEF PhaseIs
      <3> QED  BY <1>7, <3>1, <3>3 DEF Provider!Up, Provider!HasSession
    <2> QED  BY <2>1, <2>2
  <1> QED  BY <1>3, <1>4, <1>6, <1>7

\* stopTunnel is a stop of the abstract provider.
LEMMA StopStatus ==
    ASSUME OrderInv, OrderInv', stopTunnel
    PROVE  \E byUser \in BOOLEAN : Provider!Stop(byUser)
  <1>1. PhaseIs'
    <2>1. (OrderInv => PhaseIs)'
      BY PhaseCases, PTL
    <2> QED  BY <2>1
  <1>2. ~userStopRequested /\ sessionGeneration # 0
    BY DEF stopTunnel
  <1>3. sessionGeneration > 0
    BY <1>2, TypeParts DEF OrderInv, BaseInv, NumberTypes
  <1>4. Phase \in {"starting", "up", "failed"} /\ ~stopped
    BY <1>2, <1>3, LivePhase
  <1>5. /\ userStopRequested' /\ stopped' = stopped /\ packetLoopRunning' = FALSE
        /\ lastErrorCode' \in {"cancelled", lastErrorCode}
    BY DEF stopTunnel, obsVars
  <1>6. Phase' = "stopping"
    BY <1>1, <1>4, <1>5 DEF PhaseIs
  <1>7. Provider!Stop(TRUE) \/ Provider!Stop(FALSE)
    BY <1>4, <1>5, <1>6 DEF Provider!Stop, Provider!HasSession
  <1> QED  BY <1>7

\* The last block of a stop ends the abstract provider.
LEMMA StoppedStatus ==
    ASSUME OrderInv, OrderInv', StopDoneBlock
    PROVE  UNCHANGED <<Phase, lastErrorCode, packetLoopRunning>> \/ Provider!Stopped
  <1>1. PhaseIs /\ PhaseIs' /\ QueueTypes
    <2>1. (OrderInv => PhaseIs)'
      BY PhaseCases, PTL
    <2> QED  BY <2>1, PhaseCases, TypeParts DEF OrderInv, BaseInv
  <1>2. Head(mainq) \in Pending /\ Head(mainq).k = "stopDone"
    BY <1>1, BlockRun DEF StopDoneBlock
  <1>3. userStopRequested
    BY <1>2 DEF OrderInv, StopAsked, Posted
  <1>4. stopped' /\ UNCHANGED <<lastErrorCode, packetLoopRunning>>
    BY DEF StopDoneBlock, reportVars
  <1>5. Phase' = "gone"
    BY <1>1, <1>4 DEF PhaseIs
  <1>6. CASE stopped
    BY <1>1, <1>4, <1>5, <1>6 DEF PhaseIs
  <1>7. CASE ~stopped
    <2>1. Phase = "stopping"
      BY <1>1, <1>3, <1>7 DEF PhaseIs
    <2> QED  BY <1>4, <1>5, <2>1 DEF Provider!Stopped
  <1> QED  BY <1>6, <1>7

\* A teardown ends the packet loop of the abstract provider.
LEMMA TeardownStatus ==
    ASSUME OrderInv, TeardownRead
    PROVE  UNCHANGED <<Phase, lastErrorCode, packetLoopRunning>> \/ Provider!LoopEnds
  <1>1. TypeOK
    BY DEF OrderInv, BaseInv
  <1>2. /\ UNCHANGED <<stopped, userStopRequested, cancel, answered, sessionGeneration,
                       lastErrorCode>>
        /\ ~packetLoopRunning' /\ tasks # {}
    BY <1>1, ReadFacts
  <1>3. Phase' = Phase
    BY <1>2, PhaseSame
  <1>4. packetLoopRunning' = FALSE
    BY DEF TeardownRead, LoopAfterTeardown
  <1>5. CASE userStopRequested
    <2>1. ~packetLoopRunning /\ packetLoopRunning \in BOOLEAN
      BY <1>5, TypeParts DEF OrderInv, BaseInv, StopAsked, FlagTypes
    <2> QED  BY <1>2, <1>3, <1>4, <2>1
  <1>6. CASE ~userStopRequested
    <2>1. sessionGeneration # 0
      BY <1>2 DEF OrderInv, BaseInv, Fresh
    <2>2. sessionGeneration > 0
      BY <1>1, <2>1, TypeParts DEF NumberTypes
    <2>3. Phase \in {"starting", "up", "failed"}
      BY <1>6, <2>2, LivePhase
    <2> QED  BY <1>2, <1>3, <1>4, <2>3 DEF Provider!LoopEnds, Provider!HasSession
  <1> QED  BY <1>5, <1>6

\* A new generation is not seen from outside.
LEMMA TimerStatus ==
    ASSUME OrderInv, TimerBlock
    PROVE  UNCHANGED <<Phase, lastErrorCode, packetLoopRunning>>
  <1>1. UNCHANGED <<stopped, userStopRequested, cancel, answered, lastErrorCode,
                    packetLoopRunning>>
    BY DEF TimerBlock, obsVars, reportVars
  <1>2. mainq # << >> /\ sessionGeneration \in Nat
    BY TypeParts DEF TimerBlock, RunsBlock, OrderInv, BaseInv, NumberTypes
  <1>3. sessionGeneration > 0
    <2>1. sessionGeneration # 0
      BY <1>2 DEF OrderInv, BaseInv, Fresh
    <2> QED  BY <1>2, <2>1
  <1>4. sessionGeneration' = sessionGeneration \/ sessionGeneration' = sessionGeneration + 1
    BY DEF TimerBlock
  <1>5. sessionGeneration' > 0
    BY <1>2, <1>3, <1>4
  <1>6. Phase' = Phase
    BY <1>1, <1>3, <1>5 DEF Phase
  <1> QED  BY <1>1, <1>6

\* Every step is one of the abstract provider, or not seen from outside.
LEMMA StatusStep ==
    ASSUME OrderInv, OrderInv', [Next]_vars
    PROVE  [Provider!Next]_(Provider!providerVars)
  <1>1. ASSUME UNCHANGED <<Phase, lastErrorCode, packetLoopRunning>>
        PROVE  [Provider!Next]_(Provider!providerVars)
    BY <1>1 DEF Provider!providerVars
  <1>2. ASSUME UNCHANGED <<stopped, userStopRequested, cancel, answered, sessionGeneration,
                           lastErrorCode, packetLoopRunning>>
        PROVE  [Provider!Next]_(Provider!providerVars)
    BY <1>1, <1>2, PhaseSame
  <1>3. CASE startTunnel
    BY <1>3, StartStatus DEF Provider!Next
  <1>4. CASE stopTunnel
    BY <1>4, StopStatus DEF Provider!Next
  <1>5. CASE FailBlock
    BY <1>1, <1>5, FailStatus DEF Provider!Next
  <1>6. CASE SettingsDone
    BY <1>1, <1>6, SettingsStatus DEF Provider!Next
  <1>7. CASE StopDoneBlock
    BY <1>1, <1>7, StoppedStatus DEF Provider!Next
  <1>8. CASE TeardownRead
    BY <1>1, <1>8, TeardownStatus DEF Provider!Next
  <1>9. CASE TimerBlock
    BY <1>1, <1>9, TimerStatus
  <1>10. CASE stopTunnelTake
    BY <1>2, <1>10 DEF stopTunnelTake, obsVars, reportVars
  <1>11. CASE StageBlock \/ ReadyBlock \/ BeginBlock
    BY <1>2, <1>11 DEF StageBlock, ReadyBlock, BeginBlock, obsVars, reportVars
  <1>12. CASE TimerDue \/ TeardownClear \/ PacketsRead \/ PacketsWritten
    BY <1>2, <1>12 DEF TimerDue, TeardownClear, PacketsRead, PacketsWritten, propVars,
        obsVars, reportVars
  <1>13. CASE WaitEnds \/ WaitLapses
    BY <1>2, <1>13 DEF WaitEnds, WaitLapses, FreesSession, propVars, obsVars
  <1>14. ASSUME NEW w \in DOMAIN worker, WorkerStep(w) \/ Outcome(w)
         PROVE  [Provider!Next]_(Provider!providerVars)
    <2>1. UNCHANGED workerOnly
      BY <1>14, WorkerSteady DEF OrderInv, BaseInv
    <2> QED  BY <1>2, <2>1 DEF workerOnly, propVars, obsVars
  <1>15. CASE UNCHANGED vars
    BY <1>2, <1>15 DEF vars, propVars, obsVars
  <1> QED
    BY <1>3, <1>4, <1>5, <1>6, <1>7, <1>8, <1>9, <1>10, <1>11, <1>12, <1>13, <1>14, <1>15
    DEF Next, MainBlock, GlobalStep

\* However its queues, threads, timers and sessions interleave, the provider
\* behaves towards the framework and the app as ProviderStatus says: a stale
\* failure, timer or settings completion changes nothing that they see.
THEOREM ProviderRefinement == Spec => ProviderImplemented
  <1>1. Init => Provider!Init
    <2> SUFFICES ASSUME Init
                 PROVE  Provider!Init
      OBVIOUS
    <2>1. PhaseIs
      BY InitOrder, PhaseCases
    <2>2. Phase = "launched"
      BY <2>1 DEF Init, PhaseIs, None
    <2> QED  BY <2>2 DEF Init, Provider!Init
  <1>2. OrderInv /\ OrderInv' /\ [Next]_vars => [Provider!Next]_(Provider!providerVars)
    BY StatusStep
  <1>3. Spec => Provider!Spec
    BY <1>1, <1>2, OrderInvariant, PTL DEF Spec, Provider!Spec
  <1> QED  BY <1>3 DEF ProviderImplemented


-----------------------------------------------------------------------------
(* One reconnect at a time.  From here on a worker is out of a failed      *)
(* start_ex before the reconnect delay is over: LateReports is FALSE.      *)

AllDone == \A w \in DOMAIN worker : worker[w].pc = "done"
AllEnded == \A w \in DOMAIN worker : worker[w].pc \in {"failed", "done"}
Fatal == \E w \in DOMAIN worker : worker[w].code = "fatal"
TeardownTask == \E t \in tasks : t.kind = "teardown"
\* The reconnect of the current generation is between its timer and its session.
Reconnecting == TeardownTask \/ Current("begin")
\* Block b is on queue q at most once.
Unique(q, b) == \A i, j \in DOMAIN q : q[i] = b /\ q[j] = b => i = j
BeginBlk == [k |-> "begin", gen |-> sessionGeneration]

\* Every worker but the last has ended, one that failed fatally is the last and
\* has ended, and a session is torn down by one task, after its worker.
Retired ==
    /\ \A w \in DOMAIN worker : w # Len(worker) => worker[w].pc = "done"
    /\ \A w \in DOMAIN worker :
         worker[w].code = "fatal" => w = Len(worker) /\ worker[w].pc = "done"
    /\ TeardownTask => AllDone
    /\ \A t, u \in tasks : t.kind = "teardown" /\ u.kind = "teardown" => t = u

\* In the current generation the failure, the delay, the teardown and the new
\* session follow one another, and none follows a fatal failure.
OneAtATime ==
    /\ Current("fail") \/ sessionGeneration \in timers => AllEnded
    /\ Current("timer") => AllDone
    /\ Reconnecting =>
         /\ AllDone /\ ~Current("fail") /\ ~Current("timer") /\ ~Current("ready")
         /\ sessionGeneration \notin timers /\ sessionGeneration \notin settings
    /\ \A t \in tasks : t.gen = sessionGeneration
    /\ ~(Current("begin") /\ TeardownTask)
    /\ Unique(mainq, BeginBlk)
    /\ Fatal =>
         /\ ~Reconnecting /\ ~Current("timer") /\ sessionGeneration \notin timers
         /\ \A b \in Pending : b.k = "fail" /\ b.gen = sessionGeneration => b.code = "fatal"

TokenInv == Retired /\ (~userStopRequested => OneAtATime)

\* A block that is at most once on a queue stays so, and is gone once it ran.
LEMMA UniqueKept ==
    ASSUME NEW S, NEW q \in Seq(S), NEW b
    PROVE  /\ Unique(q, b) /\ q # << >> => Unique(Tail(q), b)
           /\ Unique(q, b) /\ q # << >> /\ Head(q) = b => b \notin Entries(Tail(q))
           /\ \A e \in S : Unique(q, b) /\ e # b => Unique(Append(q, e), b)
           /\ b \in S /\ b \notin Entries(q) => Unique(Append(q, b), b)
           /\ b \notin Entries(q) => Unique(q, b)
  <1>1. ASSUME q # << >>
        PROVE  /\ Unique(q, b) => Unique(Tail(q), b)
               /\ Unique(q, b) /\ Head(q) = b => b \notin Entries(Tail(q))
    <2> DEFINE t == Tail(q)
    <2>1. /\ 1 \in DOMAIN q /\ Head(q) = q[1] /\ Len(q) \in Nat
          /\ DOMAIN t = 1 .. (Len(q) - 1)
          /\ \A i \in DOMAIN t : i + 1 \in DOMAIN q /\ t[i] = q[i + 1]
      BY <1>1, TailSeq
    <2> HIDE DEF t
    <2>2. ASSUME Unique(q, b)
          PROVE  Unique(t, b)
      <3> SUFFICES ASSUME NEW i \in DOMAIN t, NEW j \in DOMAIN t, t[i] = b, t[j] = b
                   PROVE  i = j
        BY DEF Unique
      <3>1. i + 1 = j + 1
        BY <2>1, <2>2 DEF Unique
      <3>2. i \in Int /\ j \in Int
        BY <2>1
      <3> QED  BY <3>1, <3>2
    <2>3. ASSUME Unique(q, b), Head(q) = b, b \in Entries(t)
          PROVE  FALSE
      <3>1. PICK i \in DOMAIN t : t[i] = b
        BY <2>3 DEF Entries
      <3>2. i + 1 = 1
        BY <2>1, <2>3, <3>1 DEF Unique
      <3>3. i \in 1 .. (Len(q) - 1)
        BY <2>1
      <3> QED  BY <2>1, <3>2, <3>3
    <2> QED  BY <2>2, <2>3 DEF t
  <1>2. ASSUME NEW e \in S
        PROVE  /\ Unique(q, b) /\ e # b => Unique(Append(q, e), b)
               /\ b \notin Entries(q) => Unique(Append(q, e), b)
    <2> DEFINE t == Append(q, e)
    <2>1. /\ \A i \in DOMAIN q : i \in DOMAIN t /\ t[i] = q[i]
          /\ t[Len(q) + 1] = e
          /\ \A i \in DOMAIN t : i \in DOMAIN q \/ i = Len(q) + 1
      BY AppendSeq
    <2> HIDE DEF t
    <2>2. Unique(q, b) /\ e # b => Unique(t, b)
      BY <2>1 DEF Unique
    <2>3. b \notin Entries(q) => Unique(t, b)
      BY <2>1 DEF Unique, Entries
    <2> QED  BY <2>2, <2>3 DEF t
  <1>3. b \notin Entries(q) => Unique(q, b)
    BY DEF Unique, Entries
  <1> QED  BY <1>1, <1>2, <1>3

\* Steps that bring nothing of the current generation and no worker.
Quiet ==
    /\ UNCHANGED <<worker, userStopRequested, sessionGeneration>>
    /\ \A b \in Pending' : b \in Pending \/ b.k \notin Numbered \/ b.gen # sessionGeneration
    /\ timers' \subseteq timers /\ settings' \subseteq settings
    /\ Unique(mainq, BeginBlk) => Unique(mainq', BeginBlk)
    /\ \A t \in tasks' : \E u \in tasks : t.kind = u.kind /\ t.gen = u.gen
    /\ \A t, u \in tasks' : t.kind = "teardown" /\ u.kind = "teardown" =>
           t = u \/ \E v, x \in tasks : v # x /\ v.kind = "teardown" /\ x.kind = "teardown"

\* A step that adds none of these and takes no worker back keeps the order.
LEMMA QuietToken ==
    ASSUME TokenInv, Quiet
    PROVE  TokenInv'
  <1>1. AllDone' = AllDone /\ AllEnded' = AllEnded /\ Fatal' = Fatal
    BY DEF Quiet, AllDone, AllEnded, Fatal
  <1>2. TeardownTask' => TeardownTask
    BY DEF Quiet, TeardownTask
  <1>3. ASSUME NEW k \in Numbered
        PROVE  Current(k)' => Current(k)
    BY DEF Quiet, Current
  <1>4. Reconnecting' => Reconnecting
    BY <1>2, <1>3 DEF Reconnecting, Numbered
  <1>5. Retired'
    BY <1>1, <1>2 DEF TokenInv, Retired, Quiet
  <1>6. BeginBlk' = BeginBlk /\ UNCHANGED <<sessionGeneration, userStopRequested>>
    BY DEF Quiet, BeginBlk
  <1>7. ASSUME ~userStopRequested
        PROVE  OneAtATime'
    <2>1. OneAtATime
      BY <1>7 DEF TokenInv
    <2>2. /\ (Current("fail") \/ sessionGeneration \in timers => AllEnded)'
          /\ (Current("timer") => AllDone)'
      BY <1>1, <1>3, <1>6, <2>1 DEF OneAtATime, Numbered, Quiet
    <2>3. (Reconnecting =>
              /\ AllDone /\ ~Current("fail") /\ ~Current("timer") /\ ~Current("ready")
              /\ sessionGeneration \notin timers /\ sessionGeneration \notin settings)'
      BY <1>1, <1>3, <1>4, <1>6, <2>1 DEF OneAtATime, Numbered, Quiet
    <2>4. (\A t \in tasks : t.gen = sessionGeneration)'
      BY <1>6, <2>1 DEF OneAtATime, Quiet
    <2>5. (~(Current("begin") /\ TeardownTask))' /\ Unique(mainq, BeginBlk)'
      BY <1>2, <1>3, <1>6, <2>1 DEF OneAtATime, Numbered, Quiet
    <2>6. (\A b \in Pending : b.k = "fail" /\ b.gen = sessionGeneration => b.code = "fatal")'
          \/ ~Fatal
      BY <1>6, <2>1 DEF OneAtATime, Numbered, Quiet
    <2>7. (Fatal => /\ ~Reconnecting /\ ~Current("timer") /\ sessionGeneration \notin timers)'
      BY <1>1, <1>3, <1>4, <1>6, <2>1 DEF OneAtATime, Numbered, Quiet
    <2> QED  BY <1>1, <2>2, <2>3, <2>4, <2>5, <2>6, <2>7 DEF OneAtATime
  <1> QED  BY <1>5, <1>6, <1>7 DEF TokenInv


\* Running a block leaves the queue shorter.
LEMMA RunUnique ==
    ASSUME QueueTypes, NEW k, RunsBlock(k), NEW b
    PROVE  /\ Unique(mainq, b) => Unique(mainq', b)
           /\ Unique(mainq, b) /\ Head(mainq) = b => b \notin Pending'
  BY HeadBlock, UniqueKept DEF QueueTypes, Pending

\* These steps do nothing of the kind.
LEMMA MainQuiet ==
    ASSUME OrderInv,
           \/ StageBlock \/ StopDoneBlock \/ SettingsDone \/ PacketsRead \/ PacketsWritten
           \/ ReadyBlock /\ (sessionGeneration # Head(mainq).gen \/ userStopRequested)
           \/ FailBlock /\ UNCHANGED timers
           \/ TimerBlock /\ (userStopRequested \/ sessionGeneration # Head(mainq).gen)
           \/ BeginBlock /\ (userStopRequested \/ sessionGeneration # Head(mainq).gen)
    PROVE  Quiet
  <1>1. QueueTypes
    BY TypeParts DEF OrderInv, BaseInv
  <1>2. ASSUME UNCHANGED <<worker, userStopRequested, sessionGeneration, timers, tasks>>,
               settings' \subseteq settings, UNCHANGED mainq \/ \E k : RunsBlock(k)
        PROVE  Quiet
    <2>1. CASE UNCHANGED mainq
      BY <1>2, <2>1, QueueKeptPending DEF Quiet
    <2>2. CASE \E k : RunsBlock(k)
      <3>1. Pending' \subseteq Pending /\ (Unique(mainq, BeginBlk) => Unique(mainq', BeginBlk))
        BY <1>1, <2>2, BlockRun, RunUnique
      <3> QED  BY <1>2, <3>1 DEF Quiet
    <2> QED  BY <1>2, <2>1, <2>2
  <1>3. CASE StageBlock \/ StopDoneBlock
    BY <1>2, <1>3 DEF StageBlock, StopDoneBlock
  <1>4. CASE SettingsDone
    BY <1>2, <1>4 DEF SettingsDone
  <1>5. CASE PacketsRead \/ PacketsWritten
    BY <1>2, <1>5 DEF PacketsRead, PacketsWritten, propVars
  <1>6. CASE ReadyBlock /\ (sessionGeneration # Head(mainq).gen \/ userStopRequested)
    BY <1>2, <1>6 DEF ReadyBlock
  <1>7. CASE FailBlock /\ UNCHANGED timers
    BY <1>2, <1>7 DEF FailBlock
  <1>8. CASE TimerBlock /\ (userStopRequested \/ sessionGeneration # Head(mainq).gen)
    BY <1>2, <1>8 DEF TimerBlock
  <1>9. CASE BeginBlock /\ (userStopRequested \/ sessionGeneration # Head(mainq).gen)
    BY <1>2, <1>9 DEF BeginBlock, beginSessionWithGeneration
  <1> QED  BY <1>3, <1>4, <1>5, <1>6, <1>7, <1>8, <1>9

\* The first session begins with nothing else under way.
LEMMA StartToken ==
    ASSUME OrderInv, TokenInv, startTunnel
    PROVE  TokenInv'
  <1>1. /\ mem = << >> /\ worker = << >> /\ tasks = {} /\ mainq = << >>
        /\ timers = {} /\ settings = {} /\ ~userStopRequested
    BY DEF OrderInv, BaseInv, Fresh, startTunnel
  <1>2. /\ UNCHANGED <<tasks, mainq, timers, settings, userStopRequested>>
    BY DEF startTunnel
  <1>3. CASE sessionGeneration' # 1
    <2>1. UNCHANGED <<worker, sessionGeneration>>
      BY <1>3 DEF startTunnel
    <2>2. Quiet
      BY <1>2, <2>1, QueueKeptPending DEF Quiet
    <2> QED  BY <2>2, QuietToken
  <1>4. CASE sessionGeneration' = 1
    <2>1. worker' = <<NewWorker>>
      BY <1>4 DEF startTunnel, NewWorker
    <2>2. /\ DOMAIN worker' = {1} /\ Len(worker') = 1
          /\ worker'[1].pc = "new" /\ worker'[1].code = "none"
      BY <2>1 DEF NewWorker
    <2>3. Pending' = {} /\ tasks' = {} /\ timers' = {} /\ settings' = {} /\ mainq' = << >>
      BY <1>1, <1>2 DEF Pending, Entries
    <2>4. ~TeardownTask' /\ ~Fatal' /\ ~Reconnecting'
          /\ ~Current("fail")' /\ ~Current("timer")'
      BY <2>2, <2>3 DEF TeardownTask, Fatal, Reconnecting, Current
    <2>5. Unique(mainq, BeginBlk)'
      BY <2>3 DEF Unique
    <2>6. Retired'
      BY <2>2, <2>3, <2>4 DEF Retired
    <2>7. OneAtATime'
      BY <2>3, <2>4, <2>5 DEF OneAtATime, Reconnecting
    <2> QED  BY <2>6, <2>7 DEF TokenInv
  <1> QED  BY <1>3, <1>4

\* After a stop request only the workers' order counts.
LEMMA StopToken ==
    ASSUME OrderInv, TokenInv, stopTunnel \/ stopTunnelTake
    PROVE  TokenInv'
  <1>1. userStopRequested' /\ UNCHANGED worker
    BY DEF stopTunnel, stopTunnelTake, OrderInv, StopAsked
  <1>2. \A t \in tasks' : t \in tasks \/ t.kind = "stop"
    BY DEF stopTunnel, stopTunnelTake
  <1>3. TeardownTask' => TeardownTask
    BY <1>2 DEF TeardownTask
  <1>4. AllDone' = AllDone
    BY <1>1 DEF AllDone
  <1>5. Retired'
    BY <1>1, <1>2, <1>3, <1>4 DEF TokenInv, Retired
  <1> QED  BY <1>1, <1>5 DEF TokenInv

\* Settings are asked for by a session that has not failed.
LEMMA ReadyToken ==
    ASSUME OrderInv, TokenInv, ReadyBlock
    PROVE  TokenInv'
  <1>1. CASE sessionGeneration # Head(mainq).gen \/ userStopRequested
    BY <1>1, MainQuiet, QuietToken
  <1>2. CASE ~(sessionGeneration # Head(mainq).gen \/ userStopRequested)
    <2>1. QueueTypes
      BY TypeParts DEF OrderInv, BaseInv
    <2>2. /\ UNCHANGED <<worker, tasks, timers, userStopRequested, sessionGeneration>>
          /\ settings' = settings \cup {sessionGeneration}
      BY <1>2 DEF ReadyBlock
    <2>3. /\ Pending' \subseteq Pending /\ Head(mainq) \in Pending /\ Head(mainq).k = "ready"
          /\ Unique(mainq, BeginBlk) => Unique(mainq', BeginBlk)
      BY <2>1, BlockRun, RunUnique DEF ReadyBlock
    <2>4. OneAtATime /\ Current("ready") /\ ~Reconnecting
      BY <1>2, <2>3 DEF TokenInv, OneAtATime, Current
    <2>5. /\ AllDone' = AllDone /\ AllEnded' = AllEnded /\ Fatal' = Fatal
          /\ TeardownTask' = TeardownTask /\ BeginBlk' = BeginBlk
      BY <2>2 DEF AllDone, AllEnded, Fatal, TeardownTask, BeginBlk
    <2>6. \A k \in Numbered : Current(k)' => Current(k)
      BY <2>2, <2>3 DEF Current
    <2>7. ~Reconnecting'
      BY <2>4, <2>5, <2>6 DEF Reconnecting, Numbered
    <2>8. Retired'
      BY <2>2, <2>5 DEF TokenInv, Retired
    <2>9. /\ (Current("fail") \/ sessionGeneration \in timers => AllEnded)'
          /\ (Current("timer") => AllDone)'
      BY <2>2, <2>4, <2>5, <2>6 DEF OneAtATime, Numbered
    <2>10. (\A t \in tasks : t.gen = sessionGeneration)' /\ Unique(mainq, BeginBlk)'
      BY <2>2, <2>3, <2>4, <2>5 DEF OneAtATime
    <2>11. (Fatal => /\ ~Reconnecting /\ ~Current("timer") /\ sessionGeneration \notin timers)'
      BY <2>2, <2>4, <2>5, <2>6, <2>7 DEF OneAtATime, Numbered
    <2>12. (Fatal => \A b \in Pending :
                        b.k = "fail" /\ b.gen = sessionGeneration => b.code = "fatal")'
      BY <2>2, <2>3, <2>4, <2>5 DEF OneAtATime
    <2>13. OneAtATime'
      BY <2>7, <2>9, <2>10, <2>11, <2>12 DEF OneAtATime, Reconnecting
    <2> QED  BY <2>8, <2>13 DEF TokenInv
  <1> QED  BY <1>1, <1>2

\* A delay begins after the workers have ended, and none after a fatal failure.
LEMMA FailToken ==
    ASSUME OrderInv, TokenInv, FailBlock
    PROVE  TokenInv'
  <1>1. CASE UNCHANGED timers
    BY <1>1, MainQuiet, QuietToken
  <1>2. CASE timers' # timers
    <2>1. QueueTypes
      BY TypeParts DEF OrderInv, BaseInv
    <2> DEFINE b == Head(mainq)
    <2>2. /\ UNCHANGED <<worker, tasks, settings, userStopRequested, sessionGeneration>>
          /\ timers' = timers \cup {b.gen} /\ b.code # "fatal"
          /\ sessionGeneration = b.gen /\ ~userStopRequested
      BY <1>2 DEF FailBlock, Ignored, canReconnect
    <2>3. /\ Pending' \subseteq Pending /\ b \in Pending /\ b.k = "fail"
          /\ Unique(mainq, BeginBlk) => Unique(mainq', BeginBlk)
      BY <2>1, BlockRun, RunUnique DEF FailBlock
    <2> HIDE DEF b
    <2>4. OneAtATime /\ Current("fail") /\ ~Reconnecting /\ ~Fatal /\ AllEnded
      BY <2>2, <2>3 DEF TokenInv, OneAtATime, Current
    <2>5. /\ AllDone' = AllDone /\ AllEnded' = AllEnded /\ Fatal' = Fatal
          /\ TeardownTask' = TeardownTask /\ BeginBlk' = BeginBlk
      BY <2>2 DEF AllDone, AllEnded, Fatal, TeardownTask, BeginBlk
    <2>6. \A k \in Numbered : Current(k)' => Current(k)
      BY <2>2, <2>3 DEF Current
    <2>7. ~Reconnecting'
      BY <2>4, <2>5, <2>6 DEF Reconnecting, Numbered
    <2>8. Retired'
      BY <2>2, <2>5 DEF TokenInv, Retired
    <2>9. (Current("timer") => AllDone)'
      BY <2>2, <2>4, <2>5, <2>6 DEF OneAtATime, Numbered
    <2>10. (\A t \in tasks : t.gen = sessionGeneration)' /\ Unique(mainq, BeginBlk)'
      BY <2>2, <2>3, <2>4, <2>5 DEF OneAtATime
    <2>11. OneAtATime'
      BY <2>4, <2>5, <2>7, <2>9, <2>10 DEF OneAtATime, Reconnecting
    <2> QED  BY <2>8, <2>11 DEF TokenInv
  <1> QED  BY <1>1, <1>2


\* The delay is over: by then the worker that failed has also reported.
LEMMA DueToken ==
    ASSUME ~LateReports, OrderInv, TokenInv, TimerDue
    PROVE  TokenInv'
  <1>1. QueueTypes /\ timers \subseteq Nat /\ sessionGeneration \in Nat
    BY TypeParts DEF OrderInv, BaseInv, NumberTypes
  <1>2. PICK g \in timers : /\ timers' = timers \ {g}
                            /\ mainq' = Append(mainq, [k |-> "timer", gen |-> g])
    BY DEF TimerDue
  <1> DEFINE e == [k |-> "timer", gen |-> g]
  <1>3. e \in Blocks /\ e.k = "timer" /\ e.gen = g
    BY <1>1, NewBlocks
  <1>4. Pending' = Pending \cup {e}
    BY <1>1, <1>2, <1>3, BlockPosted
  <1>5. e # BeginBlk
    BY DEF BeginBlk
  <1>6. mainq' = Append(mainq, e)
    BY <1>2
  <1> HIDE DEF e
  <1>7. Unique(mainq, BeginBlk) => Unique(mainq', BeginBlk)
    BY <1>1, <1>3, <1>5, <1>6, UniqueKept DEF QueueTypes
  <1>8. UNCHANGED <<worker, tasks, settings, userStopRequested, sessionGeneration>>
    BY DEF TimerDue, propVars
  <1>9. CASE g # sessionGeneration
    <2>1. Quiet
      BY <1>2, <1>3, <1>4, <1>7, <1>8, <1>9 DEF Quiet
    <2> QED  BY <2>1, QuietToken
  <1>10. CASE g = sessionGeneration
    <2>1. \A w \in DOMAIN worker : worker[w].pc # "failed"
      BY DEF TimerDue
    <2>2. /\ AllDone' = AllDone /\ AllEnded' = AllEnded /\ Fatal' = Fatal
          /\ TeardownTask' = TeardownTask /\ BeginBlk' = BeginBlk
      BY <1>8 DEF AllDone, AllEnded, Fatal, TeardownTask, BeginBlk
    <2>3. Retired'
      BY <1>8, <2>2 DEF TokenInv, Retired
    <2>4. ASSUME ~userStopRequested
          PROVE  OneAtATime'
      <3>1. OneAtATime /\ AllEnded /\ ~Reconnecting /\ ~Fatal
        BY <1>10, <2>4 DEF TokenInv, OneAtATime
      <3>2. AllDone
        BY <2>1, <3>1 DEF AllEnded, AllDone
      <3>3. \A k \in Numbered : k # "timer" /\ Current(k)' => Current(k)
        BY <1>3, <1>4, <1>8 DEF Current
      <3>4. ~Reconnecting'
        BY <2>2, <3>1, <3>3 DEF Reconnecting, Numbered
      <3>5. AllEnded
        BY <3>1
      <3>6. (\A t \in tasks : t.gen = sessionGeneration)' /\ Unique(mainq, BeginBlk)'
        BY <1>7, <1>8, <2>2, <3>1 DEF OneAtATime
      <3> QED  BY <2>2, <3>1, <3>2, <3>4, <3>5, <3>6 DEF OneAtATime, Reconnecting
    <2> QED  BY <1>8, <2>3, <2>4 DEF TokenInv
  <1> QED  BY <1>9, <1>10

\* The timer's block starts the one teardown of the new generation.
LEMMA TimerToken ==
    ASSUME OrderInv, TokenInv, TimerBlock
    PROVE  TokenInv'
  <1>1. CASE userStopRequested \/ sessionGeneration # Head(mainq).gen
    BY <1>1, MainQuiet, QuietToken
  <1>2. CASE ~(userStopRequested \/ sessionGeneration # Head(mainq).gen)
    <2>1. /\ QueueTypes /\ sessionGeneration \in Nat /\ timers \subseteq Nat
          /\ settings \subseteq Nat /\ \A b \in Pending : b.k \in Numbered => b.gen \in Nat
      BY TypeParts, PendingBlocks DEF OrderInv, BaseInv, NumberTypes
    <2> DEFINE n == [kind |-> "teardown", pc |-> "read", gen |-> sessionGeneration + 1,
                     s |-> 0, w |-> 0]
    <2>2. /\ UNCHANGED <<worker, timers, settings, userStopRequested>>
          /\ sessionGeneration' = sessionGeneration + 1 /\ tasks' = tasks \cup {n}
      BY <1>2 DEF TimerBlock
    <2>3. n.kind = "teardown" /\ n.gen = sessionGeneration'
      BY <2>2
    <2> HIDE DEF n
    <2>4. Pending' \subseteq Pending /\ Head(mainq) \in Pending /\ Head(mainq).k = "timer"
      BY <2>1, BlockRun DEF TimerBlock
    <2>5. OneAtATime /\ Current("timer") /\ ~Reconnecting /\ ~Fatal /\ AllDone
      BY <1>2, <2>4 DEF TokenInv, OneAtATime, Current
    <2>6. tasks = {}
      BY <1>2, <2>5 DEF OrderInv, StopAsked, Reconnecting, TeardownTask
    <2>7. tasks' = {n}
      BY <2>2, <2>6
    <2>8. \A b \in Pending' : b.k \in Numbered => b.gen # sessionGeneration'
      BY <2>1, <2>2, <2>4 DEF OrderInv, GensPast
    <2>9. sessionGeneration' \notin timers' /\ sessionGeneration' \notin settings'
      BY <2>1, <2>2 DEF OrderInv, GensPast
    <2>10. /\ ~Current("fail")' /\ ~Current("timer")' /\ ~Current("ready")'
           /\ ~Current("begin")'
      BY <2>8 DEF Current, Numbered
    <2>11. AllDone' /\ ~Fatal'
      BY <2>2, <2>5 DEF AllDone, Fatal
    <2>12. Unique(mainq, BeginBlk)'
      <3>1. BeginBlk'.k = "begin" /\ BeginBlk'.gen = sessionGeneration'
        BY DEF BeginBlk
      <3>2. BeginBlk' \notin Pending'
        BY <2>8, <3>1 DEF Numbered
      <3> QED  BY <3>2 DEF Unique, Pending, Entries
    <2>13. Retired'
      BY <2>2, <2>7, <2>11 DEF TokenInv, Retired
    <2>14. OneAtATime'
      BY <2>3, <2>7, <2>9, <2>10, <2>11, <2>12 DEF OneAtATime, AllEnded, AllDone
    <2> QED  BY <2>13, <2>14 DEF TokenInv
  <1> QED  BY <1>1, <1>2

\* A new session begins when every worker has ended.
LEMMA BeginToken ==
    ASSUME OrderInv, TokenInv, BeginBlock
    PROVE  TokenInv'
  <1>1. CASE userStopRequested \/ sessionGeneration # Head(mainq).gen
    BY <1>1, MainQuiet, QuietToken
  <1>2. CASE ~(userStopRequested \/ sessionGeneration # Head(mainq).gen)
    <2>1. QueueTypes /\ HeapTypes
      BY TypeParts DEF OrderInv, BaseInv
    <2>2. UNCHANGED <<tasks, timers, settings, userStopRequested, sessionGeneration>>
      BY DEF BeginBlock
    <2>3. Pending' \subseteq Pending /\ Head(mainq) \in Pending /\ Head(mainq).k = "begin"
      BY <2>1, BlockRun DEF BeginBlock
    <2>4. OneAtATime /\ Current("begin") /\ Reconnecting /\ ~Fatal /\ AllDone /\ ~TeardownTask
      BY <1>2, <2>3 DEF TokenInv, OneAtATime, Current, Reconnecting
    <2>5. Begins
      <3>1. worker' # worker
        <4>1. worker' = Append(worker, NewWorker)
          BY <1>2 DEF BeginBlock, beginSessionWithGeneration, NewWorker
        <4>2. Len(worker') = Len(worker) + 1 /\ Len(worker) \in Nat
          BY <2>1, <4>1, NewCells, AppendProperties, LenProperties DEF HeapTypes
        <4> QED  BY <4>2
      <3> QED  BY <2>1, <3>1, BeginHeap
    <2>6. Head(mainq) = BeginBlk
      <3>1. Head(mainq) \in Blocks
        BY <2>1, <2>3, PendingBlocks
      <3> QED  BY <1>2, <2>3, <3>1 DEF Blocks, BeginBlk
    <2>7. BeginBlk \notin Pending' /\ Unique(mainq', BeginBlk) /\ BeginBlk' = BeginBlk
      BY <2>1, <2>2, <2>4, <2>6, RunUnique DEF BeginBlock, OneAtATime, BeginBlk
    <2>8. ~Current("begin")'
      <3> SUFFICES ASSUME NEW b \in Pending', b.k = "begin", b.gen = sessionGeneration
                   PROVE  FALSE
        BY <2>2 DEF Current
      <3>1. b \in Blocks
        BY <2>1, <2>3, PendingBlocks
      <3>2. b = BeginBlk
        BY <3>1 DEF Blocks, BeginBlk
      <3> QED  BY <2>7, <3>2
    <2>9. ~Current("fail")' /\ ~Current("timer")'
      <3>1. ~Current("fail") /\ ~Current("timer")
        BY <2>4 DEF OneAtATime
      <3> QED  BY <2>2, <2>3, <3>1 DEF Current
    <2>10. ~TeardownTask' /\ ~Reconnecting'
      BY <2>2, <2>4, <2>8 DEF TeardownTask, Reconnecting
    <2>11. Len(worker) \in Nat /\ DOMAIN worker = 1 .. Len(worker)
      BY <2>1, LenProperties DEF HeapTypes
    <2>12. ASSUME NEW w \in DOMAIN worker'
           PROVE  \/ w \in DOMAIN worker /\ worker'[w].pc = "done" /\ worker'[w].code # "fatal"
                  \/ w = Len(worker') /\ worker'[w].code # "fatal"
      <3>1. w \in DOMAIN worker \/ w = Len(worker) + 1
        BY <2>5, <2>11 DEF Begins
      <3>2. CASE w \in DOMAIN worker
        BY <2>4, <2>5, <3>2 DEF Begins, AllDone, Fatal
      <3>3. CASE w = Len(worker) + 1
        BY <2>5, <3>3 DEF Begins, NewWorker
      <3> QED  BY <3>1, <3>2, <3>3
    <2>13. ~Fatal'
      BY <2>12 DEF Fatal
    <2>14. Retired'
      BY <2>10, <2>12, <2>2 DEF TokenInv, Retired
    <2>15. /\ sessionGeneration' \notin timers' /\ sessionGeneration' \notin settings'
           /\ \A t \in tasks' : t.gen = sessionGeneration'
      BY <2>2, <2>4 DEF OneAtATime
    <2>16. OneAtATime'
      BY <2>7, <2>9, <2>10, <2>13, <2>15 DEF OneAtATime, Reconnecting
    <2> QED  BY <2>14, <2>16 DEF TokenInv
  <1> QED  BY <1>1, <1>2


\* A teardown goes on.
LEMMA TeardownToken ==
    ASSUME OrderInv, TokenInv, TeardownRead \/ TeardownClear
    PROVE  TokenInv'
  <1>1. TypeOK
    BY DEF OrderInv, BaseInv
  <1>2. PICK t \in tasks, n \in Tasks :
            tasks' = (tasks \ {t}) \cup {n} /\ n.kind = t.kind /\ n.gen = t.gen
    BY <1>1, ReadFacts, ClearFacts
  <1>3. Pending' = Pending /\ UNCHANGED <<worker, userStopRequested, sessionGeneration, mainq,
                                          timers, settings>>
    BY <1>1, ReadFacts, ClearFacts
  <1>4. ASSUME NEW x \in tasks', NEW u \in tasks', x.kind = "teardown", u.kind = "teardown",
               x # u
        PROVE  \E v, y \in tasks : v # y /\ v.kind = "teardown" /\ y.kind = "teardown"
    BY <1>2, <1>4
  <1>5. Quiet
    BY <1>2, <1>3, <1>4 DEF Quiet
  <1> QED  BY <1>5, QuietToken

\* A teardown hands over to the begin block of its generation.
LEMMA FreeToken ==
    ASSUME OrderInv, TokenInv, WaitEnds \/ WaitLapses
    PROVE  TokenInv'
  <1>1. TypeOK /\ QueueTypes
    BY TypeParts DEF OrderInv, BaseInv
  <1>2. PICK t \in tasks, b \in Blocks :
            /\ tasks' = tasks \ {t} /\ t \in Tasks
            /\ mainq' = Append(mainq, b) /\ Pending' = Pending \cup {b}
            /\ t.kind = "stop" => b = [k |-> "stopDone"]
            /\ t.kind = "teardown" => b = [k |-> "begin", gen |-> t.gen]
    BY <1>1, FreeFacts
  <1>3. UNCHANGED <<worker, userStopRequested, sessionGeneration, timers, settings>>
    BY <1>1, FreeFacts
  <1>4. /\ AllDone' = AllDone /\ AllEnded' = AllEnded /\ Fatal' = Fatal
        /\ TeardownTask' => TeardownTask
        /\ BeginBlk' = BeginBlk
    BY <1>2, <1>3 DEF AllDone, AllEnded, Fatal, TeardownTask, BeginBlk
  <1>5. Retired'
    BY <1>2, <1>3, <1>4 DEF TokenInv, Retired
  <1>6. ASSUME ~userStopRequested
        PROVE  OneAtATime'
    <2>1. t.kind = "teardown" /\ OneAtATime
      BY <1>6 DEF OrderInv, StopAsked, TokenInv
    <2>2. TeardownTask /\ Reconnecting /\ ~Current("begin")
      BY <2>1 DEF TeardownTask, Reconnecting, OneAtATime
    <2>3. t.gen = sessionGeneration /\ b = BeginBlk /\ b.k = "begin"
      BY <1>2, <2>1 DEF OneAtATime, BeginBlk
    <2>4. ~TeardownTask'
      BY <1>2, <2>1 DEF TeardownTask, TokenInv, Retired
    <2>5. \A k \in Numbered : k # "begin" /\ Current(k)' => Current(k)
      BY <1>2, <1>3, <2>3 DEF Current
    <2>6. BeginBlk \notin Pending
      BY <2>2 DEF Current, BeginBlk
    <2>7. Unique(mainq, BeginBlk)'
      BY <1>1, <1>2, <1>4, <2>3, <2>6, UniqueKept DEF QueueTypes, Pending
    <2>8. /\ AllDone /\ ~Current("fail") /\ ~Current("timer") /\ ~Current("ready")
          /\ sessionGeneration \notin timers /\ sessionGeneration \notin settings /\ ~Fatal
      BY <2>1, <2>2 DEF OneAtATime
    <2>9. /\ AllDone' /\ ~Current("fail")' /\ ~Current("timer")' /\ ~Current("ready")'
          /\ sessionGeneration' \notin timers' /\ sessionGeneration' \notin settings'
          /\ ~Fatal'
      BY <1>3, <1>4, <2>5, <2>8 DEF Numbered
    <2>10. \A u \in tasks' : u.gen = sessionGeneration'
      BY <1>2, <1>3, <2>1 DEF OneAtATime
    <2> QED  BY <2>4, <2>7, <2>9, <2>10 DEF OneAtATime
  <1> QED  BY <1>3, <1>5, <1>6 DEF TokenInv

\* A worker that acts is the last, and its failure is the first of the generation.
LEMMA WorkerToken ==
    ASSUME OrderInv, TokenInv, NEW w \in DOMAIN worker, WorkerStep(w) \/ Outcome(w)
    PROVE  TokenInv'
  <1>1. TypeOK /\ HeapTypes /\ QueueTypes
    BY TypeParts DEF OrderInv, BaseInv
  <1>2. WorkerActs(w) /\ UNCHANGED workerOnly
    BY <1>1, WorkerDoes
  <1>3. UNCHANGED <<tasks, timers, settings, userStopRequested, sessionGeneration>>
    BY <1>2 DEF workerOnly, propVars
  <1>4. /\ worker[w].pc # "done" /\ Len(worker') = Len(worker)
        /\ DOMAIN worker' = DOMAIN worker
        /\ \A i \in DOMAIN worker : i # w => worker'[i] = worker[i]
    BY <1>2 DEF WorkerActs
  <1>5. ~AllDone /\ w = Len(worker) /\ ~TeardownTask
    BY <1>4 DEF AllDone, TokenInv, Retired
  <1>6. \A i \in DOMAIN worker : i # w => worker[i].pc = "done"
    BY <1>5 DEF TokenInv, Retired
  <1>7. ~Fatal
    BY <1>4, <1>5 DEF Fatal, TokenInv, Retired
  <1>8. ~TeardownTask'
    BY <1>3, <1>5 DEF TeardownTask
  <1>9. worker'[w].code = "fatal" => worker'[w].pc = "done"
    BY <1>2, <1>7 DEF WorkerActs, Fatal
  <1>10. Retired'
    <2>1. \A i \in DOMAIN worker' : i # Len(worker') => worker'[i].pc = "done"
      BY <1>4, <1>5, <1>6
    <2>2. \A i \in DOMAIN worker' :
             worker'[i].code = "fatal" => i = Len(worker') /\ worker'[i].pc = "done"
      BY <1>4, <1>5, <1>7, <1>9 DEF Fatal
    <2> QED  BY <1>3, <1>8, <2>1, <2>2 DEF Retired, TokenInv
  <1>11. ASSUME ~userStopRequested
         PROVE  OneAtATime'
    <2>1. OneAtATime /\ ~Reconnecting /\ ~Current("timer")
      BY <1>5, <1>11 DEF TokenInv, OneAtATime
    <2>2. /\ \A b \in Pending' : b \in Pending \/ b.k \in {"stage", "ready", "fail"}
      <3>1. \A b \in Pending' : b \in Pending \/ b \in {StageBlk, ReadyBlk}
                                \/ \E c \in CodesOfFailure : b = Fail(c)
        BY <1>2 DEF WorkerActs
      <3> QED  BY <3>1 DEF StageBlk, ReadyBlk, Fail
    <2>3. ~Current("timer")' /\ ~Current("begin")'
      BY <1>3, <2>1, <2>2 DEF Current, Reconnecting
    <2>4. ~Reconnecting'
      BY <1>8, <2>3 DEF Reconnecting
    <2>5. BeginBlk \notin Pending' /\ BeginBlk' = BeginBlk
      BY <1>3, <2>3 DEF Current, BeginBlk
    <2>6. Unique(mainq, BeginBlk)'
      BY <2>5 DEF Unique, Pending, Entries
    <2>7. \A t \in tasks' : t.gen = sessionGeneration'
      BY <1>3, <2>1 DEF OneAtATime
    <2>8. CASE worker[w].pc = "failed"
      <3>1. worker'[w].pc = "done" /\ worker'[w].code # "fatal"
        BY <1>2, <2>8 DEF WorkerActs
      <3>2. AllDone' /\ AllEnded' /\ ~Fatal'
        BY <1>4, <1>6, <1>7, <3>1 DEF AllDone, AllEnded, Fatal
      <3> QED  BY <2>3, <2>4, <2>6, <2>7, <3>2 DEF OneAtATime, Reconnecting
    <2>9. CASE worker[w].pc # "failed"
      <3>1. ~AllEnded
        BY <1>4, <2>9 DEF AllEnded
      <3>2. ~Current("fail") /\ sessionGeneration \notin timers
        BY <2>1, <3>1 DEF OneAtATime
      <3>3. CASE /\ Pending' \in {Pending, Pending \cup {StageBlk}, Pending \cup {StageBlk, ReadyBlk}}
                 /\ worker'[w].code = worker[w].code
        <4>1. ~Current("fail")'
          BY <1>3, <3>2, <3>3 DEF Current, StageBlk, ReadyBlk
        <4>2. ~Fatal'
          BY <1>4, <1>7, <3>3 DEF Fatal
        <4> QED  BY <1>3, <2>3, <2>4, <2>6, <2>7, <3>2, <4>1, <4>2 DEF OneAtATime, Reconnecting
      <3>4. ASSUME NEW c \in CodesOfFailure, Pending' = Pending \cup {Fail(c)},
                   worker'[w].code = c, worker'[w].pc \in {"failed", "done"}
            PROVE  OneAtATime'
        <4>1. AllEnded'
          BY <1>4, <1>6, <3>4 DEF AllEnded
        <4>2. Fatal' => c = "fatal"
          BY <1>4, <1>7, <3>4 DEF Fatal
        <4>3. Fail(c).code = c
          BY DEF Fail
        <4>4. \A b \in Pending' : b.k = "fail" /\ b.gen = sessionGeneration' => b.code = c
          BY <1>3, <3>2, <3>4, <4>3 DEF Current
        <4> QED  BY <1>3, <2>3, <2>4, <2>6, <2>7, <3>2, <4>1, <4>2, <4>4 DEF OneAtATime, Reconnecting
      <3> QED  BY <1>2, <2>9, <3>3, <3>4 DEF WorkerActs
    <2> QED  BY <2>8, <2>9
  <1> QED  BY <1>3, <1>10, <1>11 DEF TokenInv

\* Every step keeps the order.
LEMMA TokenKept ==
    ASSUME ~LateReports, OrderInv, TokenInv, [Next]_vars
    PROVE  TokenInv'
  <1>1. CASE UNCHANGED vars
    <2>1. UNCHANGED <<mainq, worker, tasks, timers, settings, userStopRequested,
                      sessionGeneration>>
      BY <1>1 DEF vars, propVars
    <2>2. Quiet
      BY <2>1, QueueKeptPending DEF Quiet
    <2> QED  BY <2>2, QuietToken
  <1> QED
    BY <1>1, StartToken, StopToken, ReadyToken, FailToken, DueToken, TimerToken, BeginToken,
       TeardownToken, FreeToken, WorkerToken, MainQuiet, QuietToken
    DEF Next, MainBlock, GlobalStep


-----------------------------------------------------------------------------
(* The packet loop.                                                        *)

\* The packet loop runs over a session that no teardown has taken, and while
\* none is there one is on its way.
LoopInv ==
    /\ packetLoopRunning => session # 0 /\ \A t \in tasks : t.pc = "read"
    /\ ~userStopRequested /\ sessionGeneration > 0 /\ session = 0 =>
           (\E t \in tasks : t.pc = "wait") \/ Current("begin")
    /\ ReaderAlive

\* A live session that is not being replaced is there.
LEMMA LoopSettings ==
    ASSUME OrderInv, TokenInv, LoopInv, ~userStopRequested, sessionGeneration > 0,
           ~Reconnecting
    PROVE  session # 0 /\ tasks = {}
  <1>1. tasks = {}
    BY DEF OrderInv, StopAsked, Reconnecting, TeardownTask
  <1> QED  BY <1>1 DEF LoopInv, Reconnecting

\* Until a stop is asked for, every step keeps the packet loop's invariant.
LEMMA LiveLoopKept ==
    ASSUME OrderInv, OrderInv', TokenInv, LoopInv, [Next]_vars, ~userStopRequested'
    PROVE  LoopInv'
  <1>2. /\ TypeOK /\ QueueTypes /\ HeapTypes /\ sessionGeneration \in Nat /\ reads \in Nat
        /\ packetLoopRunning \in BOOLEAN
    BY TypeParts DEF OrderInv, BaseInv, NumberTypes, FlagTypes
  <1>3. ASSUME UNCHANGED <<packetLoopRunning, session, sessionGeneration, userStopRequested,
                           tasks, reads>>,
               Current("begin") => Current("begin")'
        PROVE  LoopInv'
    BY <1>3 DEF LoopInv, ReaderAlive
  <1>4. ASSUME Pending \subseteq Pending', UNCHANGED sessionGeneration
        PROVE  Current("begin") => Current("begin")'
    BY <1>4 DEF Current
  <1>5. CASE startTunnel
    <2>1. ~packetLoopRunning /\ UNCHANGED packetLoopRunning
      BY <1>5 DEF startTunnel, OrderInv, BaseInv, Fresh
    <2>2. sessionGeneration' # 0 => session' # 0
      BY <1>5 DEF startTunnel
    <2>3. sessionGeneration' = 0 => ~(sessionGeneration' > 0)
      BY <1>5 DEF startTunnel
    <2> QED  BY <2>1, <2>2, <2>3 DEF LoopInv, ReaderAlive
  <1>6. ~stopTunnel /\ ~stopTunnelTake
    BY DEF stopTunnel, stopTunnelTake, OrderInv, StopAsked
  <1>7. CASE StageBlock \/ ReadyBlock \/ FailBlock \/ StopDoneBlock
    <2>1. UNCHANGED <<packetLoopRunning, session, sessionGeneration, userStopRequested, tasks>>
      BY <1>7 DEF StageBlock, ReadyBlock, FailBlock, StopDoneBlock
    <2>2. /\ Pending \subseteq Pending' \cup {Head(mainq)} /\ Head(mainq).k # "begin"
          /\ UNCHANGED reads
      BY <1>2, <1>7, BlockRun DEF StageBlock, ReadyBlock, FailBlock, StopDoneBlock
    <2>3. Current("begin") => Current("begin")'
      BY <2>1, <2>2 DEF Current
    <2> QED  BY <1>3, <2>1, <2>2, <2>3
  <1>8. CASE TimerBlock
    <2>1. UNCHANGED <<packetLoopRunning, session, userStopRequested>> /\ ~userStopRequested
      BY <1>8 DEF TimerBlock
    <2>2. /\ Pending \subseteq Pending' \cup {Head(mainq)} /\ Head(mainq).k = "timer"
          /\ UNCHANGED reads /\ Head(mainq) \in Pending
      BY <1>2, <1>8, BlockRun DEF TimerBlock
    <2>3. CASE sessionGeneration # Head(mainq).gen
      <3>1. UNCHANGED <<sessionGeneration, tasks>>
        BY <1>8, <2>3 DEF TimerBlock
      <3>2. Current("begin") => Current("begin")'
        BY <2>2, <3>1 DEF Current
      <3> QED  BY <1>3, <2>1, <2>2, <3>1, <3>2
    <2>4. CASE sessionGeneration = Head(mainq).gen
      <3>1. Current("timer")
        BY <2>2, <2>4 DEF Current
      <3>2. ~Reconnecting
        BY <2>1, <3>1 DEF TokenInv, OneAtATime
      <3>3. sessionGeneration > 0
        <4>1. sessionGeneration # 0
          BY <2>2 DEF OrderInv, BaseInv, Fresh, Pending, Entries
        <4> QED  BY <1>2, <4>1
      <3>4. session # 0
        BY <2>1, <3>2, <3>3, LoopSettings
      <3>5. \A t \in tasks' : t \in tasks \/ t.pc = "read"
        BY <1>8 DEF TimerBlock
      <3> QED  BY <2>1, <2>2, <3>4, <3>5 DEF LoopInv, ReaderAlive
    <2> QED  BY <2>3, <2>4
  <1>9. CASE BeginBlock
    <2>1. UNCHANGED <<packetLoopRunning, sessionGeneration, userStopRequested, tasks>>
      BY <1>9 DEF BeginBlock
    <2>2. Pending \subseteq Pending' \cup {Head(mainq)} /\ UNCHANGED reads
      BY <1>2, <1>9, BlockRun DEF BeginBlock
    <2>3. CASE sessionGeneration # Head(mainq).gen
      <3>1. Current("begin") => Current("begin")'
        BY <2>1, <2>2, <2>3 DEF Current
      <3>2. UNCHANGED session
        BY <1>9, <2>3 DEF BeginBlock, beginSessionWithGeneration
      <3> QED  BY <1>3, <2>1, <2>2, <3>1, <3>2
    <2>4. CASE sessionGeneration = Head(mainq).gen
      <3>1. session' = Len(mem) + 1
        BY <1>9, <2>1, <2>4 DEF BeginBlock, beginSessionWithGeneration
      <3>2. Len(mem) \in Nat
        BY <1>2, LenProperties DEF HeapTypes
      <3>3. session' # 0
        BY <3>1, <3>2
      <3> QED  BY <2>1, <2>2, <3>3 DEF LoopInv, ReaderAlive
    <2> QED  BY <2>3, <2>4
  <1>10. CASE TimerDue
    <2>1. PICK g \in timers : mainq' = Append(mainq, [k |-> "timer", gen |-> g])
      BY <1>10 DEF TimerDue
    <2>2. [k |-> "timer", gen |-> g] \in Blocks
      BY NewBlocks, TypeParts DEF OrderInv, BaseInv, NumberTypes
    <2>3. Pending \subseteq Pending'
      BY <1>2, <2>1, <2>2, BlockPosted
    <2> QED  BY <1>3, <1>4, <1>10, <2>3 DEF TimerDue, propVars, flowVars
  <1>11. CASE SettingsDone
    <2>1. UNCHANGED <<session, sessionGeneration, userStopRequested, tasks, mainq>>
      BY <1>11 DEF SettingsDone
    <2>2. Pending \subseteq Pending'
      BY <2>1, QueueKeptPending
    <2>3. CASE UNCHANGED <<packetLoopRunning, reads>>
      BY <1>3, <1>4, <2>1, <2>2, <2>3
    <2>4. CASE /\ sessionGeneration \in settings /\ packetLoopRunning'
               /\ reads' = IF packetLoopRunning THEN reads ELSE reads + 1
      <3>1. ~Reconnecting /\ ~userStopRequested
        BY <2>1, <2>4 DEF TokenInv, OneAtATime
      <3>2. sessionGeneration # 0
        BY <2>4 DEF OrderInv, BaseInv, Fresh
      <3>3. sessionGeneration > 0
        BY <1>2, <3>2
      <3>4. session # 0 /\ tasks = {}
        BY <3>1, <3>3, LoopSettings
      <3>5. reads' > 0
        <4>1. CASE packetLoopRunning
          BY <2>4, <4>1 DEF LoopInv, ReaderAlive
        <4>2. CASE ~packetLoopRunning
          <5>1. reads' = reads + 1
            BY <2>4, <4>2
          <5> QED  BY <1>2, <5>1
        <4> QED  BY <4>1, <4>2
      <3> QED  BY <2>1, <3>4, <3>5 DEF LoopInv, ReaderAlive
    <2> QED  BY <1>11, <2>3, <2>4 DEF SettingsDone
  <1>12. CASE TeardownRead
    <2>1. /\ ~packetLoopRunning' /\ Pending' = Pending
          /\ UNCHANGED <<session, sessionGeneration, userStopRequested>>
      BY <1>2, <1>12, ReadFacts
    <2>2. PICK t \in tasks, n \in Tasks : t.pc = "read" /\ tasks' = (tasks \ {t}) \cup {n}
      BY <1>2, <1>12, ReadFacts
    <2>3. (\E u \in tasks : u.pc = "wait") => \E u \in tasks' : u.pc = "wait"
      BY <2>2
    <2>4. Current("begin") => Current("begin")'
      BY <2>1 DEF Current
    <2> QED  BY <2>1, <2>3, <2>4 DEF LoopInv, ReaderAlive
  <1>13. CASE TeardownClear
    <2>1. UNCHANGED <<packetLoopRunning, reads>>
      BY <1>2, <1>13, ClearFacts
    <2>2. PICK t \in tasks, n \in Tasks :
              t.pc = "clear" /\ tasks' = (tasks \ {t}) \cup {n} /\ n.pc = "wait"
      BY <1>2, <1>13, ClearFacts
    <2>3. ~packetLoopRunning
      BY <2>2 DEF LoopInv
    <2>4. \E u \in tasks' : u.pc = "wait"
      BY <2>2
    <2> QED  BY <2>1, <2>3, <2>4 DEF LoopInv, ReaderAlive
  <1>14. CASE WaitEnds \/ WaitLapses
    <2>1. UNCHANGED <<packetLoopRunning, reads, session, sessionGeneration, userStopRequested>>
      BY <1>2, <1>14, FreeFacts
    <2>2. PICK t \in tasks, b \in Blocks :
              /\ tasks' = tasks \ {t} /\ t \in Tasks /\ Pending' = Pending \cup {b}
              /\ t.kind = "teardown" => b = [k |-> "begin", gen |-> t.gen]
      BY <1>2, <1>14, FreeFacts
    <2>3. t.kind = "teardown" /\ t.gen = sessionGeneration
      BY <2>1 DEF OrderInv, StopAsked, TokenInv, OneAtATime
    <2>4. Current("begin")'
      BY <2>1, <2>2, <2>3 DEF Current
    <2>5. \A u \in tasks' : u \in tasks
      BY <2>2
    <2> QED  BY <2>1, <2>4, <2>5 DEF LoopInv, ReaderAlive
  <1>15. ASSUME NEW w \in DOMAIN worker, WorkerStep(w) \/ Outcome(w)
         PROVE  LoopInv'
    <2>1. WorkerActs(w) /\ UNCHANGED workerOnly
      BY <1>2, <1>15, WorkerDoes
    <2>2. Pending \subseteq Pending'
      BY <2>1 DEF WorkerActs
    <2>3. UNCHANGED <<packetLoopRunning, session, sessionGeneration, userStopRequested,
                      tasks, reads>>
      BY <2>1 DEF workerOnly, propVars, flowVars
    <2> QED  BY <1>3, <1>4, <2>2, <2>3
  <1>16. CASE PacketsRead \/ PacketsWritten
    <2>1. UNCHANGED <<packetLoopRunning, session, sessionGeneration, userStopRequested,
                      tasks, mainq>>
      BY <1>16 DEF PacketsRead, PacketsWritten, propVars
    <2>2. Pending \subseteq Pending'
      BY <2>1, QueueKeptPending
    <2>3. packetLoopRunning => UNCHANGED reads
      BY <1>16 DEF PacketsRead, PacketsWritten, LoopInv
    <2>4. Current("begin") => Current("begin")'
      BY <1>4, <2>1, <2>2
    <2> QED  BY <2>1, <2>3, <2>4 DEF LoopInv, ReaderAlive
  <1>17. CASE UNCHANGED vars
    <2>1. UNCHANGED <<packetLoopRunning, session, sessionGeneration, userStopRequested,
                      tasks, reads, mainq>>
      BY <1>17 DEF vars, propVars, flowVars
    <2> QED  BY <1>3, <1>4, <2>1, QueueKeptPending
  <1>18. CASE MainBlock
    BY <1>7, <1>8, <1>9, <1>18 DEF MainBlock
  <1>19. CASE GlobalStep
    BY <1>12, <1>13, <1>19 DEF GlobalStep
  <1>20. CASE \E w \in DOMAIN worker : WorkerStep(w) \/ Outcome(w)
    BY <1>15, <1>20
  <1>21. CASE Next
    BY <1>5, <1>6, <1>10, <1>11, <1>14, <1>16, <1>18, <1>19, <1>20, <1>21 DEF Next
  <1> QED  BY <1>17, <1>21

\* Every step keeps it: a stop has ended the loop.
LEMMA LoopInvKept ==
    ASSUME OrderInv, OrderInv', TokenInv, LoopInv, [Next]_vars
    PROVE  LoopInv'
  <1>1. CASE userStopRequested'
    <2>1. ~packetLoopRunning'
      BY <1>1 DEF OrderInv, StopAsked
    <2> QED  BY <1>1, <2>1 DEF LoopInv, ReaderAlive
  <1>2. CASE ~userStopRequested'
    BY <1>2, LiveLoopKept
  <1>3. userStopRequested' \in BOOLEAN
    BY DEF OrderInv, BaseInv, TypeOK
  <1> QED  BY <1>1, <1>2, <1>3


-----------------------------------------------------------------------------
(* The end of a stop.                                                      *)

StopDoneBlk == [k |-> "stopDone"]
\* On queue q every z comes before every a.
Before(q, z, a) == \A i, j \in DOMAIN q : q[i] = a /\ q[j] = z => j < i

\* The provider knows the worker that may still run, a stop waits for it, and
\* after the stop (unless its deadline passed) it has ended.
ThreadInv ==
    /\ ~userStopRequested \/ stopping.busy =>
         workerThread \in {0, Len(worker)} /\ (workerThread = 0 => AllDone)
    /\ \A t \in tasks : t.kind = "stop" => t.pc = "wait"
    /\ ~lapsed =>
         \A t \in tasks, w \in DOMAIN worker :
             t.kind = "stop" /\ worker[w].pc # "done" => w = t.w
    /\ ~lapsed /\ (Posted("stopDone") \/ stopped) => AllDone

\* The stages posted by workers are shown before the stop is over.
StageInv ==
    /\ ~lapsed => Before(mainq, StageBlk, StopDoneBlk)
    /\ stopped /\ ~lapsed => StageBlk \notin Pending /\ currentStage = "idle"

\* The order of two kinds of blocks on a queue that is added to or taken from.
LEMMA BeforeKept ==
    ASSUME NEW S, NEW q \in Seq(S), NEW z, NEW a
    PROVE  /\ Before(q, z, a) /\ q # << >> => Before(Tail(q), z, a)
           /\ Before(q, z, a) /\ q # << >> /\ Head(q) = a => z \notin Entries(Tail(q))
           /\ \A e \in S : Before(q, z, a) /\ e # z => Before(Append(q, e), z, a)
           /\ a \notin Entries(q) => Before(q, z, a)
  <1>1. ASSUME q # << >>, Before(q, z, a)
        PROVE  Before(Tail(q), z, a) /\ (Head(q) = a => z \notin Entries(Tail(q)))
    <2> DEFINE t == Tail(q)
    <2>1. /\ 1 \in DOMAIN q /\ Head(q) = q[1] /\ Len(q) \in Nat
          /\ DOMAIN t = 1 .. (Len(q) - 1)
          /\ \A i \in DOMAIN t : i + 1 \in DOMAIN q /\ t[i] = q[i + 1]
      BY <1>1, TailSeq
    <2> HIDE DEF t
    <2>2. Before(t, z, a)
      <3> SUFFICES ASSUME NEW i \in DOMAIN t, NEW j \in DOMAIN t, t[i] = a, t[j] = z
                   PROVE  j < i
        BY DEF Before
      <3>1. j + 1 < i + 1
        BY <1>1, <2>1 DEF Before
      <3>2. i \in Int /\ j \in Int
        BY <2>1
      <3> QED  BY <3>1, <3>2
    <2>3. ASSUME Head(q) = a, z \in Entries(t)
          PROVE  FALSE
      <3>1. PICK j \in DOMAIN t : t[j] = z
        BY <2>3 DEF Entries
      <3>2. j + 1 < 1
        BY <1>1, <2>1, <2>3, <3>1 DEF Before
      <3>3. j \in 1 .. (Len(q) - 1)
        BY <2>1
      <3> QED  BY <2>1, <3>2, <3>3
    <2> QED  BY <2>2, <2>3 DEF t
  <1>2. ASSUME NEW e \in S, Before(q, z, a), e # z
        PROVE  Before(Append(q, e), z, a)
    <2> DEFINE t == Append(q, e)
    <2>1. /\ \A i \in DOMAIN q : i \in DOMAIN t /\ t[i] = q[i]
          /\ t[Len(q) + 1] = e /\ DOMAIN q = 1 .. Len(q) /\ Len(q) \in Nat
          /\ \A i \in DOMAIN t : i \in DOMAIN q \/ i = Len(q) + 1
      BY AppendSeq
    <2> HIDE DEF t
    <2>2. ASSUME NEW i \in DOMAIN t, NEW j \in DOMAIN t, t[i] = a, t[j] = z
          PROVE  j < i
      <3>1. j \in DOMAIN q /\ q[j] = z
        BY <1>2, <2>1, <2>2
      <3>2. CASE i \in DOMAIN q
        BY <1>2, <2>1, <2>2, <3>1, <3>2 DEF Before
      <3>3. CASE i = Len(q) + 1
        BY <2>1, <3>1, <3>3
      <3> QED  BY <2>1, <3>2, <3>3
    <2> QED  BY <2>2 DEF t, Before
  <1>3. a \notin Entries(q) => Before(q, z, a)
    BY DEF Before, Entries
  <1> QED  BY <1>1, <1>2, <1>3

\* The same for the main queue as it runs a block.
LEMMA RunBefore ==
    ASSUME QueueTypes, NEW k, RunsBlock(k), Before(mainq, StageBlk, StopDoneBlk)
    PROVE  /\ Before(mainq', StageBlk, StopDoneBlk)
           /\ Head(mainq) = StopDoneBlk => StageBlk \notin Pending'
  BY HeadBlock, BeforeKept DEF QueueTypes, Pending

\* The blocks that carry nothing.
LEMMA NamedBlocks ==
    ASSUME NEW b \in Blocks
    PROVE  (b.k = "stage" => b = StageBlk) /\ (b.k = "stopDone" => b = StopDoneBlk)
  BY DEF Blocks, StageBlk, StopDoneBlk

\* Every step keeps the stages before the end of the stop.
LEMMA StageKept ==
    ASSUME OrderInv, OrderInv', TokenInv, ThreadInv, StageInv, [Next]_vars
    PROVE  StageInv'
  <1>1. TypeOK /\ QueueTypes
    BY TypeParts DEF OrderInv, BaseInv
  <1>2. /\ StageBlk' = StageBlk /\ StopDoneBlk' = StopDoneBlk
        /\ StageBlk.k = "stage" /\ StopDoneBlk.k = "stopDone"
    BY DEF StageBlk, StopDoneBlk
  <1>3. stopped => userStopRequested
    BY DEF OrderInv, StopAsked
  <1>4. ASSUME UNCHANGED <<stopped, lapsed, mainq>>, UNCHANGED currentStage \/ ~userStopRequested
        PROVE  StageInv'
    BY <1>2, <1>3, <1>4, QueueKeptPending DEF StageInv
  <1>5. ASSUME NEW k, RunsBlock(k), UNCHANGED stopped,
               UNCHANGED currentStage \/ ~userStopRequested
        PROVE  StageInv'
    BY <1>1, <1>2, <1>3, <1>5, BlockRun, RunBefore DEF StageInv
  <1>6. ASSUME NEW b \in Blocks, b.k # "stage", mainq' = Append(mainq, b), lapsed => lapsed',
               UNCHANGED <<stopped, currentStage>>
        PROVE  StageInv'
    <2>1. Pending' = Pending \cup {b}
      BY <1>1, <1>6, BlockPosted
    <2>2. Before(mainq, StageBlk, StopDoneBlk) => Before(mainq', StageBlk, StopDoneBlk)
      BY <1>1, <1>2, <1>6, BeforeKept DEF QueueTypes
    <2> QED  BY <1>2, <1>6, <2>1, <2>2 DEF StageInv
  <1>7. CASE startTunnel
    <2>1. ~userStopRequested
      BY <1>7 DEF startTunnel, OrderInv, BaseInv, Fresh
    <2> QED  BY <1>4, <1>7, <2>1 DEF startTunnel, obsVars
  <1>8. CASE stopTunnel
    BY <1>4, <1>8 DEF stopTunnel, obsVars
  <1>9. CASE stopTunnelTake
    BY <1>4, <1>9 DEF stopTunnelTake, obsVars
  <1>10. CASE StageBlock
    <2>1. Head(mainq) \in Pending /\ Head(mainq).k = "stage" /\ UNCHANGED lapsed
      BY <1>1, <1>10, BlockRun DEF StageBlock
    <2>2. StageBlk \in Pending
      BY <1>1, <2>1, PendingBlocks, NamedBlocks
    <2>3. lapsed \/ ~stopped
      BY <2>2 DEF StageInv
    <2>4. UNCHANGED stopped
      BY <1>10 DEF StageBlock, obsVars
    <2>5. ~lapsed => Before(mainq', StageBlk, StopDoneBlk)
      BY <1>1, <1>10, RunBefore DEF StageBlock, StageInv
    <2> QED  BY <1>2, <2>1, <2>3, <2>4, <2>5 DEF StageInv
  <1>11. CASE ReadyBlock
    BY <1>5, <1>11 DEF ReadyBlock, obsVars
  <1>12. CASE FailBlock
    BY <1>5, <1>12 DEF FailBlock, Ignored
  <1>13. CASE TimerBlock
    BY <1>5, <1>13 DEF TimerBlock, obsVars
  <1>14. CASE BeginBlock
    BY <1>5, <1>14 DEF BeginBlock, beginSessionWithGeneration, obsVars
  <1>15. CASE StopDoneBlock
    <2>1. Head(mainq) \in Pending /\ Head(mainq).k = "stopDone" /\ UNCHANGED lapsed
      BY <1>1, <1>15, BlockRun DEF StopDoneBlock
    <2>2. Head(mainq) = StopDoneBlk
      BY <1>1, <2>1, PendingBlocks, NamedBlocks
    <2>3. currentStage' = "idle"
      BY <1>15 DEF StopDoneBlock
    <2>4. ~lapsed => Before(mainq', StageBlk, StopDoneBlk) /\ StageBlk \notin Pending'
      BY <1>1, <1>15, <2>2, RunBefore DEF StopDoneBlock, StageInv
    <2> QED  BY <1>2, <2>1, <2>3, <2>4 DEF StageInv
  <1>16. CASE TimerDue
    <2>1. PICK g \in timers : mainq' = Append(mainq, [k |-> "timer", gen |-> g])
      BY <1>16 DEF TimerDue
    <2>2. [k |-> "timer", gen |-> g] \in Blocks
      BY <1>1, NewBlocks, TypeParts DEF NumberTypes
    <2> QED  BY <1>6, <1>16, <2>1, <2>2 DEF TimerDue, propVars, obsVars
  <1>17. CASE SettingsDone
    <2>1. sessionGeneration \in settings => ~userStopRequested
      BY DEF OrderInv, StopAsked
    <2> QED  BY <1>4, <1>17, <2>1 DEF SettingsDone
  <1>18. CASE TeardownRead
    BY <1>1, <1>4, <1>18, ReadFacts
  <1>19. CASE TeardownClear
    BY <1>1, <1>4, <1>19, ClearFacts
  <1>20. CASE WaitEnds \/ WaitLapses
    <2>1. PICK t \in tasks, b \in Blocks :
              /\ t \in Tasks /\ mainq' = Append(mainq, b)
              /\ t.kind = "stop" => b = [k |-> "stopDone"]
              /\ t.kind = "teardown" => b = [k |-> "begin", gen |-> t.gen]
      BY <1>1, <1>20, FreeFacts
    <2>2. b.k # "stage"
      BY <2>1 DEF Tasks
    <2>3. UNCHANGED <<stopped, currentStage>> /\ (lapsed => lapsed')
      BY <1>1, <1>20, FreeFacts
    <2> QED  BY <1>6, <2>1, <2>2, <2>3
  <1>21. ASSUME NEW w \in DOMAIN worker, WorkerStep(w) \/ Outcome(w)
         PROVE  StageInv'
    <2>1. WorkerActs(w) /\ UNCHANGED workerOnly
      BY <1>1, <1>21, WorkerDoes
    <2>2. UNCHANGED <<lapsed, stopped, currentStage>>
      BY <2>1 DEF workerOnly, propVars, obsVars
    <2>3. ~AllDone
      BY <2>1 DEF WorkerActs, AllDone
    <2>4. ~lapsed => ~Posted("stopDone") /\ ~stopped
      BY <2>3 DEF ThreadInv
    <2>5. \A b \in Pending' : b \in Pending \/ b.k \in {"stage", "ready", "fail"}
      <3>1. \A b \in Pending' : b \in Pending \/ b \in {StageBlk, ReadyBlk}
                                \/ \E c \in CodesOfFailure : b = Fail(c)
        BY <2>1 DEF WorkerActs
      <3> QED  BY <3>1 DEF StageBlk, ReadyBlk, Fail
    <2>6. ~lapsed => StopDoneBlk \notin Pending'
      BY <1>2, <2>4, <2>5 DEF Posted
    <2>7. ~lapsed => Before(mainq', StageBlk, StopDoneBlk)
      BY <2>6 DEF Before, Pending, Entries
    <2> QED  BY <1>2, <2>2, <2>4, <2>7 DEF StageInv
  <1>22. CASE PacketsRead \/ PacketsWritten
    BY <1>4, <1>22 DEF PacketsRead, PacketsWritten, propVars, obsVars
  <1>23. CASE UNCHANGED vars
    BY <1>4, <1>23 DEF vars, propVars, obsVars
  <1> QED
    BY <1>7, <1>8, <1>9, <1>10, <1>11, <1>12, <1>13, <1>14, <1>15, <1>16, <1>17, <1>18,
       <1>19, <1>20, <1>21, <1>22, <1>23
    DEF Next, MainBlock, GlobalStep

\* Every step keeps what is known of the worker that may still run.
LEMMA ThreadKept ==
    ASSUME OrderInv, OrderInv', TokenInv, ThreadInv, [Next]_vars
    PROVE  ThreadInv'
  <1>1. TypeOK /\ QueueTypes /\ HeapTypes
    BY TypeParts DEF OrderInv, BaseInv
  <1>2. ~userStopRequested => /\ ~stopping.busy /\ ~Posted("stopDone") /\ ~stopped
                              /\ \A t \in tasks : t.kind = "teardown"
    BY DEF OrderInv, StopAsked
  <1>3. ASSUME UNCHANGED <<userStopRequested, workerThread, worker, tasks, stopped, lapsed>>,
               stopping'.busy => stopping.busy,
               Posted("stopDone")' => Posted("stopDone")
        PROVE  ThreadInv'
    BY <1>3 DEF ThreadInv, AllDone
  <1>4. Pending' \subseteq Pending => (Posted("stopDone")' => Posted("stopDone"))
    BY DEF Posted
  <1>5. UNCHANGED mainq => Pending' \subseteq Pending
    BY QueueKeptPending
  <1>6. CASE startTunnel
    <2>1. /\ UNCHANGED <<userStopRequested, stopping, tasks, stopped, lapsed, mainq>>
          /\ ~userStopRequested
      BY <1>6 DEF startTunnel, obsVars, OrderInv, BaseInv, Fresh
    <2>2. CASE sessionGeneration' = 1
      <3>1. worker' = <<NewWorker>> /\ workerThread' = 1
        BY <1>6, <2>2 DEF startTunnel, NewWorker
      <3>2. workerThread' = Len(worker') /\ workerThread' # 0
        BY <3>1
      <3>3. ~Posted("stopDone")' /\ ~stopped'
        BY <1>2, <1>4, <1>5, <2>1
      <3> QED  BY <1>2, <2>1, <3>2, <3>3 DEF ThreadInv
    <2>3. CASE sessionGeneration' # 1
      <3>1. UNCHANGED <<worker, workerThread>>
        BY <1>6, <2>3 DEF startTunnel
      <3> QED  BY <1>3, <1>4, <1>5, <2>1, <3>1
    <2> QED  BY <2>2, <2>3
  <1>7. CASE stopTunnel
    <2>1. UNCHANGED <<workerThread, worker, tasks, stopped, lapsed, mainq>> /\ ~userStopRequested
      BY <1>7 DEF stopTunnel, obsVars
    <2>2. ~Posted("stopDone")' /\ ~stopped'
      BY <1>2, <1>4, <1>5, <2>1
    <2>3. AllDone' = AllDone
      BY <2>1 DEF AllDone
    <2> QED  BY <2>1, <2>2, <2>3 DEF ThreadInv
  <1>8. CASE stopTunnelTake
    <2> DEFINE n == [kind |-> "stop", gen |-> sessionGeneration, pc |-> "wait",
                     s |-> stopping.s, w |-> workerThread]
    <2>1. /\ UNCHANGED <<userStopRequested, worker, stopped, lapsed, mainq>>
          /\ stopping.busy /\ tasks' = tasks \cup {n} /\ stopping' = NotStopping
      BY <1>8 DEF stopTunnelTake, obsVars
    <2>2. n.kind = "stop" /\ n.pc = "wait" /\ n.w = workerThread
      OBVIOUS
    <2> HIDE DEF n
    <2>3. userStopRequested' /\ ~stopping'.busy
      BY <1>2, <2>1 DEF NotStopping
    <2>4. \A w \in DOMAIN worker : worker[w].pc # "done" => w = workerThread
      BY <2>1 DEF ThreadInv, AllDone, TokenInv, Retired
    <2>5. Posted("stopDone")' => Posted("stopDone")
      BY <1>4, <1>5, <2>1
    <2>6. AllDone' = AllDone
      BY <2>1 DEF AllDone
    <2>7. \A t \in tasks' : t \in tasks \/ t = n
      BY <2>1
    <2>8. \A t \in tasks' : t.kind = "stop" => t.pc = "wait"
      BY <2>2, <2>7 DEF ThreadInv
    <2>9. ~lapsed' => \A t \in tasks', w \in DOMAIN worker' :
                          t.kind = "stop" /\ worker'[w].pc # "done" => w = t.w
      BY <2>1, <2>2, <2>4, <2>7 DEF ThreadInv
    <2> QED  BY <2>1, <2>3, <2>5, <2>6, <2>8, <2>9 DEF ThreadInv
  <1>9. CASE StageBlock \/ ReadyBlock \/ FailBlock
    <2>1. Pending' \subseteq Pending /\ UNCHANGED <<stopping, lapsed>>
      BY <1>1, <1>9, BlockRun DEF StageBlock, ReadyBlock, FailBlock
    <2>2. UNCHANGED <<userStopRequested, workerThread, worker, tasks, stopped>>
      BY <1>9 DEF StageBlock, ReadyBlock, FailBlock, obsVars
    <2> QED  BY <1>3, <1>4, <2>1, <2>2
  <1>10. CASE TimerBlock
    <2>1. Pending' \subseteq Pending /\ UNCHANGED <<stopping, lapsed>>
      BY <1>1, <1>10, BlockRun DEF TimerBlock
    <2>2. UNCHANGED <<userStopRequested, workerThread, worker, stopped>>
      BY <1>10 DEF TimerBlock, obsVars
    <2>3. \A t \in tasks' : t \in tasks \/ t.kind = "teardown"
      BY <1>10 DEF TimerBlock
    <2>4. AllDone' = AllDone
      BY <2>2 DEF AllDone
    <2>5. (\A t \in tasks : t.kind = "stop" => t.pc = "wait")'
      BY <2>3 DEF ThreadInv
    <2>6. ~lapsed' => \A t \in tasks', w \in DOMAIN worker' :
                          t.kind = "stop" /\ worker'[w].pc # "done" => w = t.w
      BY <2>1, <2>2, <2>3 DEF ThreadInv
    <2> QED  BY <1>4, <2>1, <2>2, <2>4, <2>5, <2>6 DEF ThreadInv
  <1>11. CASE BeginBlock
    <2>1. Pending' \subseteq Pending /\ UNCHANGED <<stopping, lapsed>>
      BY <1>1, <1>11, BlockRun DEF BeginBlock
    <2>2. UNCHANGED <<userStopRequested, tasks, stopped>>
      BY <1>11 DEF BeginBlock, obsVars
    <2>3. CASE UNCHANGED <<workerThread, worker>>
      BY <1>3, <1>4, <2>1, <2>2, <2>3
    <2>4. CASE Begins /\ ~userStopRequested
      <3>1. workerThread' = Len(worker') /\ workerThread' # 0
        BY <1>1, <2>4, LenProperties DEF Begins, HeapTypes
      <3>2. ~Posted("stopDone")' /\ ~stopped'
        BY <1>2, <1>4, <2>1, <2>2, <2>4
      <3> QED  BY <1>2, <2>2, <2>4, <3>1, <3>2 DEF ThreadInv
    <2> QED  BY <1>1, <1>11, <2>3, <2>4, BeginHeap
  <1>12. CASE StopDoneBlock
    <2>1. /\ Pending' \subseteq Pending /\ UNCHANGED <<stopping, lapsed>>
          /\ Head(mainq) \in Pending /\ Head(mainq).k = "stopDone"
      BY <1>1, <1>12, BlockRun DEF StopDoneBlock
    <2>2. UNCHANGED <<userStopRequested, workerThread, worker, tasks>>
      BY <1>12 DEF StopDoneBlock
    <2>3. ~lapsed => AllDone
      BY <2>1 DEF Posted, ThreadInv
    <2>4. AllDone' = AllDone
      BY <2>2 DEF AllDone
    <2> QED  BY <2>1, <2>2, <2>3, <2>4 DEF ThreadInv
  <1>13. CASE TimerDue
    <2>1. PICK g \in timers : mainq' = Append(mainq, [k |-> "timer", gen |-> g])
      BY <1>13 DEF TimerDue
    <2>2. [k |-> "timer", gen |-> g] \in Blocks
      BY <1>1, NewBlocks, TypeParts DEF NumberTypes
    <2>3. Pending' = Pending \cup {[k |-> "timer", gen |-> g]}
      BY <1>1, <2>1, <2>2, BlockPosted
    <2>4. Posted("stopDone")' => Posted("stopDone")
      BY <2>3 DEF Posted
    <2> QED  BY <1>3, <1>13, <2>4 DEF TimerDue, propVars, obsVars
  <1>14. CASE SettingsDone
    BY <1>3, <1>4, <1>5, <1>14 DEF SettingsDone
  <1>15. CASE TeardownRead
    <2>1. PICK t \in tasks, n \in Tasks :
              /\ t.pc = "read" /\ tasks' = (tasks \ {t}) \cup {n} /\ n.kind = t.kind
      BY <1>1, <1>15, ReadFacts
    <2>2. /\ UNCHANGED <<userStopRequested, stopping, workerThread, worker, stopped, lapsed>>
          /\ Pending' = Pending
      BY <1>1, <1>15, ReadFacts
    <2>3. n.kind # "stop"
      BY <2>1 DEF ThreadInv
    <2>4. \A u \in tasks' : u \in tasks \/ u.kind # "stop"
      BY <2>1, <2>3
    <2>5. AllDone' = AllDone
      BY <2>2 DEF AllDone
    <2>6. (\A u \in tasks : u.kind = "stop" => u.pc = "wait")'
      BY <2>4 DEF ThreadInv
    <2>7. ~lapsed' => \A u \in tasks', w \in DOMAIN worker' :
                          u.kind = "stop" /\ worker'[w].pc # "done" => w = u.w
      BY <2>2, <2>4 DEF ThreadInv
    <2> QED  BY <1>4, <2>2, <2>5, <2>6, <2>7 DEF ThreadInv
  <1>16. CASE TeardownClear
    <2>1. PICK t \in tasks, n \in Tasks :
              /\ t.pc = "clear" /\ tasks' = (tasks \ {t}) \cup {n} /\ n.kind = t.kind
      BY <1>1, <1>16, ClearFacts
    <2>2. /\ UNCHANGED <<userStopRequested, stopping, worker, stopped, lapsed>>
          /\ Pending' = Pending /\ workerThread' = 0
      BY <1>1, <1>16, ClearFacts
    <2>3. n.kind # "stop" /\ t.kind = "teardown"
      BY <1>1, <2>1, TypeParts DEF ThreadInv, TaskTypes, Tasks
    <2>4. \A u \in tasks' : u \in tasks \/ u.kind # "stop"
      BY <2>1, <2>3
    <2>5. AllDone' = AllDone /\ AllDone
      BY <2>2, <2>3 DEF AllDone, TokenInv, Retired, TeardownTask
    <2>6. (\A u \in tasks : u.kind = "stop" => u.pc = "wait")'
      BY <2>4 DEF ThreadInv
    <2>7. ~lapsed' => \A u \in tasks', w \in DOMAIN worker' :
                          u.kind = "stop" /\ worker'[w].pc # "done" => w = u.w
      BY <2>2, <2>4 DEF ThreadInv
    <2> QED  BY <2>2, <2>5, <2>6, <2>7 DEF ThreadInv
  <1>17. CASE WaitEnds \/ WaitLapses
    <2>1. PICK t \in tasks, b \in Blocks :
              /\ tasks' = tasks \ {t} /\ t \in Tasks
              /\ WorkerFinished(t) \/ lapsed'
              /\ Pending' = Pending \cup {b}
              /\ t.kind = "stop" => b = [k |-> "stopDone"]
              /\ t.kind = "teardown" => b = [k |-> "begin", gen |-> t.gen]
      BY <1>1, <1>17, FreeFacts
    <2>2. /\ UNCHANGED <<userStopRequested, stopping, workerThread, worker, stopped>>
          /\ lapsed => lapsed'
      BY <1>1, <1>17, FreeFacts
    <2>3. AllDone' = AllDone
      BY <2>2 DEF AllDone
    <2>4. (\A u \in tasks : u.kind = "stop" => u.pc = "wait")'
      BY <2>1 DEF ThreadInv
    <2>5. ~lapsed' => \A u \in tasks', w \in DOMAIN worker' :
                          u.kind = "stop" /\ worker'[w].pc # "done" => w = u.w
      BY <2>1, <2>2 DEF ThreadInv
    <2>6. ASSUME ~lapsed', Posted("stopDone")' \/ stopped'
          PROVE  AllDone
      <3>1. CASE Posted("stopDone") \/ stopped
        BY <2>2, <2>6, <3>1 DEF ThreadInv
      <3>2. CASE ~(Posted("stopDone") \/ stopped)
        <4>1. b.k = "stopDone"
          BY <2>1, <2>2, <2>6, <3>2 DEF Posted
        <4>2. t.kind = "stop"
          BY <2>1, <4>1 DEF Tasks
        <4>3. ASSUME NEW w \in DOMAIN worker, worker[w].pc # "done"
              PROVE  FALSE
          <5>1. w = t.w /\ WorkerFinished(t)
            BY <2>1, <2>2, <2>6, <4>2, <4>3 DEF ThreadInv
          <5>2. w # 0
            BY <1>1, WorkerFields
          <5> QED  BY <4>3, <5>1, <5>2 DEF WorkerFinished
        <4> QED  BY <4>3 DEF AllDone
      <3> QED  BY <3>1, <3>2
    <2> QED  BY <2>2, <2>3, <2>4, <2>5, <2>6 DEF ThreadInv
  <1>18. ASSUME NEW w \in DOMAIN worker, WorkerStep(w) \/ Outcome(w)
         PROVE  ThreadInv'
    <2>1. WorkerActs(w) /\ UNCHANGED workerOnly
      BY <1>1, <1>18, WorkerDoes
    <2>2. UNCHANGED <<userStopRequested, stopping, workerThread, tasks, stopped, lapsed>>
      BY <2>1 DEF workerOnly, propVars, obsVars
    <2>3. ~AllDone /\ Len(worker') = Len(worker) /\ DOMAIN worker' = DOMAIN worker
      BY <2>1 DEF WorkerActs, AllDone
    <2>4. \A i \in DOMAIN worker : worker'[i].pc # "done" => worker[i].pc # "done"
      BY <2>1 DEF WorkerActs
    <2>5. ~lapsed => ~Posted("stopDone") /\ ~stopped
      BY <2>3 DEF ThreadInv
    <2>6. \A b \in Pending' : b \in Pending \/ b.k \in {"stage", "ready", "fail"}
      <3>1. \A b \in Pending' : b \in Pending \/ b \in {StageBlk, ReadyBlk}
                                \/ \E c \in CodesOfFailure : b = Fail(c)
        BY <2>1 DEF WorkerActs
      <3> QED  BY <3>1 DEF StageBlk, ReadyBlk, Fail
    <2>7. Posted("stopDone")' => Posted("stopDone")
      BY <2>6 DEF Posted
    <2>8. ~lapsed' => \A u \in tasks', i \in DOMAIN worker' :
                          u.kind = "stop" /\ worker'[i].pc # "done" => i = u.w
      BY <2>2, <2>3, <2>4 DEF ThreadInv
    <2> QED  BY <2>2, <2>3, <2>5, <2>7, <2>8 DEF ThreadInv
  <1>19. CASE PacketsRead \/ PacketsWritten
    BY <1>3, <1>4, <1>5, <1>19 DEF PacketsRead, PacketsWritten, propVars, obsVars
  <1>20. CASE UNCHANGED vars
    BY <1>3, <1>4, <1>5, <1>20 DEF vars, propVars, obsVars
  <1> QED
    BY <1>6, <1>7, <1>8, <1>9, <1>10, <1>11, <1>12, <1>13, <1>14, <1>15, <1>16, <1>17, <1>18,
       <1>19, <1>20
    DEF Next, MainBlock, GlobalStep


-----------------------------------------------------------------------------
(* Who owns a session.                                                     *)

\* The provider's own session is never freed, a teardown that waits has taken
\* it away, and no session is freed under its worker before a deadline passes.
HeldInv ==
    /\ session # 0 => ~mem[session].freed
    /\ \A t \in tasks : /\ t.pc = "wait" => session = 0
                        /\ t.pc = "read" => t.s = 0
    /\ ~stopping.busy => stopping.s = 0
    /\ ~lapsed => \A w \in DOMAIN worker :
           worker[w].pc # "done" /\ worker[w].h # 0 => ~mem[worker[w].h].freed

\* What a stop or a teardown has taken is not freed, and is its alone, unless
\* two of them read self.session before either cleared it.
OwnerInv ==
    ~raced =>
      /\ stopping.s # 0 => ~mem[stopping.s].freed
      /\ \A t \in tasks : t.s # 0 => ~mem[t.s].freed /\ t.s # stopping.s
      /\ \A t, u \in tasks : t.s # 0 /\ t.s = u.s => t = u

HeapInv == HeldInv /\ OwnerInv /\ MemorySafe

\* A step of thread `who' on session s is safe when s is not freed, or when the
\* race or the deadline that may have freed it has been seen.
LEMMA UsesSafe ==
    ASSUME NEW who, NEW s, Uses(who, s),
           s # 0 /\ mem[s].freed =>
               \/ who = "worker" /\ lapsed'
               \/ who \in {"stop", "free"} /\ raced'
               \/ who = "writer"
    PROVE  MemorySafe'
  <1>1. CASE s # 0 /\ mem[s].freed
    <2>1. uaf' = {who}
      BY <1>1 DEF Uses
    <2>2. CASE who = "worker" /\ lapsed'
      BY <2>1, <2>2 DEF MemorySafe
    <2>3. CASE who \in {"stop", "free"} /\ raced'
      BY <2>1, <2>3 DEF MemorySafe
    <2>4. CASE who = "writer"
      BY <2>1, <2>4 DEF MemorySafe
    <2> QED  BY <1>1, <2>2, <2>3, <2>4
  <1>2. CASE ~(s # 0 /\ mem[s].freed)
    <2>1. uaf' = {}
      BY <1>2 DEF Uses
    <2> QED  BY <2>1 DEF MemorySafe
  <1> QED  BY <1>1, <1>2

\* No session is freed and none is added.
SameFreed == DOMAIN mem' = DOMAIN mem /\ \A i \in DOMAIN mem : mem'[i].freed = mem[i].freed

\* sstp_ios_session_stop frees nothing.
LEMMA StopFrees ==
    ASSUME HeapTypes, NEW s \in 0 .. Len(mem), mem' = sstp_ios_session_stop(mem, s)
    PROVE  SameFreed
  BY StopCells DEF HeapTypes, SameFreed, SameCells

\* The sessions that are referred to exist.
LEMMA Referred ==
    ASSUME TypeOK
    PROVE  /\ DOMAIN mem = 1 .. Len(mem) /\ Len(mem) \in Nat
           /\ session \in 0 .. Len(mem) /\ stopping.s \in 0 .. Len(mem)
           /\ \A t \in tasks : t \in Tasks /\ t.s \in 0 .. Len(mem)
           /\ \A w \in DOMAIN worker : worker[w].h \in 0 .. Len(mem)
  <1>1. HeapTypes /\ TaskTypes /\ WorkerTypes
    BY TypeParts
  <1>2. DOMAIN mem = 1 .. Len(mem) /\ Len(mem) \in Nat
    BY <1>1, LenProperties DEF HeapTypes
  <1>3. session \in 0 .. Len(mem) /\ stopping.s \in 0 .. Len(mem)
    BY <1>1 DEF HeapTypes
  <1>4. ASSUME NEW t \in tasks
        PROVE  t \in Tasks /\ t.s \in 0 .. Len(mem)
    BY <1>1, <1>2, <1>4 DEF TaskTypes, Tasks
  <1>5. ASSUME NEW w \in DOMAIN worker
        PROVE  worker[w].h \in 0 .. Len(mem)
    <2>1. worker[w].h \in Nat /\ worker[w].h <= Len(mem)
      BY <1>1, WorkerFields DEF WorkerTypes
    <2> QED  BY <1>2, <2>1
  <1> QED  BY <1>2, <1>3, <1>4, <1>5

\* What a step of a worker does to the heap: it uses its own session or the
\* provider's, may take the provider's for its own, and frees nothing.
LEMMA WorkerHeap ==
    ASSUME TypeOK, NEW w \in DOMAIN worker, WorkerStep(w) \/ Outcome(w)
    PROVE  /\ SameFreed
           /\ worker'[w].h \in {worker[w].h, session}
           /\ \/ uaf' = {}
              \/ \E s \in {worker[w].h, session} : Uses("worker", s)
  <1>1. HeapTypes /\ WorkerTypes /\ uaf = {} /\ mem \in Seq(Cells) /\ DOMAIN mem = 1 .. Len(mem)
    BY TypeParts, LenProperties DEF WorkerStep, Outcome, Running, HeapTypes
  <1>2. worker \in Seq(Workers) /\ worker[w] \in Workers
    BY <1>1, WorkerFields DEF HeapTypes
  <1>3. UNCHANGED mem => SameFreed
    BY DEF SameFreed
  <1>4. \A p : Goes(w, p) => worker'[w].h = worker[w].h
    BY <1>2 DEF Goes, Workers
  <1>5. \A p, c : FailsWith(w, p, c) => worker'[w].h = worker[w].h
    BY <1>2 DEF FailsWith, Workers
  <1>6. CASE WorkerEnter(w)
    <2>1. UNCHANGED mem
      BY <1>6 DEF WorkerEnter
    <2>2. CASE session = 0
      BY <1>1, <1>3, <1>5, <1>6, <2>1, <2>2 DEF WorkerEnter
    <2>3. CASE session # 0
      <3>1. worker' = [worker EXCEPT ![w].pc = "starting", ![w].h = session]
            /\ Uses("worker", session)
        BY <1>6, <2>3 DEF WorkerEnter
      <3>2. worker'[w].h = session
        BY <1>2, <3>1 DEF Workers
      <3> QED  BY <1>3, <2>1, <3>1, <3>2
    <2> QED  BY <2>2, <2>3
  <1>7. CASE WorkerOpen(w)
    <2>1. Uses("worker", worker[w].h) /\ worker'[w].h = worker[w].h
      BY <1>4, <1>5, <1>7 DEF WorkerOpen
    <2>2. worker[w].h \in DOMAIN mem
      <3>1. worker[w].h # 0 /\ worker[w].h \in Nat /\ worker[w].h <= Len(mem)
        BY <1>1, <1>7, WorkerFields DEF WorkerOpen, WorkerTypes
      <3> QED  BY <1>1, <3>1
    <2>3. UNCHANGED mem \/ mem' = [mem EXCEPT ![worker[w].h].pipes = TRUE]
      BY <1>7 DEF WorkerOpen
    <2>4. SameFreed
      <3> DEFINE n == [mem EXCEPT ![worker[w].h].pipes = TRUE]
      <3>1. SameCells(mem, n) /\ \A i \in DOMAIN mem : n[i].freed = mem[i].freed
        BY <1>1, <2>2, PipeCells
      <3>2. UNCHANGED mem \/ mem' = n
        BY <2>3
      <3> HIDE DEF n
      <3> QED  BY <1>3, <3>1, <3>2 DEF SameFreed, SameCells
    <2> QED  BY <2>1, <2>4
  <1>8. CASE WorkerResolve(w)
    BY <1>3, <1>4, <1>5, <1>8 DEF WorkerResolve
  <1>9. CASE WorkerReport(w)
    BY <1>1, <1>3, <1>5, <1>9 DEF WorkerReport
  <1>10. CASE WorkerRun(w)
    <2>1. Uses("worker", session) /\ UNCHANGED mem
      BY <1>10 DEF WorkerRun
    <2>2. worker'[w].h \in {worker[w].h, session}
      <3>1. CASE worker' = [worker EXCEPT ![w].pc = "running", ![w].h = session]
        BY <1>2, <3>1 DEF Workers
      <3>2. CASE worker' = [worker EXCEPT ![w].pc = "done"]
        BY <1>2, <3>2 DEF Workers
      <3> QED  BY <1>10, <3>1, <3>2 DEF WorkerRun
    <2> QED  BY <1>3, <2>1, <2>2
  <1>11. CASE RunReady(w)
    BY <1>3, <1>4, <1>11 DEF RunReady
  <1>11a. CASE RunCalls(w)
    BY <1>3, <1>4, <1>11a DEF RunCalls
  <1>12. CASE RunFails(w)
    BY <1>3, <1>5, <1>12 DEF RunFails
  <1>13. CASE RunStopped(w)
    BY <1>3, <1>4, <1>13 DEF RunStopped
  <1> QED
    BY <1>6, <1>7, <1>8, <1>9, <1>10, <1>11, <1>11a, <1>12, <1>13
    DEF WorkerStep, Outcome

\* A session begun on the main queue is the provider's own; the one it still
\* held is freed.
LEMMA BeginFrees ==
    ASSUME HeapTypes, BeginBlock, Begins
    PROVE  Uses("free", session) /\ ~mem'[session'].freed
  <1>1. session' = Len(mem) + 1 /\ session \in 0 .. Len(mem) /\ Len(mem) \in Nat
        /\ mem \in Seq(Cells)
    BY LenProperties DEF Begins, HeapTypes
  <1>2. ~(userStopRequested \/ sessionGeneration # Head(mainq).gen)
    <2>1. session' # session
      BY <1>1
    <2> QED  BY <2>1 DEF BeginBlock, beginSessionWithGeneration
  <1> DEFINE m == sstp_ios_session_free(sstp_ios_session_stop(mem, session), session)
  <1>3. mem' = Append(m, NewSession) /\ Uses("free", session)
    BY <1>2 DEF BeginBlock, beginSessionWithGeneration, NewSession
  <1>4. SameCells(mem, sstp_ios_session_stop(mem, session))
    BY <1>1, StopCells
  <1>5. SameCells(sstp_ios_session_stop(mem, session), m)
    BY <1>1, <1>4, FreeCells DEF SameCells
  <1>6. m \in Seq(Cells) /\ Len(m) = Len(mem)
    BY <1>4, <1>5 DEF SameCells
  <1> HIDE DEF m
  <1>7. mem'[Len(mem) + 1] = NewSession
    BY <1>3, <1>6, NewCells, AppendSeq
  <1>8. ~mem'[Len(mem) + 1].freed
    BY <1>7 DEF NewSession
  <1>9. ~mem'[session'].freed
    BY <1>1, <1>8
  <1> QED  BY <1>3, <1>9

\* Every step keeps each session with its owner.
LEMMA HeapInvKept ==
    ASSUME OrderInv, TokenInv, ThreadInv, HeapInv, [Next]_vars
    PROVE  HeapInv'
  <1>1. /\ TypeOK /\ QueueTypes /\ HeapTypes
        /\ DOMAIN mem = 1 .. Len(mem) /\ Len(mem) \in Nat
        /\ session \in 0 .. Len(mem) /\ stopping.s \in 0 .. Len(mem)
        /\ \A t \in tasks : t \in Tasks /\ t.s \in 0 .. Len(mem)
        /\ \A w \in DOMAIN worker : worker[w].h \in 0 .. Len(mem)
    BY TypeParts, Referred DEF OrderInv, BaseInv
  <1>2. \A s \in 0 .. Len(mem) : s # 0 => s \in DOMAIN mem
    BY <1>1
  <1>3. ASSUME UNCHANGED <<session, tasks, stopping, worker, mem, lapsed, raced, uaf>>
        PROVE  HeapInv'
    BY <1>3 DEF HeapInv, HeldInv, OwnerInv, MemorySafe
  <1>4. ~userStopRequested => ~stopping.busy /\ \A t \in tasks : t.kind = "teardown"
    BY DEF OrderInv, StopAsked
  \* A new session with its worker, while nothing is torn down.
  <1>5. ASSUME Begins, tasks' = {}, AllDone, ~stopping.busy, ~mem'[session'].freed, MemorySafe'
        PROVE  HeapInv'
    <2>1. stopping'.s = 0
      BY <1>5 DEF Begins, HeapInv, HeldInv
    <2>2. ASSUME NEW w \in DOMAIN worker'
          PROVE  worker'[w].pc = "done" \/ worker'[w].h = 0
      <3>1. CASE w \in DOMAIN worker
        BY <1>5, <3>1 DEF Begins, AllDone
      <3>2. CASE w = Len(worker) + 1
        BY <1>5, <3>2 DEF Begins, NewWorker
      <3>3. w \in DOMAIN worker \/ w = Len(worker) + 1
        BY <1>1, <1>5, LenProperties DEF Begins, HeapTypes
      <3> QED  BY <3>1, <3>2, <3>3
    <2>3. HeldInv'
      BY <1>5, <2>1, <2>2 DEF HeldInv
    <2>4. OwnerInv'
      BY <1>5, <2>1 DEF OwnerInv
    <2> QED  BY <1>5, <2>3, <2>4 DEF HeapInv
  <1>6. CASE startTunnel
    <2>1. /\ sessionGeneration = 0 /\ Running /\ UNCHANGED <<tasks, stopping, lapsed, raced, uaf>>
      BY <1>6 DEF startTunnel, MainFree
    <2>2. mem = << >> /\ worker = << >> /\ tasks = {} /\ ~stopping.busy
      BY <1>6, <2>1 DEF OrderInv, BaseInv, Fresh, startTunnel, MainFree
    <2>3. CASE sessionGeneration' = 1
      <3>1. mem' = <<NewSession>> /\ session' = 1
        BY <1>6, <2>3 DEF startTunnel, NewSession
      <3>2. ~mem'[session'].freed
        BY <3>1 DEF NewSession
      <3>3. session' # session
        BY <2>1, <3>1 DEF OrderInv, BaseInv, Fresh
      <3>4. Begins
        BY <1>1, <1>6, <2>2, <3>3, StartHeap
      <3>5. AllDone
        BY <2>2 DEF AllDone
      <3>6. MemorySafe'
        BY <2>1 DEF MemorySafe, Running
      <3> QED  BY <1>5, <2>1, <2>2, <3>2, <3>4, <3>5, <3>6
    <2>4. CASE sessionGeneration' # 1
      BY <1>3, <1>6, <2>1, <2>4 DEF startTunnel
    <2> QED  BY <2>3, <2>4
  <1>7. CASE stopTunnel
    <2>1. /\ UNCHANGED <<session, tasks, worker, mem, lapsed>>
          /\ stopping' = [busy |-> TRUE, s |-> session] /\ raced' = (raced \/ SharedSession)
          /\ uaf' = {}
      BY <1>7 DEF stopTunnel, MainFree, Running
    <2>2. stopping'.busy /\ stopping'.s = session
      BY <2>1
    <2>3. HeldInv'
      BY <2>1, <2>2 DEF HeapInv, HeldInv
    <2>4. ASSUME ~raced'
          PROVE  OwnerInv'
      <3>1. ~raced /\ (session # 0 => \A t \in tasks : t.s # session)
        BY <2>1, <2>4 DEF SharedSession
      <3> QED  BY <2>1, <2>2, <3>1 DEF HeapInv, HeldInv, OwnerInv
    <2>5. MemorySafe'
      BY <2>1 DEF MemorySafe
    <2> QED  BY <2>3, <2>4, <2>5 DEF HeapInv, OwnerInv
  <1>8. CASE stopTunnelTake
    <2> DEFINE n == [kind |-> "stop", gen |-> sessionGeneration, pc |-> "wait",
                     s |-> stopping.s, w |-> workerThread]
    <2>1. /\ UNCHANGED <<worker, lapsed, raced>> /\ session' = 0
          /\ Uses("stop", stopping.s) /\ mem' = sstp_ios_session_stop(mem, stopping.s)
          /\ stopping' = NotStopping /\ tasks' = tasks \cup {n}
      BY <1>8 DEF stopTunnelTake
    <2>2. n.pc = "wait" /\ n.s = stopping.s
      OBVIOUS
    <2> HIDE DEF n
    <2>3. stopping'.s = 0 /\ ~stopping'.busy
      BY <2>1 DEF NotStopping
    <2>4. SameFreed
      BY <1>1, <2>1, StopFrees
    <2>5. HeldInv'
      BY <1>1, <1>2, <2>1, <2>2, <2>3, <2>4 DEF HeapInv, HeldInv, SameFreed
    <2>6. OwnerInv'
      BY <1>1, <1>2, <2>1, <2>2, <2>3, <2>4 DEF HeapInv, OwnerInv, SameFreed
    <2>7. MemorySafe'
      BY <2>1, UsesSafe DEF HeapInv, OwnerInv
    <2> QED  BY <2>5, <2>6, <2>7 DEF HeapInv
  <1>9. CASE StageBlock \/ ReadyBlock \/ FailBlock \/ StopDoneBlock
    <2>1. UNCHANGED <<stopping, lapsed, raced>>
      BY <1>1, <1>9, BlockRun DEF StageBlock, ReadyBlock, FailBlock, StopDoneBlock
    <2>2. UNCHANGED <<session, tasks, worker, mem, uaf>>
      BY <1>9 DEF StageBlock, ReadyBlock, FailBlock, StopDoneBlock
    <2> QED  BY <1>3, <2>1, <2>2
  <1>10. CASE TimerBlock
    <2>1. UNCHANGED <<stopping, lapsed, raced, session, worker, mem, uaf>>
      BY <1>1, <1>10, BlockRun DEF TimerBlock
    <2>2. /\ tasks \subseteq tasks'
          /\ \A t \in tasks' : t \in tasks \/ (t.pc = "read" /\ t.s = 0)
      BY <1>10 DEF TimerBlock
    <2>3. HeldInv'
      BY <2>1, <2>2 DEF HeapInv, HeldInv
    <2>4. OwnerInv'
      BY <2>1, <2>2 DEF HeapInv, OwnerInv
    <2> QED  BY <2>1, <2>3, <2>4 DEF HeapInv, MemorySafe
  <1>11. CASE BeginBlock
    <2>1. /\ UNCHANGED <<stopping, lapsed, raced>> /\ ~stopping.busy
          /\ Head(mainq) \in Pending /\ Head(mainq).k = "begin"
      BY <1>1, <1>11, BlockRun DEF BeginBlock
    <2>2. UNCHANGED tasks
      BY <1>11 DEF BeginBlock
    <2>3. CASE UNCHANGED <<session, worker, mem, uaf>>
      BY <1>3, <2>1, <2>2, <2>3
    <2>4. CASE Begins /\ ~userStopRequested /\ sessionGeneration = Head(mainq).gen
      <3>1. Current("begin")
        BY <2>1, <2>4 DEF Current
      <3>2. AllDone /\ ~TeardownTask
        BY <2>4, <3>1 DEF TokenInv, OneAtATime, Reconnecting
      <3>3. tasks' = {}
        BY <1>4, <2>2, <2>4, <3>2 DEF TeardownTask
      <3>4. Uses("free", session) /\ ~mem'[session'].freed
        BY <1>1, <1>11, <2>4, BeginFrees
      <3>5. MemorySafe'
        BY <3>4, UsesSafe DEF HeapInv, HeldInv
      <3> QED  BY <1>5, <2>1, <2>4, <3>2, <3>3, <3>4, <3>5
    <2> QED  BY <1>1, <1>11, <2>3, <2>4, BeginHeap
  <1>12. CASE TimerDue \/ SettingsDone \/ PacketsRead
    BY <1>3, <1>12 DEF TimerDue, SettingsDone, PacketsRead, propVars
  <1>13. CASE TeardownRead
    <2>1. PICK t \in tasks, n \in Tasks :
              /\ t.pc = "read" /\ tasks' = (tasks \ {t}) \cup {n}
              /\ n.pc = "clear" /\ n.s = session
      BY <1>1, <1>13, ReadFacts
    <2>2. /\ UNCHANGED <<session, stopping, worker, mem, lapsed, uaf>>
          /\ raced' = (raced \/ SharedSession) /\ Running
      BY <1>1, <1>13, ReadFacts
    <2>3. \A u \in tasks' : u \in tasks \/ u = n
      BY <2>1
    <2>4. HeldInv'
      BY <2>1, <2>2, <2>3 DEF HeapInv, HeldInv
    <2>5. ASSUME ~raced'
          PROVE  OwnerInv'
      <3>1. ~raced /\ (session # 0 => stopping.s # session /\ \A u \in tasks : u.s # session)
        BY <2>2, <2>5 DEF SharedSession
      <3> QED  BY <2>1, <2>2, <2>3, <3>1 DEF HeapInv, HeldInv, OwnerInv
    <2>6. MemorySafe'
      BY <2>2 DEF MemorySafe, Running
    <2> QED  BY <2>4, <2>5, <2>6 DEF HeapInv, OwnerInv
  <1>14. CASE TeardownClear
    <2>1. PICK t \in tasks, n \in Tasks :
              /\ tasks' = (tasks \ {t}) \cup {n} /\ n.pc = "wait" /\ n.s = t.s
              /\ mem' = sstp_ios_session_stop(mem, t.s) /\ Uses("stop", t.s)
      BY <1>1, <1>14, ClearFacts
    <2>2. UNCHANGED <<stopping, worker, lapsed, raced>> /\ session' = 0
      BY <1>1, <1>14, ClearFacts
    <2>3. \A u \in tasks' : (u \in tasks /\ u # t) \/ u = n
      BY <2>1
    <2>4. SameFreed
      BY <1>1, <2>1, StopFrees
    <2>5. HeldInv'
      BY <1>1, <1>2, <2>1, <2>2, <2>3, <2>4 DEF HeapInv, HeldInv, SameFreed
    <2>6. OwnerInv'
      BY <1>1, <1>2, <2>1, <2>2, <2>3, <2>4 DEF HeapInv, OwnerInv, SameFreed
    <2>7. MemorySafe'
      BY <2>1, <2>2, UsesSafe DEF HeapInv, OwnerInv
    <2> QED  BY <2>5, <2>6, <2>7 DEF HeapInv
  <1>15. CASE WaitEnds \/ WaitLapses
    <2>1. PICK t \in tasks :
              /\ t.pc = "wait" /\ tasks' = tasks \ {t} /\ t \in Tasks
              /\ WorkerFinished(t) \/ lapsed'
              /\ mem' = sstp_ios_session_free(mem, t.s) /\ Uses("free", t.s)
      BY <1>1, <1>15, FreeFacts
    <2>2. UNCHANGED <<session, stopping, worker, raced>> /\ (lapsed => lapsed')
      BY <1>1, <1>15, FreeFacts
    <2>3. /\ DOMAIN mem' = DOMAIN mem
          /\ \A i \in DOMAIN mem : i # t.s => mem'[i].freed = mem[i].freed
      BY <1>1, <2>1, FreeCells DEF HeapTypes, SameCells
    <2>4. session' = 0
      BY <2>1, <2>2 DEF HeapInv, HeldInv
    <2>5. ASSUME ~lapsed'
          PROVE  AllDone
      <3>1. CASE t.kind = "teardown"
        BY <3>1 DEF TeardownTask, TokenInv, Retired
      <3>2. CASE t.kind = "stop"
        <4>1. ASSUME NEW w \in DOMAIN worker, worker[w].pc # "done"
              PROVE  FALSE
          <5>1. w = t.w /\ WorkerFinished(t)
            BY <2>1, <2>2, <2>5, <3>2, <4>1 DEF ThreadInv
          <5>2. w # 0
            BY <1>1, WorkerFields
          <5> QED  BY <4>1, <5>1, <5>2 DEF WorkerFinished
        <4> QED  BY <4>1 DEF AllDone
      <3> QED  BY <2>1, <3>1, <3>2 DEF Tasks
    <2>6. HeldInv'
      BY <2>1, <2>2, <2>4, <2>5 DEF HeapInv, HeldInv, AllDone
    <2>7. ASSUME ~raced'
          PROVE  OwnerInv'
      <3>1. /\ stopping.s # 0 => stopping.s # t.s
            /\ \A u \in tasks' : u \in tasks /\ (u.s # 0 => u.s # t.s)
        BY <2>1, <2>2, <2>7 DEF HeapInv, OwnerInv
      <3> QED  BY <1>1, <1>2, <2>1, <2>2, <2>3, <2>7, <3>1 DEF HeapInv, OwnerInv
    <2>8. MemorySafe'
      BY <2>1, <2>2, UsesSafe DEF HeapInv, OwnerInv
    <2> QED  BY <2>6, <2>7, <2>8 DEF HeapInv, OwnerInv
  <1>16. ASSUME NEW w \in DOMAIN worker, WorkerStep(w) \/ Outcome(w)
         PROVE  HeapInv'
    <2>1. WorkerActs(w) /\ UNCHANGED workerOnly
      BY <1>1, <1>16, WorkerDoes
    <2>2. UNCHANGED <<session, stopping, tasks, lapsed, raced>>
      BY <2>1 DEF workerOnly, propVars
    <2>3. /\ worker[w].pc # "done" /\ DOMAIN worker' = DOMAIN worker
          /\ \A i \in DOMAIN worker : i # w => worker'[i] = worker[i]
      BY <2>1 DEF WorkerActs
    <2>4. /\ SameFreed /\ worker'[w].h \in {worker[w].h, session}
          /\ \/ uaf' = {}
             \/ \E s \in {worker[w].h, session} : Uses("worker", s)
      BY <1>1, <1>16, WorkerHeap
    <2>5. /\ session # 0 => ~mem[session].freed
          /\ ~lapsed /\ worker[w].h # 0 => ~mem[worker[w].h].freed
      BY <2>3 DEF HeapInv, HeldInv
    <2>6. ASSUME ~lapsed, NEW i \in DOMAIN worker, worker'[i].pc # "done", worker'[i].h # 0
          PROVE  ~mem'[worker'[i].h].freed
      <3>1. CASE i = w
        BY <1>1, <1>2, <2>4, <2>5, <2>6, <3>1 DEF SameFreed
      <3>2. CASE i # w
        BY <1>1, <1>2, <2>3, <2>4, <2>6, <3>2 DEF SameFreed, HeapInv, HeldInv
      <3> QED  BY <3>1, <3>2
    <2>7. session' # 0 => ~mem'[session'].freed
      BY <1>1, <1>2, <2>2, <2>4, <2>5 DEF SameFreed
    <2>8. HeldInv'
      BY <2>2, <2>3, <2>6, <2>7 DEF HeapInv, HeldInv
    <2>9. OwnerInv'
      BY <1>1, <1>2, <2>2, <2>4 DEF HeapInv, OwnerInv, SameFreed
    <2>10. MemorySafe'
      <3>1. CASE uaf' = {}
        BY <3>1 DEF MemorySafe
      <3>2. ASSUME NEW s \in {worker[w].h, session}, Uses("worker", s)
            PROVE  MemorySafe'
        BY <2>2, <2>5, <3>2, UsesSafe
      <3> QED  BY <2>4, <3>1, <3>2
    <2> QED  BY <2>8, <2>9, <2>10 DEF HeapInv
  <1>17. CASE PacketsWritten
    <2>1. UNCHANGED <<session, tasks, stopping, worker, mem, lapsed, raced>>
          /\ Uses("writer", writer)
      BY <1>17 DEF PacketsWritten, propVars
    <2>2. MemorySafe'
      BY <2>1, UsesSafe
    <2>3. HeldInv'
      BY <2>1 DEF HeapInv, HeldInv
    <2>4. OwnerInv'
      BY <2>1 DEF HeapInv, OwnerInv
    <2> QED  BY <2>2, <2>3, <2>4 DEF HeapInv
  <1>18. CASE UNCHANGED vars
    BY <1>3, <1>18 DEF vars, propVars
  <1> QED
    BY <1>6, <1>7, <1>8, <1>9, <1>10, <1>11, <1>12, <1>13, <1>14, <1>15, <1>16, <1>17, <1>18
    DEF Next, MainBlock, GlobalStep


-----------------------------------------------------------------------------
(* The invariant of the provider, and what it shows.                       *)

\* The inductive invariant of the provider when reports are not late.
TunnelInv ==
    OrderInv /\ TokenInv /\ LoopInv /\ ThreadInv /\ StageInv /\ HeapInv

\* An empty provider satisfies each part.
LEMMA InitTunnel == Init => TunnelInv
  <1> SUFFICES ASSUME Init
               PROVE  TunnelInv
    OBVIOUS
  <1>1. /\ mainq = << >> /\ worker = << >> /\ tasks = {} /\ timers = {} /\ settings = {}
        /\ stopping = NotStopping /\ session = 0 /\ workerThread = 0 /\ uaf = {}
        /\ sessionGeneration = 0 /\ packetLoopRunning = FALSE /\ stopped = FALSE
    BY DEF Init
  <1>2. DOMAIN mainq = {} /\ DOMAIN worker = {} /\ Len(worker) = 0
    BY <1>1
  <1>3. Pending = {}
    BY <1>2 DEF Pending, Entries
  <1>4. ~stopping.busy /\ stopping.s = 0
    BY <1>1 DEF NotStopping
  <1>5. TokenInv
    BY <1>1, <1>2, <1>3
    DEF TokenInv, Retired, OneAtATime, Current, Reconnecting, TeardownTask, AllDone, AllEnded,
        Fatal, Unique
  <1>6. LoopInv
    BY <1>1 DEF LoopInv, ReaderAlive
  <1>7. ThreadInv
    BY <1>1, <1>2, <1>3, <1>4 DEF ThreadInv, AllDone, Posted
  <1>8. StageInv
    BY <1>1, <1>2, <1>3 DEF StageInv, Before
  <1>9. HeapInv
    BY <1>1, <1>2, <1>4 DEF HeapInv, HeldInv, OwnerInv, MemorySafe
  <1> QED  BY <1>5, <1>6, <1>7, <1>8, <1>9, InitOrder DEF TunnelInv

\* Every step keeps it: each part from itself and the parts before it.
LEMMA TunnelKept ==
    ASSUME ~LateReports, TunnelInv, [Next]_vars
    PROVE  TunnelInv'
  <1>1. OrderInv'
    BY OrderKept DEF TunnelInv
  <1>2. TokenInv'
    BY TokenKept DEF TunnelInv
  <1>3. LoopInv'
    BY <1>1, LoopInvKept DEF TunnelInv
  <1>4. ThreadInv'
    BY <1>1, ThreadKept DEF TunnelInv
  <1>5. StageInv'
    BY <1>1, StageKept DEF TunnelInv
  <1>6. HeapInv'
    BY HeapInvKept DEF TunnelInv
  <1> QED  BY <1>1, <1>2, <1>3, <1>4, <1>5, <1>6 DEF TunnelInv

\* The invariant holds throughout, for every number of reconnect attempts and
\* of sessions, when a worker is out of a failed start_ex before the delay of
\* the reconnect it caused is over.
LEMMA TunnelInvariant ==
    ASSUME ~LateReports
    PROVE  Spec => []TunnelInv
  <1>1. TunnelInv /\ [Next]_vars => TunnelInv'
    BY TunnelKept
  <1> QED  BY <1>1, InitTunnel, PTL DEF Spec

\* handleSessionFailure and the reconnect timer never start a session after
\* one that failed fatally (auth_rejected or tls_cert), whatever blocks and
\* timers of it are still in flight.
THEOREM FatalIsFinal ==
    ASSUME ~LateReports
    PROVE  Spec => []NoRetryAfterFatal
  <1>1. TunnelInv => NoRetryAfterFatal
    BY DEF TunnelInv, TokenInv, Retired, NoRetryAfterFatal
  <1> QED  BY <1>1, TunnelInvariant, PTL

\* While packetLoopRunning is set, a readPackets handler is outstanding: a
\* teardown never leaves the flag on with no one reading the device's packets.
THEOREM PacketsAreRead ==
    ASSUME ~LateReports
    PROVE  Spec => []ReaderAlive
  <1>1. TunnelInv => ReaderAlive
    BY DEF TunnelInv, LoopInv
  <1> QED  BY <1>1, TunnelInvariant, PTL

\* After stopTunnel's completion handler the stage shown to the app stays idle,
\* unless the five seconds of the stop ran out under its worker.
THEOREM StopIsFinal ==
    ASSUME ~LateReports
    PROVE  Spec => []IdleAfterStop
  <1>1. TunnelInv => IdleAfterStop
    BY DEF TunnelInv, StageInv, IdleAfterStop
  <1> QED  BY <1>1, TunnelInvariant, PTL

\* sstp_ios_session_free is called under a running worker only after a stop
\* deadline, and a session is stopped or freed twice only when a teardown and
\* stopTunnel both read self.session before either cleared it.
THEOREM SessionsOwned ==
    ASSUME ~LateReports
    PROVE  Spec => []MemorySafe
  <1>1. TunnelInv => MemorySafe
    BY DEF TunnelInv, HeapInv
  <1> QED  BY <1>1, TunnelInvariant, PTL

=============================================================================
