----------------------------- MODULE VpnManager -----------------------------
(***************************************************************************)
(* The app (com.vn.sstp/VPNManager.m and the connect button of             *)
(* ViewController.m), and the status channel to it from the packet tunnel  *)
(* provider: keys in the App Group's defaults, and get_status messages.    *)
(*                                                                         *)
(* Everything of the app runs on its main thread, one callback at a time;  *)
(* between two callbacks the framework (NEVPNConnection) and the provider, *)
(* another process, go on.  The framework tells of a change of status by a *)
(* notification without contents: the handler reads the status it finds.   *)
(* Notifications and the provider's answers arrive in the order they were  *)
(* sent.  The provider is that of module ProviderStatus, which module      *)
(* Tunnel implements.                                                      *)
(***************************************************************************)
EXTENDS Integers, Sequences

CONSTANTS
    Codes,          \* error codes of failing sessions and refused settings
    MaxTaps,        \* bound: taps that ask for a connection
    MaxEvents,      \* bound: reconnects, crashes, starts from the Settings app,
                    \* restarts of the app and late settings, together
    MaxInbox        \* bound: notifications and answers under way at a time

ASSUME AppAssumption ==
    /\ "none" \notin Codes
    /\ MaxTaps \in Nat /\ MaxEvents \in Nat /\ MaxInbox \in Nat

VARIABLES
    \* VPNManager
    connectRequested, startWatchdogScheduled, lastErrorCode,
    tap,            \* taps so far, and how many wait for which completion
    watchdogs,      \* watchdog blocks waiting in dispatch_after
    inbox,          \* notifications and answers for the main thread
    asked,          \* get_status messages the provider has not answered
    \* the framework
    status, launch, stopReason,
    \* the provider, and the App Group's defaults
    prov, perr, packetLoopRunning, group,
    \* observations
    outcome,        \* how the last tunnel ended
    dropped,        \* the accepted start came to nothing
    overlap,        \* startVPNTunnel was called during another start or stop
    revived,        \* late settings cleared the error of a failed provider
    events

appVars == <<connectRequested, startWatchdogScheduled, lastErrorCode>>
fwVars == <<status, launch, stopReason>>
provVars == <<prov, perr, packetLoopRunning, group>>
obsVars == <<outcome, dropped, overlap, revived>>
vars == <<appVars, tap, watchdogs, inbox, asked, fwVars, provVars,
          obsVars, events>>

-----------------------------------------------------------------------------
None == "none"
Provider == INSTANCE ProviderStatus
            WITH Failures <- Codes, lastErrorCode <- perr

NEVPNStatus == {"Disconnected", "Connecting", "Connected", "Disconnecting"}
\* The app decides by the stage only whether it is idle.
Stages == {"idle", "active"}
ErrorCodes == Provider!Errors
StatusNote == [k |-> "status"]
Payloads == [k : {"answer"}, code : ErrorCodes \cup {None}, connected : BOOLEAN]
NoAnswer == [k |-> "nil"]

isConnecting == status = "Connecting"
isConnected == status = "Connected"
ProviderRuns == prov # "gone"

\* One of the bounded events.
Happens == events < MaxEvents /\ events' = events + 1

\* readPersistedErrorFromAppGroup: what is not there leaves the old value.
PersistedCode(c) == IF group.code # None THEN group.code ELSE c

-----------------------------------------------------------------------------
(* Tapping the button: save, then connect.                                 *)

\* connectTapped while a connection is there or coming, and disconnect.
\* stopVPNTunnel (external) ends a live tunnel or a launch.
TapDisconnect ==
    /\ isConnecting \/ isConnected
    /\ startWatchdogScheduled' = FALSE
    /\ connectRequested' = FALSE
    /\ status' = "Disconnecting" /\ stopReason' = "user"
    /\ inbox' = Append(inbox, StatusNote)
    /\ dropped' = FALSE
    /\ UNCHANGED <<lastErrorCode, tap, watchdogs, asked, launch, provVars,
                   outcome, overlap, revived, events>>

\* connectTapped otherwise, by button or by the keyboard's return key:
\* saveConfiguration is called.
TapConnect ==
    /\ tap.made < MaxTaps
    /\ ~isConnecting /\ ~isConnected
    /\ tap' = [tap EXCEPT !.made = @ + 1, !.saving = @ + 1]
    /\ UNCHANGED <<appVars, watchdogs, inbox, asked, fwVars, provVars, obsVars,
                   events>>

\* connectWithCompletion's check against double starts.
MayConnect == ~isConnecting /\ ~isConnected /\ ~connectRequested

\* Saving ends, with an error, which is shown, or with the profile loaded
\* again.  Then connectWithCompletion is called, and goes on to
\* loadFromPreferences or returns.
SaveDone ==
    /\ tap.saving > 0
    /\ \/ tap' = [tap EXCEPT !.saving = @ - 1]
       \/ MayConnect /\ tap' = [tap EXCEPT !.saving = @ - 1, !.loading = @ + 1]
    /\ UNCHANGED <<appVars, watchdogs, inbox, asked, fwVars, provVars, obsVars,
                   events>>

\* Variant: the App Group keeps what the last tunnel wrote.
GroupKept == group
\* What connectWithCompletion leaves in the App Group.
GroupForStart == [code |-> None, stage |-> None, started |-> FALSE]

\* Variant: the watchdog is armed when the start is asked for and once more
\* when it is accepted.
TwoWatchdogs == /\ startWatchdogScheduled' = TRUE
                /\ watchdogs' = watchdogs + 2
\* scheduleStartWatchdogFromStatus.
scheduleStartWatchdog == /\ startWatchdogScheduled' = TRUE
                         /\ watchdogs' = watchdogs + 1

\* The completion of loadFromPreferences: an error, or the start.
\* startVPNTunnel (external) is refused or accepted; it has an effect only on
\* a tunnel that is down.
LoadDone ==
    /\ tap.loading > 0
    /\ tap' = [tap EXCEPT !.loading = @ - 1]
    /\ \/ UNCHANGED <<appVars, watchdogs, group, launch, obsVars>>
       \/ /\ group' = GroupForStart
          /\ overlap' = overlap \cup
                        IF status = "Disconnecting" THEN {"stop"}
                        ELSE IF status # "Disconnected" \/ launch THEN {"start"}
                        ELSE {}
          /\ outcome' = None /\ dropped' = FALSE
          /\ \/ /\ connectRequested' = TRUE
                /\ lastErrorCode' = None
                /\ scheduleStartWatchdog
                /\ launch' = (launch \/ status = "Disconnected")
             \/ /\ connectRequested' = FALSE
                /\ lastErrorCode' = "internal"
                /\ UNCHANGED <<startWatchdogScheduled, watchdogs, launch>>
          /\ UNCHANGED revived
    /\ UNCHANGED <<inbox, asked, status, stopReason, prov, perr,
                   packetLoopRunning, events>>

-----------------------------------------------------------------------------
(* The watchdog, notifications and answers.                                *)

\* The watchdog's reading of the App Group.
ExtensionActive == group.started /\ group.stage = "active"

\* Four seconds passed.  The flag is one for all blocks: a block of an earlier
\* start may act for a later one.
WatchdogFires ==
    /\ watchdogs > 0
    /\ watchdogs' = watchdogs - 1
    /\ \/ /\ ~startWatchdogScheduled \/ ~connectRequested
          /\ UNCHANGED appVars
       \/ /\ startWatchdogScheduled /\ connectRequested
          /\ startWatchdogScheduled' = FALSE
          /\ CASE isConnecting \/ isConnected ->
                    UNCHANGED <<connectRequested, lastErrorCode>>
               [] ~isConnecting /\ ~isConnected /\ ExtensionActive ->
                    /\ lastErrorCode' = PersistedCode(lastErrorCode)
                    /\ UNCHANGED connectRequested
               [] OTHER ->
                    /\ connectRequested' = FALSE
                    /\ lastErrorCode' = "internal"
    /\ UNCHANGED <<tap, inbox, asked, fwVars, provVars, obsVars, events>>

\* refreshTunnelStatus of a manager that shows code c: without a session it
\* reads the App Group, else it asks the provider, and reads the App Group if
\* the message cannot be sent.
RefreshTunnelStatus(c) ==
    \/ /\ lastErrorCode' = PersistedCode(c)
       /\ UNCHANGED asked
    \/ /\ status # "Disconnected"
       /\ asked' = asked + 1
       /\ lastErrorCode' = c

\* Variant: a lost tunnel does not end the request.
RequestKept == connectRequested
\* connectRequested once the tunnel is down.
RequestWhenDown == FALSE

\* The Disconnected branch reads the App Group.
DownCode == PersistedCode(lastErrorCode)

\* vpnStatusDidChange.
StatusDidChange ==
    /\ inbox # << >> /\ Head(inbox) = StatusNote
    /\ inbox' = Tail(inbox)
    /\ startWatchdogScheduled' = (startWatchdogScheduled /\
                                  status = "Disconnecting")
    /\ connectRequested' = CASE status = "Connected" -> FALSE
                             [] status = "Disconnected" -> RequestWhenDown
                             [] OTHER -> connectRequested
    /\ RefreshTunnelStatus(CASE status = "Connected" -> None
                             [] status = "Disconnected" -> DownCode
                             [] OTHER -> lastErrorCode)
    /\ UNCHANGED <<tap, watchdogs, fwVars, provVars, obsVars, events>>

\* The answer to get_status, applyStatusPayload; or none, and the App Group.
StatusAnswered ==
    /\ inbox # << >> /\ Head(inbox) # StatusNote
    /\ inbox' = Tail(inbox)
    /\ LET a == Head(inbox)
       IN  lastErrorCode' = CASE a.k = "nil" -> PersistedCode(lastErrorCode)
                              [] a.k # "nil" /\ a.code # None -> a.code
                              [] a.k # "nil" /\ a.code = None /\ a.connected -> None
                              [] OTHER -> lastErrorCode
    /\ UNCHANGED <<connectRequested, startWatchdogScheduled, tap, watchdogs,
                   asked, fwVars, provVars, obsVars, events>>

\* The app is ended and opened again: a new manager, which reloads its profile.
Relaunch ==
    /\ Happens
    /\ connectRequested' = FALSE /\ startWatchdogScheduled' = FALSE
    /\ lastErrorCode' = None
    /\ tap' = [tap EXCEPT !.saving = 0, !.loading = 0]
    /\ watchdogs' = 0 /\ inbox' = << >> /\ asked' = 0
    /\ outcome' = None /\ dropped' = FALSE
    /\ UNCHANGED <<fwVars, provVars, overlap, revived>>

-----------------------------------------------------------------------------
(* The framework (external).                                               *)

StatusGoes(s) ==
    /\ Len(inbox) + asked < MaxInbox
    /\ status' = s
    /\ inbox' = Append(inbox, StatusNote)

StartElsewhere ==
    /\ status = "Disconnected" /\ ~launch /\ Happens
    /\ launch' = TRUE
    /\ outcome' = None /\ dropped' = FALSE
    /\ UNCHANGED <<appVars, tap, watchdogs, inbox, asked, status,
                   stopReason, provVars, overlap, revived>>

\* The extension is launched, or nothing comes of the start.
Launches ==
    /\ launch /\ status = "Disconnected"
    /\ launch' = FALSE
    /\ \/ /\ StatusGoes("Connecting")
          /\ prov' = "launched" /\ perr' = None
          /\ packetLoopRunning' = FALSE
          /\ UNCHANGED dropped
       \/ /\ dropped' = TRUE
          /\ UNCHANGED <<status, inbox, prov, perr, packetLoopRunning>>
    /\ UNCHANGED <<appVars, tap, watchdogs, asked, stopReason, group,
                   outcome, overlap, revived, events>>

\* The start handler was called with success.
ComesUp ==
    /\ prov = "up" /\ status = "Connecting"
    /\ StatusGoes("Connected")
    /\ UNCHANGED <<appVars, tap, watchdogs, asked, launch, stopReason,
                   provVars, obsVars, events>>

\* A stop from the Settings app or by the system, or a provider that failed.
GoesDown ==
    /\ status \in {"Connecting", "Connected"}
    /\ StatusGoes("Disconnecting")
    /\ \/ prov # "failed" /\ stopReason' \in {"user", "other"}
       \/ prov = "failed" /\ UNCHANGED stopReason
    /\ UNCHANGED <<appVars, tap, watchdogs, asked, launch, provVars,
                   obsVars, events>>

\* What the provider's process remembered is gone with it.
ProcessGone == prov' = "gone" /\ perr' = None /\ packetLoopRunning' = FALSE

\* The provider's process ends: after it failed, or before it was started.
ProviderEnds ==
    /\ prov \in {"launched", "failed"} /\ status = "Disconnecting"
    /\ StatusGoes("Disconnected")
    /\ ProcessGone /\ stopReason' = None
    /\ UNCHANGED <<appVars, tap, watchdogs, asked, launch, group, obsVars, events>>

\* The provider's process crashes: nobody knows why it ended.
ProviderCrashes ==
    /\ ProviderRuns /\ Happens
    /\ StatusGoes("Disconnected")
    /\ ProcessGone /\ stopReason' = None
    /\ outcome' = None
    /\ UNCHANGED <<appVars, tap, watchdogs, asked, launch, group, dropped, overlap, revived>>

\* A get_status message reaches the provider, or fails with it.
AnswersStatus ==
    /\ asked > 0
    /\ asked' = asked - 1
    /\ inbox' = Append(inbox,
         IF ProviderRuns
           THEN [k |-> "answer", code |-> perr, connected |-> packetLoopRunning]
           ELSE NoAnswer)
    /\ UNCHANGED <<appVars, tap, watchdogs, fwVars, provVars, obsVars,
                   events>>

-----------------------------------------------------------------------------
(* The provider's side of the channel: what it does is in ProviderStatus,  *)
(* and here what it writes to the App Group.                               *)

\* Variant: only the stage is written.
StageOnly(g, s, c) == [g EXCEPT !.stage = s]
\* persistStatus on defaults g.
persistStatus(g, s, c) ==
    [g EXCEPT !.stage = s, !.code = IF c # None THEN c ELSE @]
\* clearPersistedError.
clearPersistedError(g) == [g EXCEPT !.code = None]

\* The provider's error is perr' from now on; it is persisted with stage s.
Persists(g, s) == group' = persistStatus(g, s, perr')

ProviderOnly == <<appVars, tap, watchdogs, inbox, asked, fwVars,
                  dropped, overlap>>

\* startTunnelWithOptions.
ProviderStarts ==
    /\ stopReason = None
    /\ \/ /\ Provider!StartRefused
          /\ Persists(clearPersistedError(group), "active")
       \/ /\ Provider!Start
          /\ Persists([clearPersistedError(group) EXCEPT !.started = TRUE],
                      "active")
    /\ outcome' = perr'
    /\ UNCHANGED <<ProviderOnly, revived, events>>

\* on_stage, also of a session that is no longer wanted.
ProviderStage ==
    /\ prov \in {"starting", "up", "failed"}
    /\ UNCHANGED perr /\ Persists(group, "active")
    /\ UNCHANGED <<ProviderOnly, prov, packetLoopRunning, outcome, revived,
                   events>>

\* handleSessionFailure with a reconnect, which then ends the packet loop.
ProviderRetries ==
    /\ Happens
    /\ \E c \in Codes : Provider!Retry(c)
    /\ Persists(group, "active")
    /\ UNCHANGED <<ProviderOnly, outcome, revived>>

ProviderLoopEnds ==
    /\ packetLoopRunning /\ Provider!LoopEnds
    /\ UNCHANGED <<ProviderOnly, group, outcome, revived, events>>

\* The network settings are applied, for the first time or after a reconnect.
ProviderUp ==
    /\ Provider!Up
    /\ Persists(clearPersistedError(group), "active")
    /\ UNCHANGED <<ProviderOnly, outcome, revived, events>>

\* handleSessionFailure without, or settings refused; and the same once more,
\* by a report or a session that was still under way.
ProviderFails ==
    /\ prov = "failed" => Happens
    /\ prov # "failed" => UNCHANGED events
    /\ \E c \in Codes : Provider!Fail(c)
    /\ Persists(group, "active")
    /\ outcome' = perr'
    /\ UNCHANGED <<ProviderOnly, revived>>

\* The settings of a session that failed meanwhile are applied: the
\* completion handler clears the error it finds.
ProviderRevives ==
    /\ perr # "missing_credentials" /\ Happens
    /\ Provider!Revive
    /\ Persists(clearPersistedError(group), "active")
    /\ revived' = TRUE
    /\ UNCHANGED <<ProviderOnly, outcome>>

\* stopTunnelWithReason, and its last block.
ProviderStops ==
    /\ status = "Disconnecting"
    /\ Provider!Stop(stopReason = "user")
    /\ Persists([group EXCEPT !.started = FALSE], "active")
    /\ outcome' = IF stopReason = "user" THEN perr' ELSE outcome
    /\ UNCHANGED <<ProviderOnly, revived, events>>

ProviderStopped ==
    /\ Provider!Stopped
    /\ Persists(group, "idle")
    /\ stopReason' = None
    /\ StatusGoes("Disconnected")
    /\ UNCHANGED <<appVars, tap, watchdogs, asked, launch, obsVars, events>>

-----------------------------------------------------------------------------
Init ==
    /\ connectRequested = FALSE /\ startWatchdogScheduled = FALSE
    /\ lastErrorCode = None
    /\ tap = [made |-> 0, saving |-> 0, loading |-> 0] /\ watchdogs = 0
    /\ inbox = << >> /\ asked = 0
    /\ status = "Disconnected" /\ launch = FALSE /\ stopReason = None
    /\ prov = "gone" /\ perr = None
    /\ packetLoopRunning = FALSE
    /\ group = [code |-> None, stage |-> None, started |-> FALSE]
    /\ outcome = None /\ dropped = FALSE /\ overlap = {} /\ revived = FALSE
    /\ events = 0

Chain == SaveDone \/ LoadDone
Inbox == StatusDidChange \/ StatusAnswered
ProviderEvent == ProviderStarts \/ ProviderUp \/ ProviderFails
ProviderStopping == ProviderEnds \/ ProviderStops

\* What the framework and the provider do without being asked.  A session that
\* is starting is not among it: PPP has no timer.
FrameworkGoesOn ==
    \/ Launches \/ ComesUp \/ (prov = "failed" /\ GoesDown)
    \/ (prov = "launched" /\ ProviderEvent) \/ ProviderStopping \/ ProviderStopped

Next ==
    \/ TapDisconnect \/ TapConnect \/ Chain
    \/ WatchdogFires \/ Inbox \/ Relaunch
    \/ StartElsewhere \/ Launches \/ ComesUp \/ GoesDown \/ ProviderCrashes
    \/ AnswersStatus \/ ProviderEvent \/ ProviderStage \/ ProviderRetries
    \/ ProviderLoopEnds \/ ProviderRevives \/ ProviderStopping \/ ProviderStopped

Spec == Init /\ [][Next]_vars

\* Completions are called, the main queue and its delays run, the framework
\* acts on starts, failures and stops, and a provider is started and its stop
\* ends (StopEnds of module Tunnel).  Nobody need tap, a tunnel that is up may
\* stay, and one that is starting may go on for ever (StartAnswered of Tunnel).
FairSpec ==
    /\ Spec
    /\ WF_vars(Chain) /\ WF_vars(WatchdogFires)
    /\ WF_vars(Inbox \/ AnswersStatus) /\ WF_vars(FrameworkGoesOn)

-----------------------------------------------------------------------------
(* Properties.                                                             *)

\* The manager's properties, its queues, the framework's status and the App
\* Group keep their types.
TypeOK ==
    /\ connectRequested \in BOOLEAN /\ startWatchdogScheduled \in BOOLEAN
    /\ lastErrorCode \in ErrorCodes \cup {None}
    /\ tap \in [made : 0 .. MaxTaps, saving : 0 .. MaxTaps, loading : 0 .. MaxTaps]
    /\ watchdogs \in 0 .. MaxTaps
    /\ inbox \in Seq({StatusNote, NoAnswer} \cup Payloads) /\ asked \in Nat
    /\ status \in NEVPNStatus /\ launch \in BOOLEAN
    /\ stopReason \in {None, "user", "other"}
    /\ prov \in Provider!ProviderStates
    /\ perr \in ErrorCodes \cup {None}
    /\ packetLoopRunning \in BOOLEAN
    /\ group \in [code : ErrorCodes \cup {None}, stage : Stages \cup {None},
                  started : BOOLEAN]
    /\ outcome \in ErrorCodes \cup {None} /\ dropped \in BOOLEAN
    /\ overlap \subseteq {"start", "stop"}
    /\ revived \in BOOLEAN
    /\ events \in 0 .. MaxEvents

\* Once all notifications and answers are handled, a tunnel that is down shows
\* how it ended: the code of the provider's last failure, not of one a reconnect
\* mended, and cancelled after a stop by the user.  (A second start while a
\* tunnel goes up or down removes the keys; late settings clear them.)
ResultShown ==
    /\ status = "Disconnected" /\ ~launch /\ inbox = << >> /\ asked = 0
    /\ overlap = {} /\ ~revived
    /\ outcome # None
    => lastErrorCode = outcome

\* A request to connect never outlives its tunnel: until it is given up the
\* app refuses to connect again.  It ends with the tunnel or when it is up,
\* unless the provider's session starts for ever; the status then stays
\* Connecting, and a tap disconnects (connectTapped).
NeverLockedOut ==
    connectRequested ~> \/ ~connectRequested \/ isConnected
                        \/ [](isConnecting /\ prov = "starting")

\* A start the framework accepted and then dropped is not forgotten: until the
\* request is given up a watchdog block is waiting that will act, or a
\* notification of the tunnel before, which ends the request without an error,
\* is on its way.
DropReported ==
    dropped /\ connectRequested =>
        \/ startWatchdogScheduled /\ watchdogs > 0
        \/ \E i \in DOMAIN inbox : inbox[i] = StatusNote

\* No start is made while another is under way: "Prevent double-start races
\* from UI double-tap."
OneStart == "start" \notin overlap

=============================================================================
