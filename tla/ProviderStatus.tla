--------------------------- MODULE ProviderStatus ---------------------------
(***************************************************************************)
(* What the packet tunnel provider lets the app and the framework see of   *)
(* itself: how far it is, the error it would report, and whether packets   *)
(* flow.  Module Tunnel, the provider with its threads and sessions,       *)
(* implements this specification; module VpnManager, the app, is built on  *)
(* it.                                                                     *)
(***************************************************************************)
CONSTANTS
    Failures,       \* codes a failing session reports
    None            \* no error

VARIABLES
    prov,               \* launched, starting, up, failed, stopping, gone
    lastErrorCode,      \* self.lastErrorCode
    packetLoopRunning   \* self.packetLoopRunning, "connected" for the app

providerVars == <<prov, lastErrorCode, packetLoopRunning>>

Errors == Failures \cup {"missing_credentials", "internal", "cancelled"}
ProviderStates == {"launched", "starting", "up", "failed", "stopping", "gone"}
HasSession == prov \in {"starting", "up"}

-----------------------------------------------------------------------------
\* startTunnelWithOptions: credentials are missing, or a session begins.
StartRefused ==
    /\ prov = "launched" /\ prov' = "failed"
    /\ lastErrorCode' = "missing_credentials"
    /\ UNCHANGED packetLoopRunning

Start ==
    /\ prov = "launched" /\ prov' = "starting"
    /\ lastErrorCode' = None
    /\ UNCHANGED packetLoopRunning

\* handleSessionFailure: a reconnect is scheduled.
Retry(c) ==
    /\ HasSession /\ UNCHANGED prov
    /\ lastErrorCode' = c
    /\ UNCHANGED packetLoopRunning

\* handleSessionFailure without a reconnect, or settings refused: the tunnel
\* is cancelled.  This may happen again to a provider that has failed.
Fail(c) ==
    /\ HasSession \/ prov = "failed"
    /\ prov' = "failed"
    /\ lastErrorCode' = c
    /\ UNCHANGED packetLoopRunning

\* The teardown of a reconnect ends the packet loop.
LoopEnds ==
    /\ HasSession \/ prov = "failed"
    /\ packetLoopRunning' = FALSE
    /\ UNCHANGED <<prov, lastErrorCode>>

\* The network settings of a session are applied.
Up ==
    /\ HasSession /\ prov' = "up"
    /\ lastErrorCode' = None
    /\ packetLoopRunning' = TRUE

\* The same after the session failed: the error is forgotten, the provider
\* stays cancelled.
Revive ==
    /\ prov = "failed" /\ UNCHANGED prov
    /\ lastErrorCode' = None
    /\ packetLoopRunning' = TRUE

\* stopTunnelWithReason, by the user or for another reason.
Stop(byUser) ==
    /\ HasSession \/ prov = "failed"
    /\ prov' = "stopping"
    /\ lastErrorCode' = IF byUser THEN "cancelled" ELSE lastErrorCode
    /\ packetLoopRunning' = FALSE

\* Its completion handler is called.
Stopped ==
    /\ prov = "stopping" /\ prov' = "gone"
    /\ UNCHANGED <<lastErrorCode, packetLoopRunning>>

-----------------------------------------------------------------------------
Init ==
    /\ prov = "launched"
    /\ lastErrorCode = None
    /\ packetLoopRunning = FALSE

Next ==
    \/ StartRefused \/ Start
    \/ \E c \in Failures : Retry(c) \/ Fail(c)
    \/ Fail("internal")
    \/ LoopEnds \/ Up \/ Revive
    \/ \E byUser \in BOOLEAN : Stop(byUser)
    \/ Stopped

Spec == Init /\ [][Next]_providerVars

=============================================================================
