-------------------------- MODULE VpnManagerProofs --------------------------
(***************************************************************************)
(* What is proved of module VpnManager, for every set of codes and every   *)
(* bound: the app shows how a tunnel ended, and reports a start that the   *)
(* framework dropped.                                                      *)
(***************************************************************************)
EXTENDS VpnManager, SequenceTheorems, TLAPS

-----------------------------------------------------------------------------
(* Types.                                                                  *)

Items == {StatusNote, NoAnswer} \cup Payloads
Groups == [code : ErrorCodes \cup {None}, stage : Stages \cup {None}, started : BOOLEAN]
Taps == [made : 0 .. MaxTaps, saving : 0 .. MaxTaps, loading : 0 .. MaxTaps]

AppTypes ==
    /\ connectRequested \in BOOLEAN /\ startWatchdogScheduled \in BOOLEAN
    /\ lastErrorCode \in ErrorCodes \cup {None}
InboxTypes == inbox \in Seq(Items)
FrameworkTypes ==
    /\ status \in NEVPNStatus /\ launch \in BOOLEAN
    /\ stopReason \in {None, "user", "other"}
ProviderTypes ==
    /\ prov \in Provider!ProviderStates
    /\ perr \in ErrorCodes \cup {None}
    /\ packetLoopRunning \in BOOLEAN /\ group \in Groups
SeenTypes ==
    /\ outcome \in ErrorCodes \cup {None} /\ dropped \in BOOLEAN
    /\ overlap \subseteq {"start", "stop"}
    /\ revived \in BOOLEAN
EventTypes == events \in 0 .. MaxEvents /\ asked \in Nat

\* Every watchdog block, save and load belongs to a tap of its own.
TapInv ==
    /\ tap \in Taps /\ watchdogs \in Nat
    /\ tap.saving + tap.loading + watchdogs <= tap.made

TypeInv == /\ AppTypes /\ InboxTypes /\ FrameworkTypes /\ ProviderTypes /\ SeenTypes
           /\ EventTypes /\ TapInv

\* The parts make the type invariant.
LEMMA TypeParts == TypeInv => TypeOK
  <1> SUFFICES ASSUME TypeInv
               PROVE  TypeOK
    OBVIOUS
  <1>1. watchdogs \in 0 .. MaxTaps
    <2>1. /\ tap.made \in 0 .. MaxTaps /\ tap.saving \in 0 .. MaxTaps
          /\ tap.loading \in 0 .. MaxTaps /\ watchdogs \in Nat
          /\ tap.saving + tap.loading + watchdogs <= tap.made /\ MaxTaps \in Nat
      BY AppAssumption DEF TypeInv, TapInv, Taps
    <2> QED  BY <2>1
  <1>2. AppTypes /\ InboxTypes /\ FrameworkTypes /\ ProviderTypes /\ SeenTypes /\ EventTypes
        /\ tap \in Taps
    BY DEF TypeInv, TapInv
  <1> QED
    BY <1>1, <1>2
    DEF TypeOK, AppTypes, InboxTypes, FrameworkTypes, ProviderTypes, SeenTypes, EventTypes,
        Items, Groups, Taps

\* The error codes are codes.
LEMMA KnownCodes ==
    /\ Codes \subseteq ErrorCodes
    /\ {"missing_credentials", "internal", "cancelled"} \subseteq ErrorCodes
    /\ None \notin ErrorCodes
  BY AppAssumption DEF ErrorCodes, Provider!Errors, None

\* The keys of the App Group stay keys.
LEMMA GroupKeys ==
    ASSUME NEW g \in Groups, NEW s \in Stages, NEW c \in ErrorCodes \cup {None}
    PROVE  /\ clearPersistedError(g) \in Groups
           /\ clearPersistedError(g).code = None
           /\ \A b \in BOOLEAN : [g EXCEPT !.started = b] \in Groups
           /\ \A b \in BOOLEAN : [g EXCEPT !.started = b].code = g.code
           /\ persistStatus(g, s, c) \in Groups
           /\ c # None => persistStatus(g, s, c).code = c
           /\ c = None => persistStatus(g, s, c).code = g.code
  BY DEF Groups, clearPersistedError, persistStatus

\* What the error a manager reads is.
LEMMA Persisted ==
    ASSUME group \in Groups, NEW c \in ErrorCodes \cup {None}
    PROVE  /\ PersistedCode(c) \in ErrorCodes \cup {None}
           /\ group.code # None => PersistedCode(c) = group.code
  BY DEF Groups, PersistedCode

-----------------------------------------------------------------------------
(* The inbox.                                                              *)

\* A notification is on its way to the main thread.
HasNote(q) == \E i \in DOMAIN q : q[i] = StatusNote
\* A notification comes after every answer of the provider.
Followed(q) ==
    \A i \in DOMAIN q : q[i].k = "answer" =>
        \E j \in DOMAIN q : i < j /\ q[j] = StatusNote

\* The inbox with a notification or an answer added.
LEMMA BoxAppend ==
    ASSUME NEW q \in Seq(Items), NEW a \in Items
    PROVE  /\ Append(q, a) \in Seq(Items)
           /\ HasNote(q) \/ a = StatusNote => HasNote(Append(q, a))
           /\ a = StatusNote => Followed(Append(q, a))
           /\ a.k # "answer" /\ Followed(q) => Followed(Append(q, a))
  <1> DEFINE r == Append(q, a)
  <1>1. /\ r \in Seq(Items) /\ Len(r) = Len(q) + 1 /\ r[Len(q) + 1] = a
        /\ \A i \in 1 .. Len(q) : r[i] = q[i]
    BY AppendProperties
  <1>2. Len(q) \in Nat /\ DOMAIN q = 1 .. Len(q) /\ DOMAIN r = 1 .. (Len(q) + 1)
    BY <1>1, LenProperties
  <1> HIDE DEF r
  <1>3. /\ \A i \in DOMAIN q : i \in DOMAIN r /\ r[i] = q[i] /\ i < Len(q) + 1
        /\ Len(q) + 1 \in DOMAIN r
        /\ \A i \in DOMAIN r : i \in DOMAIN q \/ i = Len(q) + 1
    BY <1>1, <1>2
  <1>4. HasNote(q) \/ a = StatusNote => HasNote(r)
    BY <1>1, <1>3 DEF HasNote
  <1>5. StatusNote.k # "answer"
    BY DEF StatusNote
  <1>6. a = StatusNote => Followed(r)
    BY <1>1, <1>3, <1>5 DEF Followed
  <1>7. a.k # "answer" /\ Followed(q) => Followed(r)
    BY <1>1, <1>3 DEF Followed
  <1> QED  BY <1>1, <1>4, <1>6, <1>7 DEF r

\* The inbox once its first item is handled.
LEMMA BoxTail ==
    ASSUME NEW q \in Seq(Items), q # << >>
    PROVE  /\ Tail(q) \in Seq(Items) /\ Head(q) \in Items
           /\ HasNote(q) /\ Head(q) # StatusNote => HasNote(Tail(q))
           /\ Followed(q) => Followed(Tail(q))
           /\ Followed(q) /\ Head(q).k = "answer" => HasNote(Tail(q))
  <1> DEFINE r == Tail(q)
  <1>1. /\ r \in Seq(Items) /\ Head(q) \in Items /\ Len(r) = Len(q) - 1
        /\ \A i \in 1 .. Len(r) : r[i] = q[i + 1]
    BY HeadTailProperties
  <1>2. Len(q) \in Nat \ {0} /\ DOMAIN q = 1 .. Len(q) /\ Head(q) = q[1]
    BY LenProperties, EmptySeq
  <1>3. DOMAIN r = 1 .. (Len(q) - 1)
    BY <1>1, LenProperties
  <1> HIDE DEF r
  <1>4. \A i \in DOMAIN r : i + 1 \in DOMAIN q /\ r[i] = q[i + 1] /\ i \in Nat
    BY <1>1, <1>2, <1>3
  <1>5. \A j \in DOMAIN q : j # 1 => j - 1 \in DOMAIN r /\ r[j - 1] = q[j]
    BY <1>1, <1>2, <1>3
  <1>6. 1 \in DOMAIN q /\ \A j \in DOMAIN q : j \in Nat \ {0}
    BY <1>2
  <1>7. HasNote(q) /\ Head(q) # StatusNote => HasNote(r)
    BY <1>2, <1>5 DEF HasNote
  <1>8. ASSUME Followed(q)
        PROVE  Followed(r)
    <2> SUFFICES ASSUME NEW i \in DOMAIN r, r[i].k = "answer"
                 PROVE  \E j \in DOMAIN r : i < j /\ r[j] = StatusNote
      BY DEF Followed
    <2>1. PICK j \in DOMAIN q : i + 1 < j /\ q[j] = StatusNote
      BY <1>4, <1>8 DEF Followed
    <2>2. j # 1 /\ i < j - 1
      BY <1>4, <1>6, <2>1
    <2> QED  BY <1>5, <2>1, <2>2
  <1>9. ASSUME Followed(q), Head(q).k = "answer"
        PROVE  HasNote(r)
    <2>1. PICK j \in DOMAIN q : 1 < j /\ q[j] = StatusNote
      BY <1>2, <1>6, <1>9 DEF Followed
    <2> QED  BY <1>5, <1>6, <2>1 DEF HasNote
  <1> QED  BY <1>1, <1>7, <1>8, <1>9 DEF r

-----------------------------------------------------------------------------
(* The type invariant is kept.                                             *)

\* What the provider's process does without a change of the framework's status.
ProviderActs ==
    \/ ProviderEvent \/ ProviderStage \/ ProviderRetries \/ ProviderLoopEnds
    \/ ProviderRevives \/ ProviderStops

\* It touches neither the app nor the framework.
LEMMA ProviderAlone ==
    ASSUME ProviderActs
    PROVE  UNCHANGED ProviderOnly
  BY DEF ProviderActs, ProviderEvent, ProviderStarts, ProviderUp, ProviderFails, ProviderStage,
      ProviderRetries, ProviderLoopEnds, ProviderRevives, ProviderStops

\* The flags and the code of VPNManager.
LEMMA AppKept ==
    ASSUME TypeInv, Next
    PROVE  AppTypes'
  <1>1. /\ AppTypes /\ InboxTypes /\ group \in Groups
        /\ lastErrorCode \in ErrorCodes \cup {None}
        /\ None \in ErrorCodes \cup {None} /\ "internal" \in ErrorCodes
    BY KnownCodes DEF TypeInv, AppTypes, ProviderTypes
  <1>2. \A c \in ErrorCodes \cup {None} : PersistedCode(c) \in ErrorCodes \cup {None}
    BY <1>1, Persisted
  <1>3. ASSUME UNCHANGED appVars
        PROVE  AppTypes'
    BY <1>1, <1>3 DEF AppTypes, appVars
  <1>4. CASE TapDisconnect \/ Relaunch
    BY <1>1, <1>4 DEF TapDisconnect, Relaunch, AppTypes
  <1>5. CASE TapConnect \/ SaveDone \/ StartElsewhere \/ Launches \/ ComesUp \/ GoesDown
             \/ ProviderCrashes \/ AnswersStatus \/ ProviderEnds \/ ProviderStopped
    BY <1>3, <1>5 DEF TapConnect, SaveDone, StartElsewhere, Launches, ComesUp, GoesDown,
        ProviderCrashes, AnswersStatus, ProviderEnds, ProviderStopped
  <1>6. CASE ProviderActs
    <2>1. UNCHANGED ProviderOnly
      BY <1>6, ProviderAlone
    <2> QED  BY <1>3, <2>1 DEF ProviderOnly
  <1>7. CASE LoadDone
    <2>1. CASE UNCHANGED appVars
      BY <1>3, <2>1
    <2>2. CASE connectRequested' = TRUE /\ lastErrorCode' = None /\ scheduleStartWatchdog
      BY <1>1, <2>2 DEF AppTypes, scheduleStartWatchdog
    <2>3. CASE connectRequested' = FALSE /\ lastErrorCode' = "internal"
               /\ UNCHANGED startWatchdogScheduled
      BY <1>1, <2>3 DEF AppTypes
    <2> QED  BY <1>7, <2>1, <2>2, <2>3 DEF LoadDone
  <1>8. CASE WatchdogFires
    <2>1. CASE UNCHANGED appVars
      BY <1>3, <2>1
    <2>2. CASE /\ startWatchdogScheduled' = FALSE
               /\ UNCHANGED connectRequested \/ connectRequested' = FALSE
               /\ lastErrorCode' \in {lastErrorCode, PersistedCode(lastErrorCode), "internal"}
      BY <1>1, <1>2, <2>2 DEF AppTypes
    <2> QED  BY <1>8, <2>1, <2>2 DEF WatchdogFires
  <1>9. CASE StatusDidChange
    <2>1. connectRequested' \in {FALSE, connectRequested}
          /\ startWatchdogScheduled' = (startWatchdogScheduled /\ status = "Disconnecting")
      BY <1>9 DEF StatusDidChange, RequestWhenDown
    <2> DEFINE c == CASE status = "Connected" -> None
                      [] status = "Disconnected" -> DownCode
                      [] OTHER -> lastErrorCode
    <2>2. c \in ErrorCodes \cup {None}
      BY <1>1, <1>2 DEF DownCode
    <2>3. RefreshTunnelStatus(c)
      BY <1>9 DEF StatusDidChange
    <2> HIDE DEF c
    <2>4. lastErrorCode' \in ErrorCodes \cup {None}
      BY <1>2, <2>2, <2>3 DEF RefreshTunnelStatus
    <2> QED  BY <1>1, <2>1, <2>4 DEF AppTypes
  <1>10. CASE StatusAnswered
    <2>1. Head(inbox) \in Items
      BY <1>1, <1>10, HeadTailProperties DEF StatusAnswered, InboxTypes
    <2>2. Head(inbox).k # "nil" => Head(inbox).code \in ErrorCodes \cup {None}
      BY <1>10, <2>1 DEF StatusAnswered, Items, Payloads, NoAnswer
    <2>3. lastErrorCode' \in ErrorCodes \cup {None}
      BY <1>1, <1>2, <1>10, <2>2 DEF StatusAnswered
    <2> QED  BY <1>1, <1>10, <2>3 DEF AppTypes, StatusAnswered
  <1> QED
    BY <1>4, <1>5, <1>6, <1>7, <1>8, <1>9, <1>10
    DEF Next, Chain, Inbox, ProviderActs, ProviderStopping

\* What a step does to the inbox: a notification or an answer is added, the
\* first is handled, all are dropped with the app, or nothing.
LEMMA InboxStep ==
    ASSUME TypeInv, Next
    PROVE  \/ UNCHANGED inbox
           \/ inbox' = Append(inbox, StatusNote)
           \/ inbox # << >> /\ inbox' = Tail(inbox)
           \/ /\ inbox' = Append(inbox, NoAnswer) /\ prov = "gone"
           \/ /\ \E a \in Payloads : inbox' = Append(inbox, a)
              /\ prov # "gone"
           \/ inbox' = << >>
  <1>1. CASE TapDisconnect \/ Relaunch \/ StatusDidChange \/ StatusAnswered
    BY <1>1 DEF TapDisconnect, Relaunch, StatusDidChange, StatusAnswered
  <1>2. CASE TapConnect \/ Chain \/ WatchdogFires \/ StartElsewhere
    BY <1>2 DEF TapConnect, Chain, SaveDone, LoadDone, WatchdogFires, StartElsewhere
  <1>3. CASE Launches \/ ComesUp \/ GoesDown \/ ProviderCrashes \/ ProviderEnds
             \/ ProviderStopped
    BY <1>3 DEF Launches, ComesUp, GoesDown, ProviderCrashes, ProviderEnds, ProviderStopped,
        StatusGoes
  <1>4. CASE ProviderActs
    <2>1. UNCHANGED ProviderOnly
      BY <1>4, ProviderAlone
    <2> QED  BY <2>1 DEF ProviderOnly
  <1>5. CASE AnswersStatus
    <2> DEFINE a == [k |-> "answer", code |-> perr, connected |-> packetLoopRunning]
    <2>1. a \in Payloads
      BY DEF TypeInv, ProviderTypes, Payloads
    <2>2. CASE ProviderRuns
      <3>1. inbox' = Append(inbox, a)
        BY <1>5, <2>2 DEF AnswersStatus
      <3> QED  BY <2>1, <2>2, <3>1 DEF ProviderRuns
    <2>3. CASE ~ProviderRuns
      BY <1>5, <2>3 DEF AnswersStatus, ProviderRuns
    <2> QED  BY <2>2, <2>3
  <1> QED
    BY <1>1, <1>2, <1>3, <1>4, <1>5 DEF Next, Inbox, ProviderActs, ProviderStopping

\* Every step keeps the inbox one of notifications and answers.
LEMMA InboxKept ==
    ASSUME TypeInv, Next
    PROVE  InboxTypes'
  <1>1. inbox \in Seq(Items) /\ StatusNote \in Items /\ NoAnswer \in Items
        /\ Payloads \subseteq Items
    BY DEF TypeInv, InboxTypes, Items
  <1>2. CASE UNCHANGED inbox
    BY <1>1, <1>2 DEF InboxTypes
  <1>3. ASSUME NEW a \in Items, inbox' = Append(inbox, a)
        PROVE  InboxTypes'
    BY <1>1, <1>3, BoxAppend DEF InboxTypes
  <1>4. CASE inbox # << >> /\ inbox' = Tail(inbox)
    BY <1>1, <1>4, BoxTail DEF InboxTypes
  <1>5. CASE inbox' = << >>
    BY <1>5 DEF InboxTypes
  <1> QED  BY <1>1, <1>2, <1>3, <1>4, <1>5, InboxStep

\* The framework's status.
LEMMA FrameworkKept ==
    ASSUME TypeInv, Next
    PROVE  FrameworkTypes'
  <1>1. FrameworkTypes
    BY DEF TypeInv
  <1>2. ASSUME UNCHANGED fwVars
        PROVE  FrameworkTypes'
    BY <1>1, <1>2 DEF FrameworkTypes, fwVars
  <1>3. CASE TapConnect \/ SaveDone \/ WatchdogFires \/ Inbox \/ Relaunch \/ AnswersStatus
    BY <1>2, <1>3 DEF TapConnect, SaveDone, WatchdogFires, Inbox, StatusDidChange,
        StatusAnswered, Relaunch, AnswersStatus
  <1>4. CASE ProviderActs
    <2>1. UNCHANGED ProviderOnly
      BY <1>4, ProviderAlone
    <2> QED  BY <1>2, <2>1 DEF ProviderOnly
  <1>5. CASE LoadDone
    <2>1. UNCHANGED <<status, stopReason>>
          /\ (UNCHANGED launch \/ launch' = (launch \/ status = "Disconnected"))
      BY <1>5 DEF LoadDone
    <2> QED  BY <1>1, <2>1 DEF FrameworkTypes
  <1>6. CASE TapDisconnect \/ StartElsewhere \/ Launches \/ ComesUp \/ GoesDown
             \/ ProviderCrashes \/ ProviderEnds \/ ProviderStopped
    BY <1>1, <1>6 DEF TapDisconnect, StartElsewhere, Launches, ComesUp, GoesDown,
        ProviderCrashes, ProviderEnds, ProviderStopped, StatusGoes, FrameworkTypes, NEVPNStatus
  <1> QED
    BY <1>3, <1>4, <1>5, <1>6 DEF Next, Chain, ProviderActs, ProviderStopping

\* The provider's state, and the App Group.
LEMMA ProviderKept ==
    ASSUME TypeInv, Next
    PROVE  ProviderTypes'
  <1>1. /\ ProviderTypes /\ group \in Groups /\ perr \in ErrorCodes \cup {None}
        /\ "active" \in Stages /\ "idle" \in Stages /\ None \in ErrorCodes \cup {None}
    BY DEF TypeInv, ProviderTypes, Stages
  <1>2. ASSUME UNCHANGED provVars
        PROVE  ProviderTypes'
    BY <1>1, <1>2 DEF ProviderTypes, provVars
  <1>3. CASE TapDisconnect \/ TapConnect \/ SaveDone \/ WatchdogFires \/ Inbox \/ Relaunch
             \/ AnswersStatus \/ StartElsewhere \/ ComesUp \/ GoesDown
    BY <1>2, <1>3 DEF TapDisconnect, TapConnect, SaveDone, WatchdogFires, Inbox,
        StatusDidChange, StatusAnswered, Relaunch, AnswersStatus, StartElsewhere, ComesUp,
        GoesDown
  <1>4. CASE LoadDone
    <2>1. GroupForStart \in Groups
      BY DEF GroupForStart, Groups
    <2>2. group' \in Groups
      BY <1>1, <1>4, <2>1 DEF LoadDone
    <2> QED  BY <1>1, <1>4, <2>2 DEF LoadDone, ProviderTypes
  <1>5. CASE Launches
    BY <1>1, <1>5 DEF Launches, ProviderTypes, Provider!ProviderStates
  <1>6. CASE ProviderCrashes \/ ProviderEnds
    BY <1>1, <1>6 DEF ProviderCrashes, ProviderEnds, ProcessGone, ProviderTypes,
        Provider!ProviderStates
  <1>7. CASE ProviderLoopEnds
    BY <1>1, <1>7 DEF ProviderLoopEnds, Provider!LoopEnds, ProviderTypes
  <1>8. ASSUME NEW g \in Groups, NEW s \in Stages, Persists(g, s),
               prov' \in Provider!ProviderStates, perr' \in ErrorCodes \cup {None},
               packetLoopRunning' \in BOOLEAN
        PROVE  ProviderTypes'
    <2>1. group' \in Groups
      BY <1>8, GroupKeys DEF Persists
    <2> QED  BY <1>8, <2>1 DEF ProviderTypes
  <1>9. /\ clearPersistedError(group) \in Groups
        /\ \A g \in Groups : \A b \in BOOLEAN : [g EXCEPT !.started = b] \in Groups
    BY <1>1, GroupKeys
  <1>10. prov \in Provider!ProviderStates /\ packetLoopRunning \in BOOLEAN
    BY <1>1 DEF ProviderTypes
  <1>11. CASE ProviderStarts
    <2>1. CASE Provider!StartRefused /\ Persists(clearPersistedError(group), "active")
      BY <1>1, <1>8, <1>9, <1>10, <2>1, KnownCodes
      DEF Provider!StartRefused, Provider!ProviderStates
    <2>2. CASE /\ Provider!Start
               /\ Persists([clearPersistedError(group) EXCEPT !.started = TRUE], "active")
      BY <1>1, <1>8, <1>9, <1>10, <2>2 DEF Provider!Start, Provider!ProviderStates
    <2> QED  BY <1>11, <2>1, <2>2 DEF ProviderStarts
  <1>12. CASE ProviderStage
    BY <1>1, <1>8, <1>10, <1>12 DEF ProviderStage
  <1>13. CASE ProviderRetries
    BY <1>1, <1>8, <1>10, <1>13, KnownCodes DEF ProviderRetries, Provider!Retry
  <1>14. CASE ProviderUp
    BY <1>1, <1>8, <1>9, <1>10, <1>14 DEF ProviderUp, Provider!Up, Provider!ProviderStates
  <1>15. CASE ProviderFails
    BY <1>1, <1>8, <1>10, <1>15, KnownCodes
    DEF ProviderFails, Provider!Fail, Provider!ProviderStates
  <1>16. CASE ProviderRevives
    BY <1>1, <1>8, <1>9, <1>10, <1>16 DEF ProviderRevives, Provider!Revive
  <1>17. CASE ProviderStops
    BY <1>1, <1>8, <1>9, <1>10, <1>17, KnownCodes
    DEF ProviderStops, Provider!Stop, Provider!ProviderStates
  <1>18. CASE ProviderStopped
    BY <1>1, <1>8, <1>10, <1>18 DEF ProviderStopped, Provider!Stopped, Provider!ProviderStates
  <1> QED
    BY <1>3, <1>4, <1>5, <1>6, <1>7, <1>11, <1>12, <1>13, <1>14, <1>15, <1>16, <1>17, <1>18
    DEF Next, Chain, ProviderEvent, ProviderStopping

\* The observations, the bounded events and the messages not yet answered.
LEMMA SeenKept ==
    ASSUME TypeInv, Next, ProviderTypes'
    PROVE  SeenTypes' /\ EventTypes'
  <1>1. /\ SeenTypes /\ events \in 0 .. MaxEvents /\ asked \in Nat /\ MaxEvents \in Nat
        /\ perr' \in ErrorCodes \cup {None} /\ None \in ErrorCodes \cup {None}
    BY AppAssumption DEF TypeInv, EventTypes, ProviderTypes
  <1>2. Happens => events' \in 0 .. MaxEvents
    BY <1>1 DEF Happens
  <1>3. events' \in 0 .. MaxEvents
    <2>1. UNCHANGED events \/ Happens
      BY DEF Next, TapDisconnect, TapConnect, Chain, SaveDone, LoadDone, WatchdogFires, Inbox,
          StatusDidChange, StatusAnswered, Relaunch, StartElsewhere, Launches, ComesUp,
          GoesDown, ProviderCrashes, AnswersStatus, ProviderEvent, ProviderStarts, ProviderUp,
          ProviderFails, ProviderStage, ProviderRetries, ProviderLoopEnds, ProviderRevives,
          ProviderStopping, ProviderEnds, ProviderStops, ProviderStopped
    <2> QED  BY <1>1, <1>2, <2>1
  <1>4. asked' \in Nat
    <2>1. CASE ProviderActs
      <3>1. UNCHANGED ProviderOnly
        BY <2>1, ProviderAlone
      <3> QED  BY <1>1, <3>1 DEF ProviderOnly
    <2>2. CASE TapDisconnect \/ TapConnect \/ Chain \/ WatchdogFires \/ StatusAnswered
               \/ StartElsewhere \/ Launches \/ ComesUp \/ GoesDown \/ ProviderCrashes
               \/ ProviderEnds \/ ProviderStopped
      BY <1>1, <2>2 DEF TapDisconnect, TapConnect, Chain, SaveDone, LoadDone, WatchdogFires,
          StatusAnswered, StartElsewhere, Launches, ComesUp, GoesDown, ProviderCrashes,
          ProviderEnds, ProviderStopped
    <2>3. CASE StatusDidChange
      BY <1>1, <2>3 DEF StatusDidChange, RefreshTunnelStatus
    <2>4. CASE Relaunch
      BY <2>4 DEF Relaunch
    <2>5. CASE AnswersStatus
      BY <1>1, <2>5 DEF AnswersStatus
    <2> QED
      BY <2>1, <2>2, <2>3, <2>4, <2>5 DEF Next, Inbox, ProviderActs, ProviderStopping
  <1>5. SeenTypes'
    <2>1. ASSUME UNCHANGED obsVars
          PROVE  SeenTypes'
      BY <1>1, <2>1 DEF obsVars, SeenTypes
    <2>2. CASE TapConnect \/ SaveDone \/ WatchdogFires \/ StatusAnswered \/ ComesUp \/ GoesDown
               \/ AnswersStatus \/ ProviderEnds \/ ProviderStopped
      BY <2>1, <2>2 DEF TapConnect, SaveDone, WatchdogFires, StatusAnswered, ComesUp, GoesDown,
          AnswersStatus, ProviderEnds, ProviderStopped
    <2>3. CASE TapDisconnect \/ Relaunch \/ StartElsewhere \/ Launches \/ ProviderCrashes
      BY <1>1, <2>3 DEF TapDisconnect, Relaunch, StartElsewhere, Launches, ProviderCrashes,
          SeenTypes
    <2>4. CASE LoadDone
      <3>1. CASE UNCHANGED obsVars
        BY <2>1, <3>1
      <3>2. CASE /\ outcome' = None /\ dropped' = FALSE /\ UNCHANGED revived
                 /\ overlap' = overlap \cup IF status = "Disconnecting" THEN {"stop"}
                               ELSE IF status # "Disconnected" \/ launch THEN {"start"} ELSE {}
        BY <1>1, <3>2 DEF SeenTypes
      <3> QED  BY <2>4, <3>1, <3>2 DEF LoadDone
    <2>5. CASE StatusDidChange
      BY <2>1, <2>5 DEF StatusDidChange
    <2>6. CASE ProviderActs
      <3>1. UNCHANGED ProviderOnly
        BY <2>6, ProviderAlone
      <3>2. outcome' \in {outcome, perr'} /\ revived' \in {revived, TRUE}
        BY <2>6 DEF ProviderActs, ProviderEvent, ProviderStarts, ProviderUp, ProviderFails, ProviderStage,
            ProviderRetries, ProviderLoopEnds, ProviderRevives, ProviderStops
      <3> QED  BY <1>1, <3>1, <3>2 DEF SeenTypes, ProviderOnly
    <2> QED
      BY <2>2, <2>3, <2>4, <2>5, <2>6 DEF Next, Chain, Inbox, ProviderActs, ProviderStopping
  <1> QED  BY <1>3, <1>4, <1>5 DEF EventTypes

\* The taps and their watchdogs.
LEMMA TapKept ==
    ASSUME TypeInv, Next
    PROVE  TapInv'
  <1>1. /\ TapInv /\ tap \in Taps /\ watchdogs \in Nat /\ MaxTaps \in Nat
        /\ tap.made \in 0 .. MaxTaps /\ tap.saving \in 0 .. MaxTaps
        /\ tap.loading \in 0 .. MaxTaps
        /\ tap.saving + tap.loading + watchdogs <= tap.made
    BY AppAssumption DEF TypeInv, TapInv, Taps
  <1>2. ASSUME UNCHANGED <<tap, watchdogs>>
        PROVE  TapInv'
    BY <1>1, <1>2 DEF TapInv
  <1>4. CASE TapConnect
    <2>1. tap' = [tap EXCEPT !.made = @ + 1, !.saving = @ + 1] /\ UNCHANGED watchdogs
          /\ tap.made < MaxTaps
      BY <1>4 DEF TapConnect
    <2>2. tap.made + 1 \in 0 .. MaxTaps /\ tap.saving + 1 \in 0 .. MaxTaps
          /\ (tap.saving + 1) + tap.loading + watchdogs <= tap.made + 1
      BY <1>1, <2>1
    <2>3. tap'.made = tap.made + 1 /\ tap'.saving = tap.saving + 1
          /\ tap'.loading = tap.loading
      BY <1>1, <2>1 DEF Taps
    <2>4. tap' \in Taps
      BY <1>1, <2>1, <2>2 DEF Taps
    <2> QED  BY <1>1, <2>1, <2>2, <2>3, <2>4 DEF TapInv
  <1>5. CASE SaveDone
    <2>1. /\ tap.saving > 0 /\ UNCHANGED watchdogs
          /\ \/ tap' = [tap EXCEPT !.saving = @ - 1]
             \/ tap' = [tap EXCEPT !.saving = @ - 1, !.loading = @ + 1]
      BY <1>5 DEF SaveDone
    <2>2. /\ tap.saving - 1 \in 0 .. MaxTaps /\ tap.loading + 1 \in 0 .. MaxTaps
          /\ (tap.saving - 1) + tap.loading + watchdogs <= tap.made
          /\ (tap.saving - 1) + (tap.loading + 1) + watchdogs <= tap.made
      BY <1>1, <2>1
    <2>3. CASE tap' = [tap EXCEPT !.saving = @ - 1]
      <3>1. tap'.made = tap.made /\ tap'.saving = tap.saving - 1 /\ tap'.loading = tap.loading
        BY <1>1, <2>3 DEF Taps
      <3>2. tap' \in Taps
        BY <1>1, <2>2, <2>3 DEF Taps
      <3> QED  BY <1>1, <2>1, <2>2, <3>1, <3>2 DEF TapInv
    <2>4. CASE tap' = [tap EXCEPT !.saving = @ - 1, !.loading = @ + 1]
      <3>1. /\ tap'.made = tap.made /\ tap'.saving = tap.saving - 1
            /\ tap'.loading = tap.loading + 1
        BY <1>1, <2>4 DEF Taps
      <3>2. tap' \in Taps
        BY <1>1, <2>2, <2>4 DEF Taps
      <3> QED  BY <1>1, <2>1, <2>2, <3>1, <3>2 DEF TapInv
    <2> QED  BY <2>1, <2>3, <2>4
  <1>6. CASE LoadDone
    <2>1. /\ tap.loading > 0 /\ tap' = [tap EXCEPT !.loading = @ - 1]
          /\ watchdogs' = watchdogs \/ watchdogs' = watchdogs + 1
      BY <1>6 DEF LoadDone, scheduleStartWatchdog
    <2>2. tap'.made = tap.made /\ tap'.saving = tap.saving /\ tap'.loading = tap.loading - 1
      BY <1>1, <2>1 DEF Taps
    <2>3. tap.loading - 1 \in 0 .. MaxTaps
      BY <1>1, <2>1
    <2>4. tap' \in Taps
      BY <1>1, <2>1, <2>3 DEF Taps
    <2>5. watchdogs' \in Nat /\ tap.saving + (tap.loading - 1) + watchdogs' <= tap.made
      BY <1>1, <2>1
    <2> QED  BY <2>2, <2>4, <2>5 DEF TapInv
  <1>7. CASE WatchdogFires
    <2>1. watchdogs > 0 /\ watchdogs' = watchdogs - 1 /\ UNCHANGED tap
      BY <1>7 DEF WatchdogFires
    <2>2. watchdogs' \in Nat /\ tap.saving + tap.loading + watchdogs' <= tap.made
      BY <1>1, <2>1
    <2> QED  BY <1>1, <2>1, <2>2 DEF TapInv
  <1>8. CASE Relaunch
    <2>1. tap' = [tap EXCEPT !.saving = 0, !.loading = 0] /\ watchdogs' = 0
      BY <1>8 DEF Relaunch
    <2>2. tap'.made = tap.made /\ tap'.saving = 0 /\ tap'.loading = 0
      BY <1>1, <2>1 DEF Taps
    <2>3. 0 \in 0 .. MaxTaps
      BY <1>1
    <2>4. tap' \in Taps
      BY <1>1, <2>1, <2>3 DEF Taps
    <2>5. 0 \in Nat /\ 0 + 0 + 0 <= tap.made
      BY <1>1
    <2> QED  BY <2>1, <2>2, <2>4, <2>5 DEF TapInv
  <1>9. CASE ProviderActs
    <2>1. UNCHANGED ProviderOnly
      BY <1>9, ProviderAlone
    <2> QED  BY <1>2, <2>1 DEF ProviderOnly
  <1>10. CASE TapDisconnect \/ Inbox \/ StartElsewhere \/ Launches \/ ComesUp \/ GoesDown
              \/ ProviderCrashes \/ AnswersStatus \/ ProviderEnds \/ ProviderStopped
    BY <1>2, <1>10 DEF TapDisconnect, Inbox, StatusDidChange, StatusAnswered, StartElsewhere,
        Launches, ComesUp, GoesDown, ProviderCrashes, AnswersStatus, ProviderEnds,
        ProviderStopped
  <1> QED
    BY <1>4, <1>5, <1>6, <1>7, <1>8, <1>9, <1>10 DEF Next, Chain, ProviderActs, ProviderStopping

\* The app before its first callback.
LEMMA InitTypes == Init => TypeInv
  <1> SUFFICES ASSUME Init
               PROVE  TypeInv
    OBVIOUS
  <1>1. MaxTaps \in Nat /\ MaxEvents \in Nat /\ None \in ErrorCodes \cup {None}
    BY AppAssumption
  <1>2. tap \in Taps /\ tap.made = 0 /\ tap.saving = 0 /\ tap.loading = 0
    BY <1>1 DEF Init, Taps
  <1>3. TapInv
    BY <1>2 DEF Init, TapInv
  <1>4. InboxTypes
    BY DEF Init, InboxTypes
  <1>5. group \in Groups
    BY <1>1 DEF Init, Groups
  <1>6. EventTypes
    BY <1>1 DEF Init, EventTypes
  <1> QED
    BY <1>1, <1>3, <1>4, <1>5, <1>6
    DEF Init, TypeInv, AppTypes, FrameworkTypes, ProviderTypes, SeenTypes, NEVPNStatus,
        Provider!ProviderStates

\* Every step keeps the types.
LEMMA TypeKept ==
    ASSUME TypeInv, [Next]_vars
    PROVE  TypeInv'
  <1>1. CASE Next
    BY <1>1, AppKept, InboxKept, FrameworkKept, ProviderKept, SeenKept, TapKept DEF TypeInv
  <1>2. CASE UNCHANGED vars
    BY <1>2
    DEF vars, appVars, fwVars, provVars, obsVars, TypeInv, AppTypes, InboxTypes,
        FrameworkTypes, ProviderTypes, SeenTypes, EventTypes, TapInv
  <1> QED  BY <1>1, <1>2

\* The properties of VPNManager, its queues and the App Group's keys keep their
\* types, and no more watchdogs wait than connections were asked for.
THEOREM TypeCorrect == Spec => []TypeOK
  <1>1. TypeInv /\ [Next]_vars => TypeInv'
    BY TypeKept
  <1> QED  BY <1>1, InitTypes, TypeParts, PTL DEF Spec

-----------------------------------------------------------------------------
(* How a tunnel ended, and a start that was dropped.                       *)

\* While the framework's status is Disconnected there is no provider, and the
\* notification of it comes after all that the provider has answered.
DownInv ==
    /\ status = "Disconnected" => prov = "gone" /\ Followed(inbox)
    /\ launch => status = "Disconnected" /\ outcome = None
    /\ dropped => status = "Disconnected" /\ ~launch

\* A request to connect that has no tunnel has a watchdog that will give it up,
\* or a notification that will.
RequestInv ==
    status = "Disconnected" /\ connectRequested =>
        \/ HasNote(inbox)
        \/ /\ startWatchdogScheduled /\ watchdogs > 0
           /\ ~group.started /\ outcome = None

\* How a tunnel ended is kept in the App Group, by a provider that would write
\* it again, until the app has read it.
Clean == overlap = {} /\ ~revived /\ outcome # None
OutcomeInv ==
    Clean =>
        /\ prov \in {"failed", "stopping", "gone"}
        /\ group.code = outcome
        /\ prov # "gone" => perr = outcome
        /\ status = "Disconnected" => HasNote(inbox) \/ lastErrorCode = outcome

AppInv == TypeInv /\ DownInv /\ RequestInv /\ OutcomeInv

\* What the provider's process does it does while the status is not Disconnected.
LEMMA ProviderThere ==
    ASSUME AppInv, ProviderActs
    PROVE  prov # "gone" /\ status # "Disconnected"
  <1>1. prov # "gone"
    BY DEF ProviderActs, ProviderEvent, ProviderStarts, ProviderUp, ProviderFails,
        ProviderStage, ProviderRetries, ProviderLoopEnds, ProviderRevives, ProviderStops,
        Provider!StartRefused, Provider!Start, Provider!Retry, Provider!Fail,
        Provider!LoopEnds, Provider!Up, Provider!Revive, Provider!Stop, Provider!HasSession
  <1> QED  BY <1>1 DEF AppInv, DownInv

\* Every step keeps what a tunnel that is down implies.
LEMMA DownKept ==
    ASSUME AppInv, Next
    PROVE  DownInv'
  <1>1. DownInv /\ inbox \in Seq(Items)
    BY DEF AppInv, TypeInv, InboxTypes
  <1>2. /\ StatusNote \in Items /\ NoAnswer \in Items /\ NoAnswer.k # "answer"
    BY DEF Items, NoAnswer
  <1>3. CASE TapConnect \/ SaveDone \/ WatchdogFires
    BY <1>1, <1>3 DEF DownInv, TapConnect, SaveDone, WatchdogFires, fwVars, provVars, obsVars
  <1>4. CASE TapDisconnect
    <2>1. status # "Disconnected" /\ status' # "Disconnected" /\ UNCHANGED launch /\ ~dropped'
      BY <1>4 DEF TapDisconnect, isConnecting, isConnected
    <2> QED  BY <1>1, <2>1 DEF DownInv
  <1>5. CASE LoadDone
    <2>1. UNCHANGED <<status, prov, inbox>>
      BY <1>5 DEF LoadDone
    <2>2. CASE UNCHANGED <<launch, obsVars>>
      BY <1>1, <2>1, <2>2 DEF DownInv, obsVars
    <2>3. CASE /\ outcome' = None /\ ~dropped'
               /\ launch' \in {launch, launch \/ status = "Disconnected"}
      BY <1>1, <2>1, <2>3 DEF DownInv
    <2> QED  BY <1>5, <2>2, <2>3 DEF LoadDone
  <1>6. CASE StatusDidChange \/ StatusAnswered
    <2>1. UNCHANGED <<status, prov, launch, outcome, dropped>>
          /\ inbox # << >> /\ inbox' = Tail(inbox)
      BY <1>6 DEF StatusDidChange, StatusAnswered, fwVars, provVars, obsVars
    <2>2. Followed(inbox) => Followed(inbox')
      BY <1>1, <2>1, BoxTail
    <2> QED  BY <1>1, <2>1, <2>2 DEF DownInv
  <1>7. CASE Relaunch
    <2>1. UNCHANGED <<status, prov, launch>> /\ outcome' = None /\ ~dropped' /\ inbox' = << >>
      BY <1>7 DEF Relaunch, fwVars, provVars
    <2>2. Followed(inbox')
      BY <2>1 DEF Followed
    <2> QED  BY <1>1, <2>1, <2>2 DEF DownInv
  <1>8. CASE StartElsewhere
    BY <1>1, <1>8 DEF DownInv, StartElsewhere, provVars
  <1>9. CASE Launches
    <2>1. launch /\ ~launch' /\ status = "Disconnected" /\ ~dropped
      BY <1>1, <1>9 DEF Launches, DownInv
    <2>2. CASE StatusGoes("Connecting") /\ UNCHANGED dropped
      BY <1>1, <2>1, <2>2 DEF StatusGoes, DownInv
    <2>3. CASE UNCHANGED <<status, inbox, prov>>
      BY <1>1, <2>1, <2>3 DEF DownInv
    <2> QED  BY <1>9, <2>2, <2>3 DEF Launches
  <1>10. CASE ComesUp \/ GoesDown
    <2>1. status # "Disconnected" /\ status' # "Disconnected" /\ UNCHANGED <<launch, dropped>>
      BY <1>10 DEF ComesUp, GoesDown, StatusGoes, obsVars
    <2> QED  BY <1>1, <2>1 DEF DownInv
  <1>11. CASE ProviderCrashes \/ ProviderEnds \/ ProviderStopped
    <2>1. /\ prov # "gone" /\ status' = "Disconnected" /\ prov' = "gone"
          /\ inbox' = Append(inbox, StatusNote) /\ UNCHANGED <<launch, dropped>>
      BY <1>11 DEF ProviderCrashes, ProviderEnds, ProviderStopped, ProviderRuns, StatusGoes,
          ProcessGone, obsVars, Provider!Stopped
    <2>2. Followed(inbox')
      BY <1>1, <1>2, <2>1, BoxAppend
    <2> QED  BY <1>1, <2>1, <2>2 DEF DownInv
  <1>12. CASE AnswersStatus
    <2>1. UNCHANGED <<status, prov, launch, outcome, dropped>>
      BY <1>12 DEF AnswersStatus, fwVars, provVars, obsVars
    <2>2. status = "Disconnected" => inbox' = Append(inbox, NoAnswer)
      BY <1>1, <1>12 DEF AnswersStatus, ProviderRuns, DownInv
    <2>3. status = "Disconnected" => Followed(inbox')
      BY <1>1, <1>2, <2>2, BoxAppend DEF DownInv
    <2> QED  BY <1>1, <2>1, <2>3 DEF DownInv
  <1>13. CASE ProviderActs
    <2>1. status # "Disconnected" /\ UNCHANGED <<status, launch, dropped>>
      BY <1>13, ProviderThere, ProviderAlone DEF ProviderOnly, fwVars
    <2> QED  BY <1>1, <2>1 DEF DownInv
  <1> QED
    BY <1>3, <1>4, <1>5, <1>6, <1>7, <1>8, <1>9, <1>10, <1>11, <1>12, <1>13
    DEF Next, Chain, Inbox, ProviderActs, ProviderStopping

\* Every step keeps a request from being forgotten.
LEMMA RequestInvKept ==
    ASSUME AppInv, Next
    PROVE  RequestInv'
  <1>1. DownInv /\ RequestInv /\ inbox \in Seq(Items)
    BY DEF AppInv, TypeInv, InboxTypes
  <1>2. /\ StatusNote \in Items /\ NoAnswer \in Items
    BY DEF Items
  <1>3. CASE TapConnect \/ SaveDone
    BY <1>1, <1>3 DEF RequestInv, TapConnect, SaveDone, appVars, fwVars, provVars, obsVars
  <1>4. CASE TapDisconnect \/ ComesUp \/ GoesDown
    BY <1>4 DEF TapDisconnect, ComesUp, GoesDown, StatusGoes, RequestInv
  <1>5. CASE LoadDone
    <2>1. UNCHANGED <<status, inbox>>
      BY <1>5 DEF LoadDone
    <2>2. CASE UNCHANGED <<appVars, watchdogs, group, obsVars>>
      BY <1>1, <2>1, <2>2 DEF RequestInv, appVars, obsVars
    <2>3. CASE ~connectRequested'
      BY <2>3 DEF RequestInv
    <2>4. CASE group' = GroupForStart /\ outcome' = None /\ scheduleStartWatchdog
      <3>1. watchdogs' > 0
        BY <2>4 DEF scheduleStartWatchdog, AppInv, TypeInv, TapInv
      <3>2. ~group'.started /\ startWatchdogScheduled'
        BY <2>4 DEF GroupForStart, scheduleStartWatchdog
      <3> QED  BY <2>4, <3>1, <3>2 DEF RequestInv
    <2> QED  BY <1>5, <2>2, <2>3, <2>4 DEF LoadDone
  <1>6. CASE WatchdogFires
    <2>1. UNCHANGED <<status, inbox, group, outcome>>
      BY <1>6 DEF WatchdogFires, fwVars, provVars, obsVars
    <2>2. CASE UNCHANGED appVars /\ (~startWatchdogScheduled \/ ~connectRequested)
      BY <1>1, <2>1, <2>2 DEF RequestInv, appVars
    <2>3. CASE startWatchdogScheduled /\ connectRequested /\ status = "Disconnected"
      <3>1. ~isConnecting /\ ~isConnected
        BY <2>3 DEF isConnecting, isConnected
      <3>2. CASE ExtensionActive
        <4>1. group.started /\ UNCHANGED connectRequested
          BY <1>6, <2>3, <3>1, <3>2 DEF WatchdogFires, ExtensionActive
        <4> QED  BY <1>1, <2>1, <2>3, <4>1 DEF RequestInv
      <3>3. CASE ~ExtensionActive
        <4>1. connectRequested' = FALSE
          BY <1>6, <2>3, <3>1, <3>3 DEF WatchdogFires
        <4> QED  BY <4>1 DEF RequestInv
      <3> QED  BY <3>2, <3>3
    <2>4. CASE status # "Disconnected"
      BY <2>1, <2>4 DEF RequestInv
    <2> QED  BY <1>6, <2>2, <2>3, <2>4 DEF WatchdogFires
  <1>7. CASE StatusDidChange
    <2>1. UNCHANGED status /\ (status = "Disconnected" => connectRequested' = FALSE)
      BY <1>7 DEF StatusDidChange, fwVars, RequestWhenDown
    <2> QED  BY <2>1 DEF RequestInv
  <1>8. CASE StatusAnswered
    <2>1. /\ UNCHANGED <<status, connectRequested, startWatchdogScheduled, watchdogs, group,
                         outcome>>
          /\ inbox # << >> /\ inbox' = Tail(inbox) /\ Head(inbox) # StatusNote
      BY <1>8 DEF StatusAnswered, fwVars, provVars, obsVars
    <2>2. HasNote(inbox) => HasNote(inbox')
      BY <1>1, <2>1, BoxTail
    <2> QED  BY <1>1, <2>1, <2>2 DEF RequestInv
  <1>9. CASE Relaunch
    BY <1>9 DEF Relaunch, RequestInv
  <1>10. CASE StartElsewhere
    <2>1. /\ UNCHANGED <<status, inbox, connectRequested, startWatchdogScheduled, watchdogs,
                         group>>
          /\ outcome' = None
      BY <1>10 DEF StartElsewhere, appVars, provVars
    <2> QED  BY <1>1, <2>1 DEF RequestInv
  <1>11. CASE Launches
    <2>1. CASE StatusGoes("Connecting")
      BY <2>1 DEF StatusGoes, RequestInv
    <2>2. CASE UNCHANGED <<status, inbox>>
      <3>1. UNCHANGED <<connectRequested, startWatchdogScheduled, watchdogs, group, outcome>>
        BY <1>11 DEF Launches, appVars
      <3> QED  BY <1>1, <2>2, <3>1 DEF RequestInv
    <2> QED  BY <1>11, <2>1, <2>2 DEF Launches
  <1>12. CASE ProviderCrashes \/ ProviderEnds \/ ProviderStopped
    <2>1. inbox' = Append(inbox, StatusNote)
      BY <1>12 DEF ProviderCrashes, ProviderEnds, ProviderStopped, StatusGoes
    <2>2. HasNote(inbox')
      BY <1>1, <1>2, <2>1, BoxAppend
    <2> QED  BY <2>2 DEF RequestInv
  <1>13. CASE AnswersStatus
    <2>1. UNCHANGED <<status, connectRequested, startWatchdogScheduled, watchdogs, group,
                      outcome>>
      BY <1>13 DEF AnswersStatus, appVars, fwVars, provVars, obsVars
    <2>2. status = "Disconnected" => inbox' = Append(inbox, NoAnswer)
      BY <1>1, <1>13 DEF AnswersStatus, ProviderRuns, DownInv
    <2>3. status = "Disconnected" /\ HasNote(inbox) => HasNote(inbox')
      BY <1>1, <1>2, <2>2, BoxAppend
    <2> QED  BY <1>1, <2>1, <2>3 DEF RequestInv
  <1>14. CASE ProviderActs
    <2>1. status # "Disconnected" /\ UNCHANGED status
      BY <1>14, ProviderThere, ProviderAlone DEF ProviderOnly, fwVars
    <2> QED  BY <2>1 DEF RequestInv
  <1> QED
    BY <1>3, <1>4, <1>5, <1>6, <1>7, <1>8, <1>9, <1>10, <1>11, <1>12, <1>13, <1>14
    DEF Next, Chain, Inbox, ProviderActs, ProviderStopping

\* The provider's own steps: what it reports is what it persists.
LEMMA ProviderOutcome ==
    ASSUME AppInv, ProviderActs
    PROVE  OutcomeInv'
  <1>1. OutcomeInv /\ group \in Groups /\ perr \in ErrorCodes \cup {None}
    BY DEF AppInv, TypeInv, ProviderTypes
  <1>2. status' # "Disconnected" /\ UNCHANGED overlap
    BY ProviderThere, ProviderAlone DEF ProviderOnly, fwVars
  <1>3. "active" \in Stages /\ "idle" \in Stages
    BY DEF Stages
  \* The provider remembers its last error and writes it.
  <1>4. ASSUME NEW g \in Groups, NEW c \in ErrorCodes, Persists(g, "active"), perr' = c,
               Clean' => outcome' = c, prov' \in {"failed", "stopping"}
        PROVE  OutcomeInv'
    <2>1. group'.code = c
      BY <1>3, <1>4, GroupKeys, KnownCodes DEF Persists
    <2> QED  BY <1>2, <1>4, <2>1 DEF OutcomeInv
  <1>5. ASSUME ~Clean'
        PROVE  OutcomeInv'
    BY <1>5 DEF OutcomeInv
  <1>6. \A b \in BOOLEAN : [group EXCEPT !.started = b] \in Groups
    BY <1>1, <1>3, GroupKeys
  <1>7. clearPersistedError(group) \in Groups
    BY <1>1, <1>3, GroupKeys
  <1>8. ASSUME Provider!HasSession, UNCHANGED <<revived, outcome>>
        PROVE  ~Clean'
    BY <1>1, <1>2, <1>8 DEF Clean, OutcomeInv, Provider!HasSession
  <1>9. CASE ProviderStarts
    <2>1. CASE Provider!StartRefused /\ Persists(clearPersistedError(group), "active")
      <3>1. perr' = "missing_credentials" /\ prov' = "failed" /\ outcome' = perr'
        BY <1>9, <2>1 DEF ProviderStarts, Provider!StartRefused
      <3> QED  BY <1>4, <1>7, <2>1, <3>1, KnownCodes
    <2>2. CASE Provider!Start
      <3>1. outcome' = None
        BY <1>9, <2>2 DEF ProviderStarts, Provider!Start
      <3> QED  BY <1>5, <3>1 DEF Clean
    <2> QED  BY <1>9, <2>1, <2>2 DEF ProviderStarts
  <1>10. CASE ProviderUp \/ ProviderRetries
    <2>1. Provider!HasSession /\ UNCHANGED <<revived, outcome>>
      BY <1>10 DEF ProviderUp, ProviderRetries, Provider!Up, Provider!Retry
    <2> QED  BY <1>5, <1>8, <2>1
  <1>11. CASE ProviderFails
    <2>1. PICK c \in Codes : Provider!Fail(c)
      BY <1>11 DEF ProviderFails
    <2>2. perr' = c /\ prov' = "failed" /\ outcome' = c /\ Persists(group, "active")
      BY <1>11, <2>1 DEF ProviderFails, Provider!Fail
    <2> QED  BY <1>1, <1>4, <2>2, KnownCodes
  <1>12. CASE ProviderStage
    <2>1. /\ UNCHANGED <<prov, perr, outcome, revived>> /\ Persists(group, "active")
          /\ prov \in {"starting", "up", "failed"}
      BY <1>12 DEF ProviderStage
    <2>2. CASE Clean'
      <3>1. Clean
        BY <1>2, <2>1, <2>2 DEF Clean
      <3>2. prov = "failed" /\ perr = outcome /\ perr # None
        BY <1>1, <2>1, <3>1 DEF OutcomeInv, Clean
      <3>3. perr \in ErrorCodes
        BY <1>1, <3>2
      <3> QED  BY <1>1, <1>4, <2>1, <3>2, <3>3
    <2> QED  BY <1>5, <2>2
  <1>13. CASE ProviderLoopEnds
    <2>1. UNCHANGED <<prov, perr, group, outcome, revived>>
      BY <1>13 DEF ProviderLoopEnds, Provider!LoopEnds
    <2> QED  BY <1>1, <1>2, <2>1 DEF OutcomeInv, Clean
  <1>14. CASE ProviderRevives
    <2>1. revived'
      BY <1>14 DEF ProviderRevives
    <2> QED  BY <1>5, <2>1 DEF Clean
  <1>15. CASE ProviderStops
    <2> DEFINE g == [group EXCEPT !.started = FALSE]
    <2>1. /\ Provider!Stop(stopReason = "user") /\ Persists(g, "active")
          /\ outcome' = IF stopReason = "user" THEN perr' ELSE outcome
          /\ UNCHANGED revived
      BY <1>15 DEF ProviderStops
    <2>2. g \in Groups
      BY <1>6
    <2> HIDE DEF g
    <2>3. /\ prov' = "stopping" /\ (Provider!HasSession \/ prov = "failed")
          /\ perr' = IF stopReason = "user" THEN "cancelled" ELSE perr
      BY <2>1 DEF Provider!Stop
    <2>4. CASE stopReason = "user"
      BY <1>4, <2>1, <2>2, <2>3, <2>4, KnownCodes
    <2>5. CASE stopReason # "user" /\ Clean'
      <3>1. UNCHANGED <<revived, outcome, perr>>
        BY <2>1, <2>3, <2>5
      <3>2. Clean /\ prov = "failed"
        BY <1>2, <1>8, <2>3, <2>5, <3>1 DEF Clean
      <3>3. perr = outcome /\ perr # None
        BY <1>1, <3>2 DEF OutcomeInv, Clean
      <3>4. perr \in ErrorCodes
        BY <1>1, <3>3
      <3> QED  BY <1>4, <2>1, <2>2, <2>3, <3>1, <3>3, <3>4
    <2> QED  BY <1>5, <2>4, <2>5
  <1> QED
    BY <1>9, <1>10, <1>11, <1>12, <1>13, <1>14, <1>15 DEF ProviderActs, ProviderEvent

\* Every step keeps how the tunnel ended where the app will find it.
LEMMA OutcomeKept ==
    ASSUME AppInv, Next
    PROVE  OutcomeInv'
  <1>1. /\ DownInv /\ RequestInv /\ OutcomeInv /\ inbox \in Seq(Items) /\ group \in Groups
        /\ lastErrorCode \in ErrorCodes \cup {None} /\ perr \in ErrorCodes \cup {None}
    BY DEF AppInv, TypeInv, InboxTypes, ProviderTypes, AppTypes
  <1>2. /\ StatusNote \in Items /\ NoAnswer \in Items /\ "idle" \in Stages
    BY DEF Items, Stages
  <1>3. \A c \in ErrorCodes \cup {None} :
            /\ PersistedCode(c) \in ErrorCodes \cup {None}
            /\ group.code # None => PersistedCode(c) = group.code
    BY <1>1, Persisted
  <1>4. ASSUME outcome' = None
        PROVE  OutcomeInv'
    BY <1>4 DEF OutcomeInv, Clean
  <1>5. CASE TapConnect \/ SaveDone
    BY <1>1, <1>5 DEF OutcomeInv, Clean, TapConnect, SaveDone, appVars, fwVars, provVars,
        obsVars
  <1>6. CASE TapDisconnect \/ ComesUp \/ GoesDown
    <2>1. status' # "Disconnected" /\ UNCHANGED <<prov, perr, group, outcome, overlap, revived>>
      BY <1>6 DEF TapDisconnect, ComesUp, GoesDown, StatusGoes, provVars, obsVars
    <2> QED  BY <1>1, <2>1 DEF OutcomeInv, Clean
  <1>7. CASE LoadDone
    <2>1. CASE outcome' = None
      BY <1>4, <2>1
    <2>2. CASE UNCHANGED <<appVars, group, obsVars>>
      <3>1. UNCHANGED <<status, inbox, prov, perr, lastErrorCode, group, outcome, overlap,
                        revived>>
        BY <1>7, <2>2 DEF LoadDone, appVars, obsVars
      <3> QED  BY <1>1, <3>1 DEF OutcomeInv, Clean
    <2> QED  BY <1>7, <2>1, <2>2 DEF LoadDone
  <1>8. CASE WatchdogFires
    <2>1. UNCHANGED <<status, inbox, prov, perr, group, outcome, overlap, revived>>
      BY <1>8 DEF WatchdogFires, fwVars, provVars, obsVars
    <2>2. ASSUME Clean, status = "Disconnected", ~HasNote(inbox)
          PROVE  lastErrorCode' = outcome
      <3>1. ~connectRequested
        BY <1>1, <2>2 DEF RequestInv, Clean
      <3>2. UNCHANGED lastErrorCode
        BY <1>8, <3>1 DEF WatchdogFires, appVars
      <3> QED  BY <1>1, <2>2, <3>2 DEF OutcomeInv
    <2> QED  BY <1>1, <2>1, <2>2 DEF OutcomeInv, Clean
  <1>9. CASE StatusDidChange
    <2>1. UNCHANGED <<status, prov, perr, group, outcome, overlap, revived>>
      BY <1>9 DEF StatusDidChange, fwVars, provVars, obsVars
    <2>2. ASSUME Clean, status = "Disconnected"
          PROVE  lastErrorCode' = outcome
      <3>1. RefreshTunnelStatus(DownCode)
        BY <1>9, <2>2 DEF StatusDidChange
      <3>2. lastErrorCode' = PersistedCode(DownCode) /\ DownCode \in ErrorCodes \cup {None}
        BY <1>1, <1>3, <2>2, <3>1 DEF RefreshTunnelStatus, DownCode
      <3> QED  BY <1>1, <1>3, <2>2, <3>2 DEF OutcomeInv, Clean
    <2> QED  BY <1>1, <2>1, <2>2 DEF OutcomeInv, Clean
  <1>10. CASE StatusAnswered
    <2>1. /\ UNCHANGED <<status, prov, perr, group, outcome, overlap, revived>>
          /\ inbox # << >> /\ inbox' = Tail(inbox) /\ Head(inbox) # StatusNote
      BY <1>10 DEF StatusAnswered, fwVars, provVars, obsVars
    <2>2. /\ HasNote(inbox) => HasNote(inbox')
          /\ Followed(inbox) /\ Head(inbox).k = "answer" => HasNote(inbox')
          /\ Head(inbox) \in Items
      BY <1>1, <2>1, BoxTail
    <2>3. ASSUME Clean, status = "Disconnected", ~HasNote(inbox')
          PROVE  lastErrorCode' = outcome
      <3>1. Followed(inbox)
        BY <1>1, <2>3 DEF DownInv
      <3>2. Head(inbox).k = "nil"
        BY <2>1, <2>2, <2>3, <3>1 DEF Items, NoAnswer, Payloads
      <3>3. lastErrorCode' = PersistedCode(lastErrorCode)
        BY <1>10, <3>2 DEF StatusAnswered
      <3> QED  BY <1>1, <1>3, <2>3, <3>3 DEF OutcomeInv, Clean
    <2> QED  BY <1>1, <2>1, <2>3 DEF OutcomeInv, Clean
  <1>11. CASE Relaunch \/ StartElsewhere \/ ProviderCrashes
    BY <1>4, <1>11 DEF Relaunch, StartElsewhere, ProviderCrashes
  <1>12. CASE Launches
    BY <1>1, <1>4, <1>12 DEF Launches, DownInv
  <1>13. ASSUME inbox' = Append(inbox, StatusNote)
         PROVE  HasNote(inbox')
    BY <1>1, <1>2, <1>13, BoxAppend
  <1>14. CASE ProviderEnds
    <2>1. /\ prov' = "gone" /\ UNCHANGED <<group, outcome, overlap, revived>>
          /\ inbox' = Append(inbox, StatusNote)
      BY <1>14 DEF ProviderEnds, ProcessGone, StatusGoes, obsVars
    <2> QED  BY <1>1, <1>13, <2>1 DEF OutcomeInv, Clean
  <1>15. CASE ProviderStopped
    <2>1. /\ prov = "stopping" /\ prov' = "gone"
          /\ UNCHANGED <<perr, outcome, overlap, revived>>
          /\ inbox' = Append(inbox, StatusNote) /\ Persists(group, "idle")
      BY <1>15 DEF ProviderStopped, Provider!Stopped, StatusGoes, obsVars
    <2>2. ASSUME Clean
          PROVE  group'.code = outcome
      <3>1. perr = outcome /\ perr # None
        BY <1>1, <2>1, <2>2 DEF OutcomeInv, Clean
      <3>2. group' = persistStatus(group, "idle", perr)
        BY <2>1 DEF Persists
      <3> QED  BY <1>1, <1>2, <3>1, <3>2, GroupKeys
    <2> QED  BY <1>13, <2>1, <2>2 DEF OutcomeInv, Clean
  <1>16. CASE AnswersStatus
    <2>1. UNCHANGED <<status, prov, perr, group, outcome, overlap, revived, lastErrorCode>>
      BY <1>16 DEF AnswersStatus, appVars, fwVars, provVars, obsVars
    <2>2. status = "Disconnected" => inbox' = Append(inbox, NoAnswer)
      BY <1>1, <1>16 DEF AnswersStatus, ProviderRuns, DownInv
    <2>3. status = "Disconnected" /\ HasNote(inbox) => HasNote(inbox')
      BY <1>1, <1>2, <2>2, BoxAppend
    <2> QED  BY <1>1, <2>1, <2>3 DEF OutcomeInv, Clean
  <1>17. CASE ProviderActs
    BY <1>17, ProviderOutcome
  <1> QED
    BY <1>5, <1>6, <1>7, <1>8, <1>9, <1>10, <1>11, <1>12, <1>14, <1>15, <1>16, <1>17
    DEF Next, Chain, Inbox, ProviderActs, ProviderStopping

\* The app before its first callback.
LEMMA InitApp == Init => AppInv
  <1> SUFFICES ASSUME Init
               PROVE  AppInv
    OBVIOUS
  <1>1. /\ inbox = << >> /\ launch = FALSE /\ dropped = FALSE /\ connectRequested = FALSE
        /\ outcome = None /\ prov = "gone"
    BY DEF Init
  <1>2. Followed(inbox)
    BY <1>1 DEF Followed
  <1> QED  BY <1>1, <1>2, InitTypes DEF AppInv, DownInv, RequestInv, OutcomeInv, Clean

\* Every step keeps the invariant.
LEMMA AppInvKept ==
    ASSUME AppInv, [Next]_vars
    PROVE  AppInv'
  <1>1. TypeInv'
    BY TypeKept DEF AppInv
  <1>2. CASE Next
    BY <1>1, <1>2, DownKept, RequestInvKept, OutcomeKept DEF AppInv
  <1>3. CASE UNCHANGED vars
    BY <1>1, <1>3
    DEF AppInv, DownInv, RequestInv, OutcomeInv, Clean, vars, appVars, fwVars, provVars, obsVars
  <1> QED  BY <1>2, <1>3

\* The invariant holds throughout.
LEMMA AppInvariant == Spec => []AppInv
  <1>1. AppInv /\ [Next]_vars => AppInv'
    BY AppInvKept
  <1> QED  BY <1>1, InitApp, PTL DEF Spec

\* When vpnStatusDidChange and the answers to get_status are all handled, the
\* app shows the code the provider's last failure or stop left in the App Group,
\* whatever the order in which notifications, answers and watchdogs came.
THEOREM EndShown == Spec => []ResultShown
  <1>1. ASSUME AppInv
        PROVE  ResultShown
    <2> SUFFICES ASSUME status = "Disconnected", inbox = << >>, overlap = {},
                        ~revived, outcome # None
                 PROVE  lastErrorCode = outcome
      BY DEF ResultShown
    <2>1. ~HasNote(inbox)
      BY DEF HasNote
    <2> QED  BY <1>1, <2>1 DEF AppInv, OutcomeInv, Clean
  <1> QED  BY <1>1, AppInvariant, PTL

\* A start that startVPNTunnel accepted and the framework dropped does not leave
\* connectRequested set for good: scheduleStartWatchdogFromStatus's block will
\* act, or a notification is on its way that gives the request up.
THEOREM DropIsReported == Spec => []DropReported
  <1>1. ASSUME AppInv
        PROVE  DropReported
    <2>1. dropped /\ connectRequested =>
              HasNote(inbox) \/ (startWatchdogScheduled /\ watchdogs > 0)
      BY <1>1 DEF AppInv, DownInv, RequestInv
    <2> QED  BY <2>1 DEF DropReported, HasNote
  <1> QED  BY <1>1, AppInvariant, PTL

=============================================================================
