---------------------------- MODULE AudioSession ----------------------------
(***************************************************************************)
(* The session service of the audio policy server with its timers: an      *)
(* application activates a session and starts and stops streams in it; a   *)
(* session left without streams is ended by a timer of                     *)
(* PolicyStateMonitor.  The calls of AudioInterruptService and of the      *)
(* listener for application states hold sessionServiceMutex_; the timers'  *)
(* own threads come in between them, and in the middle of them where they  *)
(* take other locks only.  The volume manager uses the same monitor.       *)
(*                                                                         *)
(* A session is v2 once its scene is set; a v1 session is timed whenever   *)
(* it is empty, a v2 session while its application is in the background    *)
(* besides.  What a session does to focus and devices is left out.         *)
(***************************************************************************)
EXTENDS PolicyStateMonitor

CONSTANTS
    Pids,      \* applications
    Streams,   \* an application's streams
    Volume,    \* the volume manager as an owner of a timer
    MaxCalls   \* bound: calls and changes of application state

ASSUME SessionAssumption ==
    /\ Pids # {} /\ Volume \notin Pids /\ Owners = Pids \cup {Volume}
    /\ MaxCalls \in Nat

VARIABLES
    state,       \* a session's state_; "none" without an entry in sessionMap_
    scene,       \* has its audioSessionScene_ been set?
    streams,     \* streamsInSession_
    pidCbIdMap,  \* pidCbIdMap_; Invalid without an entry
    background,  \* what the application manager says of the application
    spc,         \* where the call is that holds sessionServiceMutex_
    spid,        \* the application it is about
    sid,         \* the id it has
    thenStart,   \* may StartMonitor follow StopMonitor in it?
    fired,       \* callback threads before OnAudioSessionTimeOut, per application
    removing,    \* callback threads before RemoveFromMonitorMap
    forced,      \* needForceControlVolumeType_
    vpc,         \* where ForceVolumeKeyControlType is
    vid,         \* cbId_ of ForceControlVolumeTypeMonitor
    vnew,        \* the id it has been given
    vfired,      \* callback threads before its OnTimeOut
    vexpiring,   \* callback threads before OnTimerExpired
    calls,       \* number of calls made
    overlap      \* has a call been made while a callback was under way?

sessionVars == <<state, scene, streams, pidCbIdMap, background>>
callVars == <<spc, spid, sid, thenStart>>
callbackVars == <<fired, removing>>
volumeVars == <<forced, vpc, vid, vnew, vfired, vexpiring>>
vars == <<monitorVars, sessionVars, callVars, callbackVars, volumeVars, calls, overlap>>

NoPid == CHOOSE p \in Pids : TRUE

Init ==
    /\ MonitorInit
    /\ state = [p \in Pids |-> "none"]
    /\ scene = [p \in Pids |-> FALSE]
    /\ streams = [p \in Pids |-> {}]
    /\ pidCbIdMap = [p \in Pids |-> Invalid]
    /\ background = [p \in Pids |-> FALSE]
    /\ spc = "idle" /\ spid = NoPid /\ sid = Invalid /\ thenStart = FALSE
    /\ fired = [p \in Pids |-> 0]
    /\ removing = [p \in Pids |-> 0]
    /\ forced = FALSE /\ vpc = "idle" /\ vid = Invalid /\ vnew = Invalid
    /\ vfired = 0 /\ vexpiring = 0
    /\ calls = 0 /\ overlap = FALSE

CallbacksPending ==
    vfired + vexpiring > 0 \/ \E p \in Pids : fired[p] + removing[p] > 0

Empty(p) == streams[p] = {}

(* Activate and RemoveStreamInfo time an empty session if it is v1, or v2   *)
(* and its application is in the background: IsBackGroundApp.               *)
NeedsTimer(p) == ~scene[p] \/ background[p]

-----------------------------------------------------------------------------
(* The calls that hold sessionServiceMutex_, of which the monitor's part is *)
(* left to the steps further down.                                          *)

(* A call about p begins and goes on at l; st: may StartMonitor follow?     *)
Begin(p, l, st) ==
    /\ spc = "idle" /\ calls < MaxCalls
    /\ spc' = l
    /\ spid' = IF l = "idle" THEN NoPid ELSE p
    /\ thenStart' = st
    /\ calls' = calls + 1
    /\ overlap' = (overlap \/ CallbacksPending)
    /\ UNCHANGED <<monitorVars, sid, pidCbIdMap, callbackVars, volumeVars>>

(* CreateAudioSession and SetAudioSessionScene.                             *)
SetAudioSessionScene(p) ==
    /\ Begin(p, "idle", FALSE)
    /\ state' = [state EXCEPT ![p] = IF @ = "none" THEN "new" ELSE @]
    /\ scene' = [scene EXCEPT ![p] = TRUE]
    /\ UNCHANGED <<streams, background>>

ActivateAudioSession(p) ==
    /\ Begin(p, "stop", Empty(p))
    /\ state' = [state EXCEPT ![p] = "active"]
    /\ UNCHANGED <<scene, streams, background>>

Erase(p) ==
    /\ state' = [state EXCEPT ![p] = "none"]
    /\ scene' = [scene EXCEPT ![p] = FALSE]
    /\ streams' = [streams EXCEPT ![p] = {}]

(* Mutant of DeactivateAudioSession: the timer is left running.             *)
DeactivateKeepsTimer(p) ==
    /\ state[p] # "none"
    /\ Begin(p, "idle", FALSE)
    /\ Erase(p)
    /\ UNCHANGED background

DeactivateAudioSession(p) ==
    /\ state[p] # "none"
    /\ Begin(p, "stop", FALSE)
    /\ Erase(p)
    /\ UNCHANGED background

(* Mutant of AddStreamInfo: the timer is left running.                      *)
AddStreamKeepsTimer(p, s) ==
    /\ state[p] = "active" /\ s \notin streams[p]
    /\ Begin(p, "idle", FALSE)
    /\ streams' = [streams EXCEPT ![p] = @ \cup {s}]
    /\ UNCHANGED <<state, scene, background>>

(* The interrupt service adds and removes streams of active sessions only.  *)
AddStreamInfo(p, s) ==
    /\ state[p] = "active" /\ s \notin streams[p]
    /\ Begin(p, "stop", FALSE)
    /\ streams' = [streams EXCEPT ![p] = @ \cup {s}]
    /\ UNCHANGED <<state, scene, background>>

(* Mutant of RemoveStreamInfo: no timer for the session it leaves empty.    *)
RemoveStreamOnly(p, s) ==
    /\ state[p] = "active" /\ s \in streams[p]
    /\ Begin(p, "idle", FALSE)
    /\ streams' = [streams EXCEPT ![p] = @ \ {s}]
    /\ UNCHANGED <<state, scene, background>>

RemoveStreamInfo(p, s) ==
    /\ state[p] = "active" /\ s \in streams[p]
    /\ Begin(p, IF streams[p] = {s} /\ NeedsTimer(p) THEN "start" ELSE "idle", FALSE)
    /\ streams' = [streams EXCEPT ![p] = @ \ {s}]
    /\ UNCHANGED <<state, scene, background>>

(* RemoveStreamInfo of a stream that is not there: an empty session's timer *)
(* is started all the same.                                                 *)
RemoveNoStream(p) ==
    /\ state[p] = "active" /\ Empty(p)
    /\ Begin(p, IF NeedsTimer(p) THEN "start" ELSE "idle", FALSE)
    /\ UNCHANGED <<state, scene, streams, background>>

(* ProcessFocusEntryForAudioSession clears the streams of a v2 session; it  *)
(* adds those that run right after, with AddStreamInfo.                     *)
ClearStreamInfo(p) ==
    /\ state[p] = "active" /\ scene[p]
    /\ Begin(p, "idle", FALSE)
    /\ streams' = [streams EXCEPT ![p] = {}]
    /\ UNCHANGED <<state, scene, background>>

(* The application manager's state changes first, ...                       *)
AppStateChanges(p) ==
    /\ calls < MaxCalls
    /\ background' = [background EXCEPT ![p] = ~@]
    /\ calls' = calls + 1
    /\ UNCHANGED <<monitorVars, state, scene, streams, pidCbIdMap, callVars,
                   callbackVars, volumeVars, overlap>>

(* ... and NotifyAppStateChange tells the service.                          *)
NotifyAppStateChange(p) ==
    /\ state[p] # "none" /\ scene[p]
    /\ \/ ~background[p] /\ Begin(p, "stop", FALSE)
       \/ /\ background[p] /\ state[p] = "active" /\ Empty(p)
          /\ Begin(p, "start", FALSE)
    /\ UNCHANGED <<state, scene, streams, background>>

-----------------------------------------------------------------------------
(* AudioSessionStateMonitor.                                                *)

InCall == UNCHANGED <<state, scene, streams, background, callbackVars, volumeVars,
                      calls, overlap>>

Return == spc' = "idle" /\ spid' = NoPid /\ sid' = Invalid /\ thenStart' = FALSE

Stopped ==
    IF thenStart /\ NeedsTimer(spid)
    THEN spc' = "start" /\ thenStart' = FALSE /\ sid' = Invalid /\ UNCHANGED spid
    ELSE Return

(* StopMonitor: the entry is erased under sessionMonitorMutex_, ...         *)
StopMonitor ==
    /\ spc = "stop"
    /\ IF pidCbIdMap[spid] = Invalid THEN Stopped /\ UNCHANGED pidCbIdMap
       ELSE /\ sid' = pidCbIdMap[spid]
            /\ pidCbIdMap' = [pidCbIdMap EXCEPT ![spid] = Invalid]
            /\ spc' = "unregister"
            /\ UNCHANGED <<spid, thenStart>>
    /\ UNCHANGED monitorVars /\ InCall

(* ... and the timer unregistered after it.                                 *)
StopUnRegister ==
    /\ spc = "unregister"
    /\ UnRegisterCallback(spid, sid)
    /\ Stopped
    /\ UNCHANGED pidCbIdMap /\ InCall

(* StartMonitor: nothing if there is an entry already.                      *)
StartMonitor ==
    /\ spc = "start"
    /\ IF pidCbIdMap[spid] = Invalid
       THEN spc' = "allocate" /\ UNCHANGED <<spid, sid, thenStart>>
       ELSE Return
    /\ UNCHANGED <<monitorVars, pidCbIdMap>> /\ InCall

StartAllocate ==
    /\ spc = "allocate"
    /\ AllocateCbId(spid)
    /\ IF LowestFree = Invalid THEN Return
       ELSE spc' = "enter" /\ sid' = LowestFree /\ UNCHANGED <<spid, thenStart>>
    /\ UNCHANGED pidCbIdMap /\ InCall

StartEnter ==
    /\ spc = "enter"
    /\ Enter(spid, sid)
    /\ spc' = "map"
    /\ UNCHANGED <<spid, sid, thenStart, pidCbIdMap>> /\ InCall

StartMap ==
    /\ spc = "map"
    /\ pidCbIdMap' = [pidCbIdMap EXCEPT ![spid] = sid]
    /\ Return
    /\ UNCHANGED monitorVars /\ InCall

CallStep ==
    \/ StopMonitor \/ StopUnRegister
    \/ StartMonitor \/ StartAllocate \/ StartEnter \/ StartMap

-----------------------------------------------------------------------------
(* The timers end.  A timer runs for ten seconds at least: not before the   *)
(* call that registers it is over.                                          *)
TimerEnds(id) ==
    LET o == monitoredObj[id]
    IN  /\ spc = "map" => id # sid
        /\ Expire(id)
        /\ IF o = Volume
           THEN vfired' = vfired + 1 /\ UNCHANGED callbackVars
           ELSE /\ fired' = [fired EXCEPT ![o] = @ + 1]
                /\ UNCHANGED <<removing, vfired>>
        /\ overlap' = (overlap \/ spc # "idle" \/ vpc # "idle")
        /\ UNCHANGED <<sessionVars, callVars, forced, vpc, vid, vnew, vexpiring, calls>>

(* OnTimeOut: OnAudioSessionTimeOut, without StopMonitor, ...               *)
OnAudioSessionTimeOut(p) ==
    /\ fired[p] > 0 /\ spc = "idle"
    /\ Erase(p)
    /\ fired' = [fired EXCEPT ![p] = @ - 1]
    /\ removing' = [removing EXCEPT ![p] = @ + 1]
    /\ UNCHANGED <<monitorVars, pidCbIdMap, background, callVars, volumeVars, calls,
                   overlap>>

(* ... and RemoveFromMonitorMap, whatever the entry is by then.             *)
RemoveFromMonitorMap(p) ==
    /\ removing[p] > 0
    /\ pidCbIdMap' = [pidCbIdMap EXCEPT ![p] = Invalid]
    /\ removing' = [removing EXCEPT ![p] = @ - 1]
    /\ UNCHANGED <<monitorVars, state, scene, streams, background, callVars, fired,
                   volumeVars, calls, overlap>>

-----------------------------------------------------------------------------
(* ForceVolumeKeyControlType: SetTimer holds monitorMtx_ throughout.        *)

VolumeStep == UNCHANGED <<sessionVars, callVars, callbackVars, vfired>>

ForceVolumeKeyControlType(on) ==
    /\ vpc = "idle" /\ calls < MaxCalls
    /\ forced' = on
    /\ IF vid = Invalid THEN UNCHANGED monitorVars ELSE UnRegisterCallback(Volume, vid)
    /\ vid' = Invalid
    /\ vpc' = IF on THEN "allocate" ELSE "idle"
    /\ calls' = calls + 1
    /\ overlap' = (overlap \/ CallbacksPending)
    /\ VolumeStep /\ UNCHANGED <<vnew, vexpiring>>

VolumeAllocate ==
    /\ vpc = "allocate"
    /\ AllocateCbId(Volume)
    /\ vpc' = IF LowestFree = Invalid THEN "idle" ELSE "enter"
    /\ vnew' = LowestFree
    /\ VolumeStep /\ UNCHANGED <<forced, vid, vexpiring, calls, overlap>>

(* Mutant of VolumeEnter: SetTimer starts the timer first and stops after.  *)
VolumeEnterThenStop ==
    /\ vpc = "enter"
    /\ UnRegisterCallback(Volume, vnew)
    /\ vid' = Invalid /\ vnew' = Invalid
    /\ vpc' = "idle"
    /\ VolumeStep /\ UNCHANGED <<forced, vexpiring, calls, overlap>>

VolumeEnter ==
    /\ vpc = "enter"
    /\ Enter(Volume, vnew)
    /\ vid' = vnew /\ vnew' = Invalid
    /\ vpc' = "idle"
    /\ VolumeStep /\ UNCHANGED <<forced, vexpiring, calls, overlap>>

(* OnTimeOut: StopMonitor, though the monitor has freed the id already, ... *)
VolumeOnTimeOut ==
    /\ vfired > 0 /\ vpc = "idle"
    /\ IF vid = Invalid THEN UNCHANGED monitorVars ELSE UnRegisterCallback(Volume, vid)
    /\ vid' = Invalid
    /\ vfired' = vfired - 1
    /\ vexpiring' = vexpiring + 1
    /\ UNCHANGED <<sessionVars, callVars, callbackVars, forced, vpc, vnew, calls,
                   overlap>>

(* ... and OnTimerExpired.  forceControlVolumeTypeMutex_ keeps it out of    *)
(* ForceVolumeKeyControlType.                                               *)
OnTimerExpired ==
    /\ vexpiring > 0 /\ vpc = "idle"
    /\ forced' = FALSE
    /\ vexpiring' = vexpiring - 1
    /\ VolumeStep /\ UNCHANGED <<monitorVars, vpc, vid, vnew, calls, overlap>>

-----------------------------------------------------------------------------
Calls ==
    \E p \in Pids :
      \/ SetAudioSessionScene(p) \/ ActivateAudioSession(p) \/ DeactivateAudioSession(p)
      \/ \E s \in Streams : AddStreamInfo(p, s) \/ RemoveStreamInfo(p, s)
      \/ RemoveNoStream(p) \/ ClearStreamInfo(p)
      \/ AppStateChanges(p) \/ NotifyAppStateChange(p)

Callbacks(p) == OnAudioSessionTimeOut(p) \/ RemoveFromMonitorMap(p)

VolumeCall == VolumeAllocate \/ VolumeEnter
VolumeCallback == VolumeOnTimeOut \/ OnTimerExpired

Next ==
    \/ Calls \/ CallStep
    \/ \E id \in Ids : TimerEnds(id)
    \/ \E p \in Pids : Callbacks(p)
    \/ \E on \in BOOLEAN : ForceVolumeKeyControlType(on)
    \/ VolumeCall \/ VolumeCallback

(* Calls return, timers end, callback threads get their turn.  Nobody has   *)
(* to call.                                                                 *)
Spec ==
    /\ Init /\ [][Next]_vars
    /\ WF_vars(CallStep) /\ WF_vars(VolumeCall) /\ WF_vars(VolumeCallback)
    /\ \A id \in Ids : WF_vars(TimerEnds(id))
    /\ \A p \in Pids : WF_vars(Callbacks(p))

-----------------------------------------------------------------------------
TypeOK ==
    /\ MonitorTypeOK
    /\ state \in [Pids -> {"none", "new", "active"}]
    /\ scene \in [Pids -> BOOLEAN] /\ background \in [Pids -> BOOLEAN]
    /\ streams \in [Pids -> SUBSET Streams]
    /\ pidCbIdMap \in [Pids -> Ids \cup {Invalid}]
    /\ spc \in {"idle", "stop", "unregister", "start", "allocate", "enter", "map"}
    /\ spid \in Pids /\ sid \in Ids \cup {Invalid} /\ thenStart \in BOOLEAN
    /\ fired \in [Pids -> 0 .. MaxCalls] /\ removing \in [Pids -> 0 .. MaxCalls]
    /\ forced \in BOOLEAN /\ vpc \in {"idle", "allocate", "enter"}
    /\ vid \in Ids \cup {Invalid} /\ vnew \in Ids \cup {Invalid}
    /\ vfired \in 0 .. MaxCalls /\ vexpiring \in 0 .. MaxCalls
    /\ calls \in 0 .. MaxCalls /\ overlap \in BOOLEAN

(* The ids being given out, and to whom.                                    *)
Entering(id) ==
    {o \in Owners : \/ spc = "enter" /\ sid = id /\ o = spid
                    \/ vpc = "enter" /\ vnew = id /\ o = Volume}

(* An id is taken if and only if a callback has it or is being given it, by *)
(* the owner it is taken for, however calls and callbacks overlap, until an *)
(* owner unregisters the id of another.                                     *)
IdsAgree ==
    stolen \/ \A id \in Ids :
      {idAllocator[id]} \ {Nobody} = ({monitoredObj[id]} \ {Nobody}) \cup Entering(id)

(* Between calls, unless one has overlapped a callback, the service knows   *)
(* of exactly the timers there are, and a timer runs for an application     *)
(* only if it has a session, an empty one; for an active v1 session always. *)
TimerFitsSession ==
    spc = "idle" /\ ~overlap /\ ~CallbacksPending =>
      \A p \in Pids :
        /\ {id \in Ids : monitoredObj[id] = p} = {pidCbIdMap[p]} \ {Invalid}
        /\ pidCbIdMap[p] # Invalid => state[p] # "none" /\ Empty(p)
        /\ state[p] = "active" /\ ~scene[p] /\ Empty(p) => pidCbIdMap[p] # Invalid

Idle(p) == state[p] = "active" /\ ~scene[p] /\ Empty(p)

(* An active v1 session that is empty does not stay so, nor do the volume   *)
(* keys stay forced: no timer is lost on its way, whatever overlaps, until  *)
(* an owner unregisters the id of another.                                  *)
IdleSessionEnds ==
    /\ \A p \in Pids : Idle(p) ~> ~Idle(p) \/ stolen
    /\ forced ~> ~forced \/ stolen

TimesOut(p) == fired[p] > 0 /\ fired'[p] = fired[p] - 1

(* A session is timed out only while it is empty, unless a call has         *)
(* overlapped a callback.                                                   *)
TimeoutEndsEmpty == [][\A p \in Pids : TimesOut(p) /\ ~overlap => Empty(p)]_vars
=============================================================================
