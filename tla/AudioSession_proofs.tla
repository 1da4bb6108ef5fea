------------------------- MODULE AudioSession_proofs -------------------------
(***************************************************************************)
(* Theorems about AudioSession: for any number of applications, ids and    *)
(* calls, the ids of the state monitor agree with the callbacks; and until *)
(* a call overlaps a callback, the timers fit the sessions.                *)
(***************************************************************************)
EXTENDS AudioSession, TLAPS, WellFoundedInduction, FiniteSetTheorems

(* A non-empty set of ids has a least one, so that LowestFree is defined.   *)
LEMMA LeastId == ASSUME NEW T \in SUBSET Nat, T # {}
                 PROVE  \E i \in T : \A j \in T : i <= j
<1> DEFINE R == {p \in Nat \X Nat : p[1] < p[2]}
<1>1. IsWellFoundedOn(R, Nat)
  BY NatLessThanWellFounded DEF OpToRel
<1> HIDE DEF R
<1>2. PICK i \in T : \A j \in T : ~ (<<j, i>> \in R)
  BY <1>1, WFMin
<1>3. \A j \in T : ~ (j < i)
  BY <1>2 DEF R
<1>4. QED
  BY <1>3

(* AllocateCbId gives out a free id.                                        *)
LEMMA LowestIsFree == LowestFree # Invalid => LowestFree \in FreeIds
<1>1. FreeIds \in SUBSET Nat
  BY MonitorAssumption DEF FreeIds, Ids
<1>2. CASE FreeIds = {}
  BY <1>2 DEF LowestFree
<1>3. CASE FreeIds # {}
  <2>1. \E i \in FreeIds : \A j \in FreeIds : i <= j
    BY <1>1, <1>3, LeastId
  <2>2. QED
    BY <2>1, <1>3 DEF LowestFree
<1>4. QED
  BY <1>2, <1>3

(* It gives out none only if none is free.                                  *)
LEMMA LowestFreeIsInvalid == LowestFree = Invalid => FreeIds = {}
<1>1. FreeIds \in SUBSET Nat /\ Invalid \notin FreeIds
  BY MonitorAssumption DEF FreeIds, Ids, Invalid
<1>2. CASE FreeIds # {}
  <2>1. \E i \in FreeIds : \A j \in FreeIds : i <= j
    BY <1>1, <1>2, LeastId
  <2>2. QED
    BY <1>1, <1>2, <2>1 DEF LowestFree
<1>3. QED
  BY <1>2
-----------------------------------------------------------------------------
(* The variables the ids depend on, and their types.                        *)
IdTypes ==
    /\ MonitorTypeOK
    /\ pidCbIdMap \in [Pids -> Ids \cup {Invalid}]
    /\ spid \in Pids /\ sid \in Ids \cup {Invalid}
    /\ spc \in {"unregister", "enter", "map"} => sid \in Ids
    /\ vid \in Ids \cup {Invalid} /\ vnew \in Ids \cup {Invalid}
    /\ vpc = "enter" => vnew \in Ids

SessionEnters(id) == spc = "enter" /\ sid = id
VolumeEnters(id) == vpc = "enter" /\ vnew = id

(* An id that is being given to an owner has no callback yet: without this, *)
(* a timer could end and free an id somebody is about to enter.             *)
IdAgrees(id) ==
    /\ monitoredObj[id] # Nobody => idAllocator[id] = monitoredObj[id]
    /\ SessionEnters(id) => idAllocator[id] = spid /\ monitoredObj[id] = Nobody
    /\ VolumeEnters(id) => idAllocator[id] = Volume /\ monitoredObj[id] = Nobody
    /\ idAllocator[id] # Nobody =>
         monitoredObj[id] # Nobody \/ SessionEnters(id) \/ VolumeEnters(id)

IdsInv == IdTypes /\ (stolen \/ \A id \in Ids : IdAgrees(id))

idVars == <<monitorVars, pidCbIdMap, spc, spid, sid, vpc, vid, vnew>>

(* The constants keep ids, owners and their placeholders apart.             *)
LEMMA Constants ==
    /\ Invalid \notin Ids
    /\ Volume \in Owners /\ Pids \subseteq Owners
    /\ Nobody \notin Owners /\ Volume \notin Pids
    /\ NoPid \in Pids
BY MonitorAssumption, OwnersAssumption, SessionAssumption
DEF Invalid, Ids, NoPid

(* The invariant is as strong as the property.                              *)
LEMMA IdsInvImpliesIdsAgree == IdsInv => IdsAgree
<1> SUFFICES ASSUME IdsInv, ~ stolen, NEW id \in Ids
             PROVE  {idAllocator[id]} \ {Nobody}
                      = ({monitoredObj[id]} \ {Nobody}) \cup Entering(id)
  BY DEF IdsAgree
<1>1. IdTypes /\ IdAgrees(id)
  BY DEF IdsInv
<1>2. Entering(id) = (IF SessionEnters(id) THEN {spid} ELSE {})
                       \cup (IF VolumeEnters(id) THEN {Volume} ELSE {})
  BY <1>1, Constants DEF Entering, SessionEnters, VolumeEnters, IdTypes
<1>3. QED
  BY <1>1, <1>2, Constants DEF IdAgrees, IdTypes, MonitorTypeOK

(* No id is taken at first.                                                 *)
LEMMA IdsInvInit == Init => IdsInv
<1> SUFFICES ASSUME Init PROVE IdsInv
  OBVIOUS
<1>1. IdTypes
  BY Constants DEF Init, MonitorInit, IdTypes, MonitorTypeOK
<1>2. \A id \in Ids : IdAgrees(id)
  BY DEF Init, MonitorInit, IdAgrees, SessionEnters, VolumeEnters
<1>3. QED
  BY <1>1, <1>2 DEF IdsInv

(* Whatever leaves the ids' variables alone keeps the invariant.            *)
LEMMA OthersKeepIds == IdsInv /\ UNCHANGED idVars => IdsInv'
BY DEF IdsInv, IdTypes, MonitorTypeOK, IdAgrees, SessionEnters, VolumeEnters,
       idVars, monitorVars

(* The beginning of a call of the session service.                          *)
LEMMA BeginKeepsIds ==
    ASSUME IdsInv, NEW p \in Pids, NEW l \in {"idle", "stop", "start"},
           NEW st \in BOOLEAN, Begin(p, l, st)
    PROVE  IdsInv'
<1>1. IdTypes'
  BY Constants DEF Begin, IdsInv, IdTypes, MonitorTypeOK, monitorVars, volumeVars
<1>2. (stolen \/ \A id \in Ids : IdAgrees(id))'
  BY DEF Begin, IdsInv, IdAgrees, SessionEnters, VolumeEnters, monitorVars,
         volumeVars
<1>3. QED
  BY <1>1, <1>2 DEF IdsInv

(* Calls only begin here; application states do not concern ids.            *)
LEMMA CallsKeepIds == IdsInv /\ Calls => IdsInv'
<1> SUFFICES ASSUME IdsInv, NEW p \in Pids,
                    \/ SetAudioSessionScene(p) \/ ActivateAudioSession(p)
                    \/ DeactivateAudioSession(p)
                    \/ \E s \in Streams : AddStreamInfo(p, s) \/ RemoveStreamInfo(p, s)
                    \/ RemoveNoStream(p) \/ ClearStreamInfo(p)
                    \/ AppStateChanges(p) \/ NotifyAppStateChange(p)
             PROVE  IdsInv'
  BY DEF Calls
<1>1. CASE AppStateChanges(p)
  BY <1>1, OthersKeepIds
  DEF AppStateChanges, idVars, callVars, volumeVars
<1>2. CASE ~ AppStateChanges(p)
  <2>1. \E l \in {"idle", "stop", "start"}, st \in BOOLEAN : Begin(p, l, st)
    BY <1>2 DEF SetAudioSessionScene, ActivateAudioSession,
       DeactivateAudioSession, AddStreamInfo, RemoveStreamInfo, RemoveNoStream,
       ClearStreamInfo, NotifyAppStateChange, Empty
  <2>2. QED
    BY <2>1, BeginKeepsIds
<1>3. QED
  BY <1>1, <1>2

(* StopMonitor and StartMonitor, step by step.                              *)
LEMMA CallStepKeepsIds == IdsInv /\ CallStep => IdsInv'
<1> SUFFICES ASSUME IdsInv, CallStep PROVE IdsInv'
  OBVIOUS
<1> USE Constants DEF IdTypes, MonitorTypeOK, InCall, volumeVars, monitorVars
<1>0. IdTypes
  BY DEF IdsInv
<1>1. CASE StopMonitor
  <2>1. IdTypes'
    BY <1>0, <1>1 DEF StopMonitor, Stopped, Return
  <2>2. (stolen \/ \A id \in Ids : IdAgrees(id))'
    BY <1>1 DEF IdsInv, StopMonitor, Stopped, Return, IdAgrees, SessionEnters,
                VolumeEnters
  <2>3. QED
    BY <2>1, <2>2 DEF IdsInv
<1>2. CASE StopUnRegister
  <2>1. IdTypes'
    BY <1>0, <1>2 DEF StopUnRegister, Stopped, Return, UnRegisterCallback
  <2>2. ASSUME ~ stolen', NEW id \in Ids PROVE IdAgrees(id)'
    <3>1. IdAgrees(id) /\ IdAgrees(sid) /\ idAllocator[sid] \in {spid, Nobody}
      BY <1>0, <1>2, <2>2 DEF IdsInv, StopUnRegister, UnRegisterCallback
    <3>2. QED
      BY <1>0, <1>2, <3>1 DEF StopUnRegister, UnRegisterCallback, Stopped, Return,
                 IdAgrees, SessionEnters, VolumeEnters
  <2>3. QED
    BY <2>1, <2>2 DEF IdsInv
<1>3. CASE StartMonitor
  <2>1. IdTypes'
    BY <1>0, <1>3 DEF StartMonitor, Return
  <2>2. (stolen \/ \A id \in Ids : IdAgrees(id))'
    BY <1>3 DEF IdsInv, StartMonitor, Return, IdAgrees, SessionEnters, VolumeEnters
  <2>3. QED
    BY <2>1, <2>2 DEF IdsInv
<1>4. CASE StartAllocate
  <2>1. LowestFree # Invalid =>
          LowestFree \in Ids /\ idAllocator[LowestFree] = Nobody
    BY LowestIsFree DEF FreeIds
  <2>2. IdTypes'
    BY <1>0, <1>4, <2>1 DEF StartAllocate, AllocateCbId, Return
  <2>3. ASSUME ~ stolen, NEW id \in Ids PROVE IdAgrees(id)'
    <3>1. IdAgrees(id)
      BY <2>3 DEF IdsInv
    <3>2. QED
      BY <1>0, <1>4, <2>1, <3>1 DEF StartAllocate, AllocateCbId, Return,
                 IdAgrees, SessionEnters, VolumeEnters
  <2>4. stolen' = stolen
    BY <1>4 DEF StartAllocate, AllocateCbId
  <2>5. QED
    BY <2>2, <2>3, <2>4 DEF IdsInv
<1>5. CASE StartEnter
  <2>1. IdTypes'
    BY <1>0, <1>5 DEF StartEnter, Enter
  <2>2. ASSUME ~ stolen, NEW id \in Ids PROVE IdAgrees(id)'
    <3>1. IdAgrees(id)
      BY <2>2 DEF IdsInv
    <3>2. QED
      BY <1>0, <1>5, <3>1 DEF StartEnter, Enter, IdAgrees, SessionEnters,
                 VolumeEnters
  <2>3. stolen' = stolen
    BY <1>5 DEF StartEnter, Enter
  <2>4. QED
    BY <2>1, <2>2, <2>3 DEF IdsInv
<1>6. CASE StartMap
  <2>1. IdTypes'
    BY <1>0, <1>6 DEF StartMap, Return
  <2>2. (stolen \/ \A id \in Ids : IdAgrees(id))'
    BY <1>6 DEF IdsInv, StartMap, Return, IdAgrees, SessionEnters, VolumeEnters
  <2>3. QED
    BY <2>1, <2>2 DEF IdsInv
<1>7. QED
  BY <1>1, <1>2, <1>3, <1>4, <1>5, <1>6 DEF CallStep

(* A timer that ends frees its id, which nobody is being given.             *)
LEMMA TimerKeepsIds == ASSUME IdsInv, NEW i \in Ids, TimerEnds(i) PROVE IdsInv'
<1> USE Constants DEF IdTypes, MonitorTypeOK, TimerEnds, Expire, sessionVars, callVars
<1>0. IdTypes
  BY DEF IdsInv
<1>1. IdTypes'
  BY <1>0
<1>2. ASSUME ~ stolen, NEW id \in Ids PROVE IdAgrees(id)'
  <2>1. IdAgrees(id)
    BY <1>2 DEF IdsInv
  <2>2. QED
    BY <1>0, <2>1 DEF IdAgrees, SessionEnters, VolumeEnters
<1>3. stolen' = stolen
  OBVIOUS
<1>4. QED
  BY <1>1, <1>2, <1>3 DEF IdsInv

(* The callback threads of the session service free no ids.                 *)
LEMMA CallbacksKeepIds == ASSUME IdsInv, NEW p \in Pids, Callbacks(p) PROVE IdsInv'
<1>1. CASE OnAudioSessionTimeOut(p)
  BY <1>1, OthersKeepIds DEF OnAudioSessionTimeOut, idVars, callVars, volumeVars
<1>2. CASE RemoveFromMonitorMap(p)
  <2>1. IdTypes'
    BY <1>2 DEF RemoveFromMonitorMap, IdsInv, IdTypes, MonitorTypeOK, monitorVars,
                callVars, volumeVars
  <2>2. (stolen \/ \A id \in Ids : IdAgrees(id))'
    BY <1>2 DEF RemoveFromMonitorMap, IdsInv, IdAgrees, SessionEnters, VolumeEnters,
                monitorVars, callVars, volumeVars
  <2>3. QED
    BY <2>1, <2>2 DEF IdsInv
<1>3. QED
  BY <1>1, <1>2 DEF Callbacks

(* The volume manager stops its timer, whether or not the id is still its.  *)
LEMMA VolumeStopKeepsIds ==
    ASSUME IdsInv, vpc # "enter", vpc' # "enter", vid' = Invalid, UNCHANGED vnew,
           UNCHANGED <<pidCbIdMap, callVars>>,
           IF vid = Invalid THEN UNCHANGED monitorVars
           ELSE UnRegisterCallback(Volume, vid)
    PROVE  IdsInv'
<1> USE Constants DEF IdTypes, MonitorTypeOK, callVars, monitorVars
<1>0. IdTypes
  BY DEF IdsInv
<1>1. IdTypes'
  BY <1>0 DEF UnRegisterCallback
<1>2. ASSUME ~ stolen', NEW id \in Ids PROVE IdAgrees(id)'
  <2>1. ~ stolen
    BY <1>2 DEF UnRegisterCallback
  <2>2. CASE vid = Invalid
    BY <2>1, <2>2 DEF IdsInv, IdAgrees, SessionEnters, VolumeEnters
  <2>3. CASE vid # Invalid
    <3>1. vid \in Ids
      BY <1>0, <2>3
    <3>2. IdAgrees(id) /\ IdAgrees(vid) /\ idAllocator[vid] \in {Volume, Nobody}
      BY <1>2, <2>1, <2>3, <3>1 DEF IdsInv, UnRegisterCallback
    <3>3. QED
      BY <1>0, <2>3, <3>1, <3>2
      DEF UnRegisterCallback, IdAgrees, SessionEnters, VolumeEnters
  <2>4. QED
    BY <2>2, <2>3
<1>3. QED
  BY <1>1, <1>2 DEF IdsInv

(* The volume manager, called or called back.                               *)
LEMMA VolumeKeepsIds ==
    ASSUME IdsInv,
           \/ \E on \in BOOLEAN : ForceVolumeKeyControlType(on)
           \/ VolumeCall \/ VolumeCallback
    PROVE  IdsInv'
<1> USE DEF VolumeStep, sessionVars
<1>0. IdTypes
  BY DEF IdsInv
<1>1. ASSUME NEW on \in BOOLEAN, ForceVolumeKeyControlType(on) PROVE IdsInv'
  BY <1>1, VolumeStopKeepsIds DEF ForceVolumeKeyControlType
<1>2. CASE VolumeOnTimeOut
  BY <1>2, VolumeStopKeepsIds DEF VolumeOnTimeOut
<1>3. CASE OnTimerExpired
  BY <1>3, OthersKeepIds DEF OnTimerExpired, idVars, callVars
<1>4. CASE VolumeAllocate
  <2> USE Constants DEF VolumeAllocate, AllocateCbId, callVars
  <2>1. LowestFree # Invalid =>
          LowestFree \in Ids /\ idAllocator[LowestFree] = Nobody
    BY LowestIsFree DEF FreeIds
  <2>2. IdTypes'
    BY <1>0, <1>4, <2>1 DEF IdTypes, MonitorTypeOK
  <2>3. ASSUME ~ stolen, NEW id \in Ids PROVE IdAgrees(id)'
    <3>1. IdAgrees(id)
      BY <2>3 DEF IdsInv
    <3>2. QED
      BY <1>0, <1>4, <2>1, <3>1
      DEF IdTypes, MonitorTypeOK, IdAgrees, SessionEnters, VolumeEnters
  <2>4. stolen' = stolen
    BY <1>4
  <2>5. QED
    BY <2>2, <2>3, <2>4 DEF IdsInv
<1>5. CASE VolumeEnter
  <2> USE Constants DEF VolumeEnter, Enter, callVars
  <2>1. IdTypes'
    BY <1>0, <1>5 DEF IdTypes, MonitorTypeOK
  <2>2. ASSUME ~ stolen, NEW id \in Ids PROVE IdAgrees(id)'
    <3>1. IdAgrees(id)
      BY <2>2 DEF IdsInv
    <3>2. QED
      BY <1>0, <1>5, <3>1
      DEF IdTypes, MonitorTypeOK, IdAgrees, SessionEnters, VolumeEnters
  <2>3. stolen' = stolen
    BY <1>5
  <2>4. QED
    BY <2>1, <2>2, <2>3 DEF IdsInv
<1>6. QED
  BY <1>1, <1>2, <1>3, <1>4, <1>5 DEF VolumeCall, VolumeCallback

-----------------------------------------------------------------------------
(* Every step keeps the ids.                                                *)
LEMMA IdsInvIsInductive == IdsInv /\ [Next]_vars => IdsInv'
<1> SUFFICES ASSUME IdsInv, [Next]_vars PROVE IdsInv'
  OBVIOUS
<1>1. CASE UNCHANGED vars
  BY <1>1, OthersKeepIds
  DEF vars, idVars, sessionVars, callVars, volumeVars
<1>2. CASE Next
  BY <1>2, CallsKeepIds, CallStepKeepsIds, TimerKeepsIds, CallbacksKeepIds,
     VolumeKeepsIds DEF Next
<1>3. QED
  BY <1>1, <1>2

(* For any number of applications and ids: an id of the state monitor is    *)
(* taken if and only if a callback has it or is being given it, by the      *)
(* owner it is taken for, until an owner unregisters the id of another.     *)
THEOREM IdsAlwaysAgree == Spec => []IdsAgree
BY IdsInvInit, IdsInvIsInductive, IdsInvImpliesIdsAgree, PTL DEF Spec

-----------------------------------------------------------------------------
(* Timers and sessions.  Until a call overlaps a callback, calls and        *)
(* callbacks take turns.                                                    *)

(* As many ids as there are owners: each has one timer at a time, so that   *)
(* StartMonitor never goes without.                                         *)
EnoughIds == IsFiniteSet(Owners) /\ Cardinality(Owners) <= MaxCbId

Timers(o) == {id \in Ids : monitoredObj[id] = o}

FitTypes ==
    /\ state \in [Pids -> {"none", "new", "active"}]
    /\ scene \in [Pids -> BOOLEAN] /\ background \in [Pids -> BOOLEAN]
    /\ streams \in [Pids -> SUBSET Streams]
    /\ fired \in [Pids -> Nat] /\ removing \in [Pids -> Nat]
    /\ vfired \in Nat /\ vexpiring \in Nat
    /\ spc \in {"idle", "stop", "unregister", "start", "allocate", "enter", "map"}
    /\ vpc \in {"idle", "allocate", "enter"}
    /\ thenStart \in BOOLEAN /\ overlap \in BOOLEAN

TakeTurns == CallbacksPending => spc = "idle" /\ vpc = "idle"

(* What a call knows of the session it is about.                            *)
CallFits ==
    /\ thenStart => spc \in {"stop", "unregister"}
    /\ thenStart \/ spc \in {"start", "allocate", "enter", "map"} =>
         state[spid] = "active" /\ Empty(spid)
    /\ spc \in {"stop", "unregister"} /\ Idle(spid) => thenStart

(* The entry of an application and the timers there are for it: ...         *)
EntryFits(p) == Timers(p) = {pidCbIdMap[p]} \ {Invalid}

(* ... while a call is about it, ...                                        *)
BusyFits(p) ==
    /\ spc \in {"stop", "start"} => EntryFits(p)
    /\ spc \in {"unregister", "map"} => Timers(p) = {sid} /\ pidCbIdMap[p] = Invalid
    /\ spc \in {"allocate", "enter"} => Timers(p) = {} /\ pidCbIdMap[p] = Invalid

(* ... while none is, ...                                                   *)
RestFits(p) ==
    /\ EntryFits(p)
    /\ pidCbIdMap[p] # Invalid => state[p] # "none" /\ Empty(p)
    /\ EnoughIds /\ Idle(p) => pidCbIdMap[p] # Invalid

(* ... and when its timer has ended.                                        *)
EndedFits(p) ==
    /\ Timers(p) = {} /\ Empty(p)
    /\ fired[p] = 0 => state[p] = "none"

PidFits(p) ==
    IF fired[p] + removing[p] > 0 THEN EndedFits(p)
    ELSE IF spc # "idle" /\ spid = p THEN BusyFits(p) ELSE RestFits(p)

VolumeFits ==
    /\ vfired = 0 /\ vpc = "idle" => Timers(Volume) = {vid} \ {Invalid}
    /\ vpc # "idle" => Timers(Volume) = {} /\ vid = Invalid
    /\ vfired > 0 => /\ Timers(Volume) = {}
                     /\ vid # Invalid => idAllocator[vid] = Nobody

Fits == ~stolen /\ TakeTurns /\ CallFits /\ VolumeFits /\ \A p \in Pids : PidFits(p)

FitInv == FitTypes /\ (overlap \/ Fits)

(* No timer is running at first, and no session exists.                     *)
LEMMA FitInvInit == Init => FitInv
<1> SUFFICES ASSUME Init PROVE FitInv
  OBVIOUS
<1> USE DEF Init, MonitorInit
<1>1. FitTypes
  BY DEF FitTypes
<1>2. ~ CallbacksPending
  BY DEF CallbacksPending
<1>3. \A o \in Owners : Timers(o) = {}
  BY Constants DEF Timers
<1>4. \A p \in Pids : fired[p] + removing[p] = 0 /\ RestFits(p)
  BY <1>3, Constants DEF RestFits, EntryFits, Idle
<1>5. VolumeFits
  BY <1>3, Constants DEF VolumeFits
<1>6. CallFits
  BY DEF CallFits
<1>7. QED
  BY <1>1, <1>2, <1>4, <1>5, <1>6 DEF FitInv, Fits, TakeTurns, PidFits

(* Nobody is called back while a call begins, or the two overlap.           *)
LEMMA BeginFits ==
    ASSUME FitInv, NEW p \in Pids, NEW l \in {"idle", "stop", "start"},
           NEW b \in BOOLEAN, Begin(p, l, b), FitTypes',
           \A q \in Pids \ {p} :
              state'[q] = state[q] /\ scene'[q] = scene[q] /\ streams'[q] = streams[q],
           ~ overlap /\ CallFits /\ RestFits(p) =>
              CallFits' /\ (l = "idle" => RestFits(p)') /\ (l # "idle" => EntryFits(p)')
    PROVE  FitInv'
<1> SUFFICES ASSUME ~ overlap' PROVE Fits'
  BY DEF FitInv
<1> USE DEF Begin, monitorVars, callbackVars, volumeVars
<1>1. ~ overlap /\ ~ CallbacksPending /\ Fits /\ spc = "idle" /\ FitTypes
  BY DEF FitInv, FitTypes
<1>2. ~ CallbacksPending'
  BY <1>1 DEF CallbacksPending
<1>3. \A q \in Pids : RestFits(q) /\ fired[q] + removing[q] = 0
  <2>1. ASSUME NEW q \in Pids PROVE fired[q] + removing[q] = 0
    <3>1. fired[q] \in Nat /\ removing[q] \in Nat /\ ~ (fired[q] + removing[q] > 0)
      BY <1>1 DEF CallbacksPending, FitTypes
    <3>2. QED
      BY <3>1
  <2>2. QED
    BY <1>1, <2>1 DEF Fits, PidFits
<1>4. VolumeFits'
  BY <1>1 DEF Fits, VolumeFits, Timers
<1>5. ASSUME NEW q \in Pids PROVE PidFits(q)'
  <2>1. fired'[q] + removing'[q] = 0
    BY <1>3
  <2>2. CASE q = p /\ l # "idle"
    <3>1. EntryFits(p)'
      BY <1>1, <1>3, <2>2 DEF Fits
    <3>2. QED
      BY <2>1, <2>2, <3>1 DEF PidFits, BusyFits
  <2>3. CASE q = p /\ l = "idle"
    BY <1>1, <1>3, <2>1, <2>3 DEF PidFits, Fits
  <2>4. CASE q # p
    <3>1. RestFits(q)'
      BY <1>3, <2>4 DEF RestFits, EntryFits, Timers, Idle, Empty
    <3>2. QED
      BY <2>1, <2>4, <3>1 DEF PidFits
  <2>5. QED
    BY <2>2, <2>3, <2>4
<1>6. CallFits'
  BY <1>1, <1>3 DEF Fits
<1>7. QED
  BY <1>1, <1>2, <1>4, <1>5, <1>6 DEF Fits, TakeTurns

(* The calls of the session service, when they begin.                       *)
LEMMA CallsKeepFit == FitInv /\ Calls => FitInv'
<1> SUFFICES ASSUME FitInv, NEW p \in Pids,
                    \/ SetAudioSessionScene(p) \/ ActivateAudioSession(p)
                    \/ DeactivateAudioSession(p)
                    \/ \E s \in Streams : AddStreamInfo(p, s) \/ RemoveStreamInfo(p, s)
                    \/ RemoveNoStream(p) \/ ClearStreamInfo(p)
                    \/ AppStateChanges(p) \/ NotifyAppStateChange(p)
             PROVE  FitInv'
  BY DEF Calls
<1> USE DEF RestFits, EntryFits, Timers, CallFits, Idle, Empty, Erase
<1>0. FitTypes
  BY DEF FitInv
<1>1. CASE SetAudioSessionScene(p)
  <2>1. FitTypes'
    BY <1>0, <1>1 DEF SetAudioSessionScene, FitTypes, Begin, callbackVars, volumeVars
  <2>2. \A q \in Pids \ {p} :
           state'[q] = state[q] /\ scene'[q] = scene[q] /\ streams'[q] = streams[q]
    BY <1>0, <1>1 DEF SetAudioSessionScene, FitTypes
  <2>3. PICK l \in {"idle", "stop", "start"}, b \in BOOLEAN : Begin(p, l, b)
    BY <1>1 DEF SetAudioSessionScene
  <2>4. ASSUME CallFits, RestFits(p)
        PROVE  /\ CallFits'
               /\ l = "idle" => RestFits(p)'
               /\ l # "idle" => EntryFits(p)'
    BY <1>0, <1>1, <2>3, <2>4 DEF SetAudioSessionScene, FitTypes, Begin, monitorVars
  <2>5. QED
    BY <2>1, <2>2, <2>3, <2>4, BeginFits
<1>2. CASE ActivateAudioSession(p)
  <2>1. FitTypes'
    BY <1>0, <1>2 DEF ActivateAudioSession, FitTypes, Begin, callbackVars, volumeVars
  <2>2. \A q \in Pids \ {p} :
           state'[q] = state[q] /\ scene'[q] = scene[q] /\ streams'[q] = streams[q]
    BY <1>0, <1>2 DEF ActivateAudioSession, FitTypes
  <2>3. PICK l \in {"idle", "stop", "start"}, b \in BOOLEAN : Begin(p, l, b)
    BY <1>2 DEF ActivateAudioSession
  <2>4. ASSUME CallFits, RestFits(p)
        PROVE  /\ CallFits'
               /\ l = "idle" => RestFits(p)'
               /\ l # "idle" => EntryFits(p)'
    BY <1>0, <1>2, <2>3, <2>4 DEF ActivateAudioSession, FitTypes, Begin, monitorVars
  <2>5. QED
    BY <2>1, <2>2, <2>3, <2>4, BeginFits
<1>3. CASE DeactivateAudioSession(p)
  <2>1. FitTypes'
    BY <1>0, <1>3 DEF DeactivateAudioSession, FitTypes, Begin, callbackVars, volumeVars
  <2>2. \A q \in Pids \ {p} :
           state'[q] = state[q] /\ scene'[q] = scene[q] /\ streams'[q] = streams[q]
    BY <1>0, <1>3 DEF DeactivateAudioSession, FitTypes
  <2>3. PICK l \in {"idle", "stop", "start"}, b \in BOOLEAN : Begin(p, l, b)
    BY <1>3 DEF DeactivateAudioSession
  <2>4. ASSUME CallFits, RestFits(p)
        PROVE  /\ CallFits'
               /\ l = "idle" => RestFits(p)'
               /\ l # "idle" => EntryFits(p)'
    BY <1>0, <1>3, <2>3, <2>4 DEF DeactivateAudioSession, FitTypes, Begin, monitorVars
  <2>5. QED
    BY <2>1, <2>2, <2>3, <2>4, BeginFits
<1>4. ASSUME NEW s \in Streams, AddStreamInfo(p, s) PROVE FitInv'
  <2>1. FitTypes'
    BY <1>0, <1>4 DEF AddStreamInfo, FitTypes, Begin, callbackVars, volumeVars
  <2>2. \A q \in Pids \ {p} :
           state'[q] = state[q] /\ scene'[q] = scene[q] /\ streams'[q] = streams[q]
    BY <1>0, <1>4 DEF AddStreamInfo, FitTypes
  <2>3. PICK l \in {"idle", "stop", "start"}, b \in BOOLEAN : Begin(p, l, b)
    BY <1>4 DEF AddStreamInfo
  <2>4. ASSUME CallFits, RestFits(p)
        PROVE  /\ CallFits'
               /\ l = "idle" => RestFits(p)'
               /\ l # "idle" => EntryFits(p)'
    BY <1>0, <1>4, <2>3, <2>4 DEF AddStreamInfo, FitTypes, Begin, monitorVars
  <2>5. QED
    BY <2>1, <2>2, <2>3, <2>4, BeginFits
<1>5. ASSUME NEW s \in Streams, RemoveStreamInfo(p, s) PROVE FitInv'
  <2>1. FitTypes'
    BY <1>0, <1>5 DEF RemoveStreamInfo, FitTypes, Begin, callbackVars, volumeVars
  <2>2. \A q \in Pids \ {p} :
           state'[q] = state[q] /\ scene'[q] = scene[q] /\ streams'[q] = streams[q]
    BY <1>0, <1>5 DEF RemoveStreamInfo, FitTypes
  <2>3. PICK l \in {"idle", "stop", "start"}, b \in BOOLEAN : Begin(p, l, b)
    BY <1>5 DEF RemoveStreamInfo
  <2>4. ASSUME CallFits, RestFits(p)
        PROVE  /\ CallFits'
               /\ l = "idle" => RestFits(p)'
               /\ l # "idle" => EntryFits(p)'
    BY <1>0, <1>5, <2>3, <2>4
    DEF RemoveStreamInfo, NeedsTimer, FitTypes, Begin, monitorVars
  <2>5. QED
    BY <2>1, <2>2, <2>3, <2>4, BeginFits
<1>6. CASE RemoveNoStream(p)
  <2>1. FitTypes'
    BY <1>0, <1>6 DEF RemoveNoStream, FitTypes, Begin, callbackVars, volumeVars
  <2>2. \A q \in Pids \ {p} :
           state'[q] = state[q] /\ scene'[q] = scene[q] /\ streams'[q] = streams[q]
    BY <1>0, <1>6 DEF RemoveNoStream, FitTypes
  <2>3. PICK l \in {"idle", "stop", "start"}, b \in BOOLEAN : Begin(p, l, b)
    BY <1>6 DEF RemoveNoStream
  <2>4. ASSUME CallFits, RestFits(p)
        PROVE  /\ CallFits'
               /\ l = "idle" => RestFits(p)'
               /\ l # "idle" => EntryFits(p)'
    BY <1>0, <1>6, <2>3, <2>4
    DEF RemoveNoStream, NeedsTimer, FitTypes, Begin, monitorVars
  <2>5. QED
    BY <2>1, <2>2, <2>3, <2>4, BeginFits
<1>7. CASE ClearStreamInfo(p)
  <2>1. FitTypes'
    BY <1>0, <1>7 DEF ClearStreamInfo, FitTypes, Begin, callbackVars, volumeVars
  <2>2. \A q \in Pids \ {p} :
           state'[q] = state[q] /\ scene'[q] = scene[q] /\ streams'[q] = streams[q]
    BY <1>0, <1>7 DEF ClearStreamInfo, FitTypes
  <2>3. PICK l \in {"idle", "stop", "start"}, b \in BOOLEAN : Begin(p, l, b)
    BY <1>7 DEF ClearStreamInfo
  <2>4. ASSUME CallFits, RestFits(p)
        PROVE  /\ CallFits'
               /\ l = "idle" => RestFits(p)'
               /\ l # "idle" => EntryFits(p)'
    BY <1>0, <1>7, <2>3, <2>4 DEF ClearStreamInfo, FitTypes, Begin, monitorVars
  <2>5. QED
    BY <2>1, <2>2, <2>3, <2>4, BeginFits
<1>8. CASE NotifyAppStateChange(p)
  <2>1. FitTypes'
    BY <1>0, <1>8 DEF NotifyAppStateChange, FitTypes, Begin, callbackVars, volumeVars
  <2>2. \A q \in Pids \ {p} :
           state'[q] = state[q] /\ scene'[q] = scene[q] /\ streams'[q] = streams[q]
    BY <1>0, <1>8 DEF NotifyAppStateChange, FitTypes
  <2>3. PICK l \in {"idle", "stop", "start"}, b \in BOOLEAN : Begin(p, l, b)
    BY <1>8 DEF NotifyAppStateChange
  <2>4. ASSUME CallFits, RestFits(p)
        PROVE  /\ CallFits'
               /\ l = "idle" => RestFits(p)'
               /\ l # "idle" => EntryFits(p)'
    BY <1>0, <1>8, <2>3, <2>4 DEF NotifyAppStateChange, FitTypes, Begin, monitorVars
  <2>5. QED
    BY <2>1, <2>2, <2>3, <2>4, BeginFits
<1>9. CASE AppStateChanges(p)
  BY <1>9 DEF AppStateChanges, FitInv, FitTypes, Fits, TakeTurns, CallbacksPending,
     VolumeFits, PidFits, BusyFits, EndedFits, monitorVars, callVars, callbackVars,
     volumeVars
<1>10. QED
  BY <1>1, <1>2, <1>3, <1>4, <1>5, <1>6, <1>7, <1>8, <1>9

(* With an id for every owner one is free for an application without timer. *)
LEMMA IdToSpare ==
    ASSUME EnoughIds, MonitorTypeOK, NEW o \in Owners, FreeIds = {},
           \A id \in Ids : idAllocator[id] # o,
           \A i, j \in Ids : idAllocator[i] = idAllocator[j] => i = j
    PROVE  FALSE
<1> DEFINE f == [id \in Ids |-> idAllocator[id]]
<1>1. IsFiniteSet(Ids) /\ Cardinality(Ids) = MaxCbId
  <2>1. Ids = 0 .. MaxCbId - 1 /\ MaxCbId \in Nat \ {0}
    BY MonitorAssumption DEF Ids
  <2>2. QED
    BY <2>1, FS_Interval
<1>2. IsFiniteSet(Owners \ {o}) /\ Cardinality(Owners \ {o}) = Cardinality(Owners) - 1
  BY FS_RemoveElement DEF EnoughIds
<1>3. f \in [Ids -> Owners \ {o}]
  BY DEF MonitorTypeOK, FreeIds
<1>4. \A i, j \in Ids : f[i] = f[j] => i = j
  OBVIOUS
<1>5. Cardinality(Owners) \in Nat
  BY FS_CardinalityType DEF EnoughIds
<1>6. Cardinality(Owners \ {o}) < Cardinality(Ids)
  BY <1>1, <1>2, <1>5, MonitorAssumption DEF EnoughIds
<1> HIDE DEF f
<1>7. QED
  BY <1>1, <1>2, <1>3, <1>4, <1>6, FS_PigeonHole

(* StopMonitor and StartMonitor, step by step.                              *)
LEMMA CallStepKeepsFit == FitInv /\ IdsInv /\ CallStep => FitInv'
<1> SUFFICES ASSUME FitInv, IdsInv, CallStep PROVE FitInv'
  OBVIOUS
<1> USE Constants DEF InCall, callbackVars, volumeVars
<1>0. FitTypes /\ IdTypes
  BY DEF FitInv, IdsInv
<1> PICK me \in Pids : me = spid
  BY <1>0 DEF IdTypes
<1>1. FitTypes'
  BY <1>0 DEF FitTypes, CallStep, StopMonitor, StopUnRegister, StartMonitor,
     StartAllocate, StartEnter, StartMap, Stopped, Return
<1> SUFFICES ASSUME ~ overlap PROVE Fits'
  BY <1>1 DEF FitInv, CallStep, StopMonitor, StopUnRegister, StartMonitor,
     StartAllocate, StartEnter, StartMap
<1>2. spc # "idle"
  BY DEF CallStep, StopMonitor, StopUnRegister, StartMonitor, StartAllocate,
     StartEnter, StartMap
<1>3. Fits /\ ~ CallbacksPending /\ \A id \in Ids : IdAgrees(id)
  BY <1>2 DEF FitInv, IdsInv, Fits, TakeTurns
<1>4. \A p \in Pids : fired[p] + removing[p] = 0
  <2> TAKE p \in Pids
  <2>1. fired[p] \in Nat /\ removing[p] \in Nat /\ ~ (fired[p] + removing[p] > 0)
    BY <1>0, <1>3 DEF CallbacksPending, FitTypes
  <2>2. QED
    BY <2>1
<1>5. BusyFits(spid) /\ \A p \in Pids \ {spid} : RestFits(p)
  BY <1>0, <1>2, <1>3, <1>4 DEF Fits, PidFits, IdTypes
<1>6. fired' = fired /\ removing' = removing /\ ~ CallbacksPending'
  BY <1>3 DEF CallbacksPending, CallStep, StopMonitor, StopUnRegister, StartMonitor,
     StartAllocate, StartEnter, StartMap
<1>7. ASSUME ~ stolen', CallFits', VolumeFits',
             \A p \in Pids \ {spid} : RestFits(p)',
             spc' # "idle" => spid' = spid /\ BusyFits(me)',
             spc' = "idle" => RestFits(me)'
      PROVE  Fits'
  BY <1>0, <1>4, <1>6, <1>7 DEF Fits, TakeTurns, PidFits, IdTypes
<1>8. CASE StopMonitor
  <2>1. ~ stolen' /\ VolumeFits' /\ CallFits'
    BY <1>0, <1>3, <1>8 DEF StopMonitor, Stopped, Return, Fits, VolumeFits, CallFits,
       Timers, monitorVars, Idle, Empty, NeedsTimer
  <2>2. \A p \in Pids \ {spid} : RestFits(p)'
    BY <1>0, <1>5, <1>8 DEF StopMonitor, RestFits, EntryFits, Timers, monitorVars,
       Idle, Empty, IdTypes
  <2>3. spc' # "idle" => spid' = spid /\ BusyFits(me)'
    BY <1>0, <1>5, <1>8 DEF StopMonitor, Stopped, Return, BusyFits, EntryFits, Timers,
       monitorVars, IdTypes
  <2>4. spc' = "idle" => RestFits(me)'
    BY <1>0, <1>3, <1>5, <1>8 DEF StopMonitor, Stopped, Return, BusyFits, RestFits,
       EntryFits, Timers, monitorVars, IdTypes, Fits, CallFits, Idle, Empty, NeedsTimer
  <2>5. QED
    BY <1>7, <2>1, <2>2, <2>3, <2>4
<1>9. CASE StopUnRegister
  <2>1. sid \in Ids /\ Timers(spid) = {sid} /\ idAllocator[sid] = spid
        /\ pidCbIdMap[spid] = Invalid
    BY <1>0, <1>3, <1>5, <1>9 DEF StopUnRegister, BusyFits, IdTypes, IdAgrees, Timers
  <2>2. Timers(me)' = {} /\ \A o \in Owners \ {spid} : Timers(o)' = Timers(o)
    BY <1>0, <1>9, <2>1 DEF StopUnRegister, UnRegisterCallback, Timers, IdTypes,
       MonitorTypeOK
  <2>3. ~ stolen' /\ CallFits'
    BY <1>0, <1>3, <1>9, <2>1 DEF StopUnRegister, UnRegisterCallback, Stopped, Return,
       Fits, CallFits, Idle, Empty, NeedsTimer
  <2>4. VolumeFits'
    BY <1>0, <1>3, <1>9, <2>1, <2>2 DEF StopUnRegister, UnRegisterCallback, Fits,
       VolumeFits, IdTypes, MonitorTypeOK
  <2>5. \A p \in Pids \ {spid} : RestFits(p)'
    BY <1>5, <1>9, <2>2 DEF StopUnRegister, RestFits, EntryFits, Idle, Empty
  <2>6. spc' # "idle" => spid' = spid /\ BusyFits(me)'
    BY <1>9, <2>1, <2>2 DEF StopUnRegister, Stopped, Return, BusyFits, EntryFits
  <2>7. spc' = "idle" => RestFits(me)'
    BY <1>0, <1>3, <1>9, <2>1, <2>2 DEF StopUnRegister, Stopped, Return, RestFits,
       EntryFits, Fits, CallFits, Idle, Empty, NeedsTimer, FitTypes, IdTypes
  <2>8. QED
    BY <1>7, <2>3, <2>4, <2>5, <2>6, <2>7
<1>10. CASE StartMonitor
  <2>1. ~ stolen' /\ VolumeFits' /\ CallFits'
    BY <1>0, <1>3, <1>10 DEF StartMonitor, Return, Fits, VolumeFits, CallFits, Timers,
       monitorVars, Idle, Empty
  <2>2. \A p \in Pids \ {spid} : RestFits(p)'
    BY <1>5, <1>10 DEF StartMonitor, RestFits, EntryFits, Timers, monitorVars, Idle,
       Empty
  <2>3. spc' # "idle" => spid' = spid /\ BusyFits(me)'
    BY <1>5, <1>10 DEF StartMonitor, Return, BusyFits, EntryFits, Timers, monitorVars
  <2>4. spc' = "idle" => RestFits(me)'
    BY <1>3, <1>5, <1>10 DEF StartMonitor, Return, BusyFits, RestFits, EntryFits,
       Timers, monitorVars, Fits, CallFits, Idle, Empty
  <2>5. QED
    BY <1>7, <2>1, <2>2, <2>3, <2>4
<1>11. CASE StartAllocate
  <2>1. UNCHANGED monitoredObj /\ \A o \in Owners : Timers(o)' = Timers(o)
    BY <1>11 DEF StartAllocate, AllocateCbId, Timers
  <2>2. LowestFree # Invalid => LowestFree \in Ids /\ idAllocator[LowestFree] = Nobody
    BY LowestIsFree DEF FreeIds
  <2>3. ~ stolen' /\ CallFits'
    BY <1>0, <1>3, <1>11 DEF StartAllocate, AllocateCbId, Return, Fits, CallFits, Idle,
       Empty
  <2>4. VolumeFits'
    BY <1>0, <1>3, <1>6, <1>11, <2>1 DEF StartAllocate, Fits, VolumeFits,
       CallbacksPending, FitTypes
  <2>5. \A p \in Pids \ {spid} : RestFits(p)'
    BY <1>5, <1>11, <2>1 DEF StartAllocate, RestFits, EntryFits, Idle, Empty
  <2>6. spc' # "idle" => spid' = spid /\ BusyFits(me)'
    BY <1>0, <1>5, <1>11, <2>1 DEF StartAllocate, Return, BusyFits, IdTypes
  <2>7. ASSUME EnoughIds, LowestFree = Invalid PROVE FALSE
    <3>1. FreeIds = {}
      BY <2>7, LowestFreeIsInvalid
    <3>2. \A id \in Ids : idAllocator[id] # spid
      BY <1>0, <1>3, <1>5, <1>11 DEF StartAllocate, BusyFits, Timers, IdAgrees,
         SessionEnters, VolumeEnters, IdTypes
    <3>3. \A i, j \in Ids : idAllocator[i] = idAllocator[j] => i = j
      <4> SUFFICES ASSUME NEW i \in Ids, NEW j \in Ids, idAllocator[i] = idAllocator[j]
                   PROVE  i = j
        OBVIOUS
      <4>1. idAllocator[i] \in Owners
        BY <1>0, <3>1 DEF IdTypes, MonitorTypeOK, FreeIds
      <4>2. CASE VolumeEnters(i) \/ VolumeEnters(j)
        BY <1>0, <1>3, <1>11, <4>1, <4>2 DEF StartAllocate, IdAgrees, SessionEnters,
           VolumeEnters, Fits, VolumeFits, Timers
      <4>3. CASE ~ VolumeEnters(i) /\ ~ VolumeEnters(j)
        <5>1. {i, j} \subseteq Timers(idAllocator[i])
          BY <1>3, <1>11, <4>1, <4>3 DEF StartAllocate, IdAgrees, SessionEnters, Timers
        <5>2. \A p \in Pids \ {spid} : Timers(p) = {pidCbIdMap[p]} \ {Invalid}
          BY <1>5 DEF RestFits, EntryFits
        <5>3. Timers(Volume) = {} \/ Timers(Volume) = {vid} \ {Invalid}
          BY <1>0, <1>3 DEF Fits, VolumeFits, FitTypes, CallbacksPending
        <5>4. idAllocator[i] \in (Pids \ {spid}) \cup {Volume}
          BY <3>2, <4>1, SessionAssumption
        <5>5. QED
          BY <5>1, <5>2, <5>3, <5>4
      <4>4. QED
        BY <4>2, <4>3
    <3>4. QED
      BY <1>0, <2>7, <3>1, <3>2, <3>3, IdToSpare DEF IdTypes
  <2>8. spc' = "idle" => RestFits(me)'
    BY <1>0, <1>3, <1>5, <1>11, <2>1, <2>7 DEF StartAllocate, Return, BusyFits,
       RestFits, EntryFits, Idle, IdTypes
  <2>9. QED
    BY <1>7, <2>3, <2>4, <2>5, <2>6, <2>8
<1>12. CASE StartEnter
  <2>1. sid \in Ids /\ monitoredObj[sid] = Nobody /\ Timers(spid) = {}
        /\ pidCbIdMap[spid] = Invalid
    BY <1>0, <1>3, <1>5, <1>12 DEF StartEnter, BusyFits, IdTypes, IdAgrees,
       SessionEnters
  <2>2. Timers(me)' = {sid} /\ \A o \in Owners \ {spid} : Timers(o)' = Timers(o)
    BY <1>0, <1>12, <2>1 DEF StartEnter, Enter, Timers, IdTypes, MonitorTypeOK
  <2>3. ~ stolen' /\ CallFits'
    BY <1>3, <1>12 DEF StartEnter, Enter, Fits, CallFits, Idle, Empty
  <2>4. VolumeFits'
    BY <1>0, <1>3, <1>12, <2>2 DEF StartEnter, Enter, Fits, VolumeFits, IdTypes
  <2>5. \A p \in Pids \ {spid} : RestFits(p)'
    BY <1>5, <1>12, <2>2 DEF StartEnter, RestFits, EntryFits, Idle, Empty
  <2>6. spc' = "map" /\ spid' = spid /\ BusyFits(me)'
    BY <1>12, <2>1, <2>2 DEF StartEnter, BusyFits
  <2>7. QED
    BY <1>7, <2>3, <2>4, <2>5, <2>6
<1>13. CASE StartMap
  <2>1. sid \in Ids /\ Timers(spid) = {sid}
    BY <1>0, <1>5, <1>13 DEF StartMap, BusyFits, IdTypes
  <2>2. ~ stolen' /\ VolumeFits' /\ CallFits'
    BY <1>3, <1>13 DEF StartMap, Return, Fits, VolumeFits, CallFits, Timers,
       monitorVars, Idle, Empty
  <2>3. \A p \in Pids \ {spid} : RestFits(p)'
    BY <1>0, <1>5, <1>13 DEF StartMap, RestFits, EntryFits, Timers, monitorVars, Idle,
       Empty, IdTypes
  <2>4. spc' = "idle" /\ RestFits(me)'
    BY <1>0, <1>3, <1>13, <2>1 DEF StartMap, Return, RestFits, EntryFits, Timers,
       monitorVars, Fits, CallFits, Idle, Empty, IdTypes
  <2>5. QED
    BY <1>7, <2>2, <2>3, <2>4
<1>14. QED
  BY <1>8, <1>9, <1>10, <1>11, <1>12, <1>13 DEF CallStep

(* A timer that ends between calls leaves its owner to be called back.      *)
LEMMA TimerKeepsFit == ASSUME FitInv, IdsInv, NEW i \in Ids, TimerEnds(i) PROVE FitInv'
<1> USE Constants DEF TimerEnds, Expire, sessionVars, callVars, callbackVars
<1>0. FitTypes /\ IdTypes
  BY DEF FitInv, IdsInv
<1> PICK o \in Owners : o = monitoredObj[i]
  BY <1>0 DEF IdTypes, MonitorTypeOK
<1>1. FitTypes'
  BY <1>0, SessionAssumption DEF FitTypes
<1> SUFFICES ASSUME ~ overlap' PROVE Fits'
  BY <1>1 DEF FitInv
<1>2. ~ overlap /\ spc = "idle" /\ vpc = "idle" /\ Fits
  BY <1>0 DEF FitInv, FitTypes
<1>3. Timers(o)' = Timers(o) \ {i} /\ \A u \in Owners \ {o} : Timers(u)' = Timers(u)
  BY <1>0 DEF Timers, IdTypes, MonitorTypeOK
<1>4. i \in Timers(o)
  BY DEF Timers
<1>5. idAllocator[i] = o
  BY <1>2 DEF IdsInv, IdAgrees, Fits
<1>6. ~ stolen' /\ CallFits' /\ TakeTurns'
  BY <1>2 DEF Fits, CallFits, TakeTurns, Idle, Empty
<1>7. \A p \in Pids \ {o} : PidFits(p)'
  BY <1>0, <1>2, <1>3 DEF FitTypes, Fits, PidFits, BusyFits, RestFits, EndedFits,
     EntryFits, Idle, Empty
<1>8. CASE o = Volume
  <2>1. vfired = 0 /\ Timers(o) = {vid} \ {Invalid}
    BY <1>0, <1>2, <1>4, <1>8 DEF Fits, VolumeFits, FitTypes
  <2>2. Timers(o)' = {} /\ (vid # Invalid => idAllocator'[vid] = Nobody)
    BY <1>0, <1>3, <1>4, <2>1 DEF IdTypes, MonitorTypeOK
  <2>3. VolumeFits'
    BY <1>2, <1>8, <2>1, <2>2 DEF VolumeFits
  <2>4. QED
    BY <1>2, <1>6, <1>7, <1>8, <2>3 DEF Fits
<1>9. CASE o # Volume
  <2>1. o \in Pids /\ fired[o] \in Nat /\ removing[o] \in Nat
    BY <1>0, <1>9, SessionAssumption DEF FitTypes
  <2>2. fired[o] + removing[o] = 0 /\ RestFits(o)
    BY <1>2, <1>4, <2>1 DEF Fits, PidFits, EndedFits
  <2>3. Timers(o)' = {} /\ Empty(o)
    BY <1>3, <1>4, <2>2 DEF RestFits, EntryFits
  <2>4. fired'[o] > 0 /\ removing'[o] = removing[o]
    BY <1>0, <1>9, <2>1 DEF FitTypes
  <2>5. fired'[o] + removing'[o] > 0 /\ fired'[o] # 0
    BY <2>1, <2>4, <1>1 DEF FitTypes
  <2>6. PidFits(o)'
    BY <2>3, <2>5 DEF PidFits, EndedFits, Empty
  <2>7. VolumeFits'
    BY <1>0, <1>2, <1>3, <1>5, <1>9 DEF Fits, VolumeFits, IdTypes, MonitorTypeOK
  <2>8. QED
    BY <1>2, <1>6, <1>7, <2>6, <2>7 DEF Fits
<1>10. QED
  BY <1>8, <1>9

(* A session is ended by the callback of its timer, then its entry erased.  *)
LEMMA CallbacksKeepFit ==
    ASSUME FitInv, IdsInv, NEW p \in Pids, Callbacks(p) PROVE FitInv'
<1> USE DEF Callbacks, OnAudioSessionTimeOut, RemoveFromMonitorMap, Erase,
            monitorVars, callVars, volumeVars
<1>0. FitTypes /\ IdTypes
  BY DEF FitInv, IdsInv
<1>1. FitTypes'
  <2>1. CASE OnAudioSessionTimeOut(p)
    <3>1. fired[p] - 1 \in Nat /\ removing[p] + 1 \in Nat
      BY <1>0, <2>1 DEF FitTypes
    <3>2. QED
      BY <1>0, <2>1, <3>1 DEF FitTypes
  <2>2. CASE RemoveFromMonitorMap(p)
    <3>1. removing[p] - 1 \in Nat
      BY <1>0, <2>2 DEF FitTypes
    <3>2. QED
      BY <1>0, <2>2, <3>1 DEF FitTypes
  <2>3. QED
    BY <2>1, <2>2
<1> SUFFICES ASSUME ~ overlap' PROVE Fits'
  BY <1>1 DEF FitInv
<1>2. ~ overlap /\ Fits
  BY DEF FitInv
<1>3. fired[p] \in Nat /\ removing[p] \in Nat /\ fired[p] + removing[p] > 0
  BY <1>0 DEF FitTypes
<1>4. CallbacksPending /\ spc = "idle" /\ vpc = "idle" /\ spc' = spc /\ vpc' = vpc
  BY <1>2, <1>3 DEF CallbacksPending, Fits, TakeTurns
<1>5. \A o : Timers(o)' = Timers(o)
  BY DEF Timers
<1>6. ~ stolen' /\ CallFits' /\ TakeTurns' /\ VolumeFits'
  BY <1>2, <1>4, <1>5 DEF Fits, CallFits, TakeTurns, VolumeFits, Idle, Empty
<1>7. \A q \in Pids \ {p} : PidFits(q)'
  BY <1>0, <1>2, <1>4, <1>5 DEF FitTypes, IdTypes, Fits, PidFits, BusyFits, RestFits,
     EndedFits, EntryFits, Idle, Empty
<1>8. EndedFits(p)
  BY <1>2, <1>3 DEF Fits, PidFits
<1>9. CASE OnAudioSessionTimeOut(p)
  <2>1. fired'[p] + removing'[p] > 0 /\ state'[p] = "none" /\ Empty(p)'
    BY <1>0, <1>3, <1>9 DEF FitTypes, Empty
  <2>2. PidFits(p)'
    BY <1>5, <1>8, <2>1 DEF PidFits, EndedFits
  <2>3. QED
    BY <1>2, <1>6, <1>7, <2>2 DEF Fits
<1>10. CASE RemoveFromMonitorMap(p)
  <2>1. pidCbIdMap'[p] = Invalid /\ state' = state /\ streams' = streams
        /\ fired'[p] = fired[p] /\ fired[p] \in Nat /\ removing'[p] \in Nat
    BY <1>0, <1>1, <1>10 DEF FitTypes, IdTypes
  <2>2. fired'[p] + removing'[p] = 0 => fired[p] = 0
    BY <1>3, <2>1
  <2>3. PidFits(p)'
    BY <1>4, <1>5, <1>8, <2>1, <2>2 DEF PidFits, EndedFits, RestFits, EntryFits, Empty,
       Idle
  <2>4. QED
    BY <1>2, <1>6, <1>7, <2>3 DEF Fits
<1>11. QED
  BY <1>9, <1>10

(* What the volume manager does leaves the applications' timers alone.      *)
LEMMA VolumeFrame ==
    ASSUME FitInv, IdsInv, FitTypes', UNCHANGED <<sessionVars, callVars, callbackVars>>,
           ~ overlap' => /\ ~ overlap /\ ~ stolen' /\ TakeTurns' /\ VolumeFits'
                        /\ \A p \in Pids : Timers(p)' = Timers(p)
    PROVE  FitInv'
<1> SUFFICES ASSUME ~ overlap' PROVE Fits'
  BY DEF FitInv
<1> USE DEF sessionVars, callVars, callbackVars
<1>1. Fits /\ ~ stolen' /\ TakeTurns' /\ VolumeFits'
      /\ \A p \in Pids : Timers(p)' = Timers(p)
  BY DEF FitInv
<1>2. CallFits'
  BY <1>1 DEF Fits, CallFits, Idle, Empty
<1>3. \A p \in Pids : PidFits(p)'
  BY <1>1 DEF Fits, PidFits, BusyFits, RestFits, EndedFits, EntryFits, Idle, Empty
<1>4. QED
  BY <1>1, <1>2, <1>3 DEF Fits

(* The volume manager, called or called back.                               *)
LEMMA VolumeKeepsFit ==
    ASSUME FitInv, IdsInv,
           \/ \E on \in BOOLEAN : ForceVolumeKeyControlType(on)
           \/ VolumeCall \/ VolumeCallback
    PROVE  FitInv'
<1> USE Constants DEF VolumeStep, sessionVars, callVars, callbackVars
<1>0. FitTypes /\ IdTypes
  BY DEF FitInv, IdsInv
<1>1. ~ overlap => Fits /\ \A id \in Ids : IdAgrees(id)
  BY DEF FitInv, IdsInv, Fits
<1>2. ASSUME NEW on \in BOOLEAN, ForceVolumeKeyControlType(on) PROVE FitInv'
  <2> USE <1>2 DEF ForceVolumeKeyControlType
  <2>1. FitTypes'
    BY <1>0 DEF FitTypes
  <2>2. ASSUME ~ overlap'
        PROVE  /\ ~ overlap /\ ~ stolen' /\ TakeTurns' /\ VolumeFits'
               /\ \A p \in Pids : Timers(p)' = Timers(p)
    <3>1. ~ overlap /\ ~ CallbacksPending /\ ~ CallbacksPending'
      BY <2>2 DEF CallbacksPending
    <3>2. ~ stolen /\ Timers(Volume) = {vid} \ {Invalid} /\ vfired = 0
      BY <1>0, <1>1, <3>1 DEF Fits, VolumeFits, CallbacksPending, FitTypes
    <3>3. CASE vid = Invalid
      BY <3>1, <3>2, <3>3 DEF VolumeFits, TakeTurns, Timers, monitorVars
    <3>4. CASE vid # Invalid
      <4>1. vid \in Ids /\ monitoredObj[vid] = Volume /\ idAllocator[vid] = Volume
        BY <1>0, <1>1, <3>1, <3>2, <3>4 DEF IdTypes, IdAgrees, Timers
      <4>2. \A o \in Owners :
              Timers(o)' = IF o = Volume THEN {} ELSE Timers(o)
        BY <1>0, <3>2, <3>4, <4>1 DEF UnRegisterCallback, Timers, IdTypes, MonitorTypeOK
      <4>3. ~ stolen'
        BY <3>2, <3>4, <4>1 DEF UnRegisterCallback
      <4>4. QED
        BY <3>1, <3>2, <4>2, <4>3 DEF VolumeFits, TakeTurns
    <3>5. QED
      BY <3>3, <3>4
  <2>3. QED
    BY <2>1, <2>2, VolumeFrame
<1>3. CASE VolumeAllocate
  <2> USE <1>3 DEF VolumeAllocate, AllocateCbId
  <2>1. FitTypes'
    BY <1>0 DEF FitTypes
  <2>2. ASSUME ~ overlap'
        PROVE  /\ ~ overlap /\ ~ stolen' /\ TakeTurns' /\ VolumeFits'
               /\ \A p \in Pids : Timers(p)' = Timers(p)
    <3>1. ~ overlap /\ ~ stolen /\ ~ CallbacksPending /\ ~ CallbacksPending'
      BY <1>1, <2>2 DEF Fits, TakeTurns, CallbacksPending
    <3>2. vfired = 0 /\ Timers(Volume) = {} /\ vid = Invalid
      BY <1>0, <1>1, <3>1 DEF Fits, VolumeFits, CallbacksPending, FitTypes
    <3>3. QED
      BY <3>1, <3>2 DEF VolumeFits, TakeTurns, Timers
  <2>3. QED
    BY <2>1, <2>2, VolumeFrame
<1>4. CASE VolumeEnter
  <2> USE <1>4 DEF VolumeEnter, Enter
  <2>1. FitTypes'
    BY <1>0 DEF FitTypes
  <2>2. ASSUME ~ overlap'
        PROVE  /\ ~ overlap /\ ~ stolen' /\ TakeTurns' /\ VolumeFits'
               /\ \A p \in Pids : Timers(p)' = Timers(p)
    <3>1. ~ overlap /\ ~ stolen /\ ~ CallbacksPending /\ ~ CallbacksPending'
      BY <1>1, <2>2 DEF Fits, TakeTurns, CallbacksPending
    <3>2. vfired = 0 /\ Timers(Volume) = {}
      BY <1>0, <1>1, <3>1 DEF Fits, VolumeFits, CallbacksPending, FitTypes
    <3>3. vnew \in Ids /\ monitoredObj[vnew] = Nobody
      BY <1>0, <1>1, <3>1 DEF IdTypes, IdAgrees, VolumeEnters
    <3>4. \A o \in Owners : Timers(o)' = IF o = Volume THEN {vnew} ELSE Timers(o)
      BY <1>0, <3>2, <3>3 DEF Timers, IdTypes, MonitorTypeOK
    <3>5. QED
      BY <3>1, <3>2, <3>3, <3>4 DEF VolumeFits, TakeTurns
  <2>3. QED
    BY <2>1, <2>2, VolumeFrame
<1>5. CASE VolumeOnTimeOut
  <2> USE <1>5 DEF VolumeOnTimeOut
  <2>1. FitTypes'
    <3>1. vfired - 1 \in Nat /\ vexpiring + 1 \in Nat
      BY <1>0 DEF FitTypes
    <3>2. QED
      BY <1>0, <3>1 DEF FitTypes
  <2>2. ASSUME ~ overlap'
        PROVE  /\ ~ overlap /\ ~ stolen' /\ TakeTurns' /\ VolumeFits'
               /\ \A p \in Pids : Timers(p)' = Timers(p)
    <3>1. ~ overlap /\ ~ stolen /\ spc = "idle" /\ Timers(Volume) = {}
      BY <1>0, <1>1, <2>2
      DEF Fits, TakeTurns, VolumeFits, CallbacksPending, FitTypes
    <3>2. vid # Invalid =>
            vid \in Ids /\ idAllocator[vid] = Nobody /\ monitoredObj[vid] = Nobody
      BY <1>0, <1>1, <3>1 DEF Fits, VolumeFits, IdTypes, IdAgrees, MonitorTypeOK
    <3>3. ~ stolen' /\ \A o \in Owners : Timers(o)' = Timers(o)
      BY <1>0, <3>1, <3>2
      DEF UnRegisterCallback, Timers, IdTypes, MonitorTypeOK, monitorVars
    <3>4. QED
      BY <3>1, <3>3 DEF VolumeFits, TakeTurns
  <2>3. QED
    BY <2>1, <2>2, VolumeFrame
<1>6. CASE OnTimerExpired
  <2> USE <1>6 DEF OnTimerExpired
  <2>1. FitTypes'
    <3>1. vexpiring - 1 \in Nat
      BY <1>0 DEF FitTypes
    <3>2. QED
      BY <1>0, <3>1 DEF FitTypes
  <2>2. ASSUME ~ overlap'
        PROVE  /\ ~ overlap /\ ~ stolen' /\ TakeTurns' /\ VolumeFits'
               /\ \A p \in Pids : Timers(p)' = Timers(p)
    <3>1. ~ overlap /\ CallbacksPending
      BY <1>0, <2>2 DEF CallbacksPending, FitTypes
    <3>2. QED
      BY <1>1, <3>1 DEF Fits, TakeTurns, VolumeFits, Timers, monitorVars
  <2>3. QED
    BY <2>1, <2>2, VolumeFrame
<1>7. QED
  BY <1>2, <1>3, <1>4, <1>5, <1>6 DEF VolumeCall, VolumeCallback

(* Timers fit sessions in every state, on top of the ids.                   *)
LEMMA FitInvHolds == Spec => [](FitInv /\ IdsInv)
<1>1. IdsInv /\ FitInv /\ [Next]_vars => FitInv'
  <2> SUFFICES ASSUME IdsInv, FitInv, [Next]_vars PROVE FitInv'
    OBVIOUS
  <2>1. CASE UNCHANGED vars
    BY <2>1 DEF vars, FitInv, FitTypes, Fits, TakeTurns, CallbacksPending, CallFits,
       VolumeFits, PidFits, BusyFits, RestFits, EndedFits, EntryFits, Timers, Idle,
       Empty, monitorVars, sessionVars, callVars, callbackVars, volumeVars
  <2>2. CASE Next
    BY <2>2, CallsKeepFit, CallStepKeepsFit, TimerKeepsFit, CallbacksKeepFit,
       VolumeKeepsFit DEF Next
  <2>3. QED
    BY <2>1, <2>2
<1>2. Spec => []IdsInv
  BY IdsInvInit, IdsInvIsInductive, PTL DEF Spec
<1>3. QED
  BY FitInvInit, <1>1, <1>2, PTL DEF Spec

(* For any number of applications, as long as the ids suffice: between      *)
(* calls that no callback has met, the session service knows of exactly the *)
(* timers there are (pidCbIdMap_ against the monitor's ids), a timer runs   *)
(* for empty sessions only, and always for an active v1 session.            *)
THEOREM TimersFitSessions == ASSUME EnoughIds PROVE Spec => []TimerFitsSession
<1>1. FitInv => TimerFitsSession
  <2> SUFFICES ASSUME FitInv, spc = "idle", ~ overlap, ~ CallbacksPending,
                      NEW p \in Pids
               PROVE  RestFits(p)
    BY EnoughIds DEF TimerFitsSession, RestFits, EntryFits, Timers, Idle
  <2>1. fired[p] \in Nat /\ removing[p] \in Nat /\ ~ (fired[p] + removing[p] > 0)
    BY DEF CallbacksPending, FitInv, FitTypes
  <2>2. QED
    BY <2>1 DEF FitInv, Fits, PidFits
<1>2. QED
  BY <1>1, FitInvHolds, PTL

(* For any number of applications: OnAudioSessionTimeOut, which does not    *)
(* look, ends only a session without streams, unless a call has overlapped  *)
(* a callback.                                                              *)
THEOREM TimeoutsEndEmptySessions == Spec => TimeoutEndsEmpty
<1>1. FitInv /\ [Next]_vars =>
        [\A p \in Pids : TimesOut(p) /\ ~overlap => Empty(p)]_vars
  <2> SUFFICES ASSUME FitInv, NEW p \in Pids, TimesOut(p), ~ overlap PROVE Empty(p)
    OBVIOUS
  <2>1. fired[p] + removing[p] > 0
    BY DEF FitInv, FitTypes, TimesOut
  <2>2. QED
    BY <2>1 DEF FitInv, Fits, PidFits, EndedFits
<1>2. QED
  BY <1>1, FitInvHolds, PTL DEF Spec, TimeoutEndsEmpty
=============================================================================
