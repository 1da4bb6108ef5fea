------------------------ MODULE AudioEndpoint_proofs ------------------------
(***************************************************************************)
(* Proofs about the endpoint, for any set of streams, whether or not the   *)
(* device fails and whether or not clients go on after a race.  The        *)
(* invariant has four parts, each of which rests on those before it: who   *)
(* holds which lock, who is on which list, when the endpoint is there, and *)
(* what its status says.                                                   *)
(***************************************************************************)
EXTENDS AudioEndpoint, TLAPS

Linking == {"wait", "unlinked?", "device", "starting", "failed", "idel?", "add", "linked"}
Unlinking == {"unlink", "stop", "unlinked"}

\* Each lock has one holder.
Locks ==
    /\ \A p, q \in Procs : pc[p] \in {"device", "starting"} /\ pc[q] \in {"device", "starting"} => p = q
    /\ updater # "idle" => \A p \in Procs : pc[p] \notin {"device", "starting"}
    /\ svc.at \in {"starting", "stop"} => marked = Loop /\ \A p \in Procs : pc[p] # "starting"
    /\ marked # Loop => \A p \in Procs : pc[p] # "starting"

\* The lists agree with what the service is doing, and calls come from linked streams.
Lists ==
    /\ svc.at = "free" <=> svc.who = Loop
    /\ svc.at \in Linking => svc.who \notin paired
    /\ svc.at \in Unlinking => svc.who \in paired
    /\ svc.at \in {"stop"} => list = {}
    /\ svc.at = "unlinked" => svc.who \notin list
    /\ marked # Loop => marked \in list /\ marked \in paired
    /\ \A p \in Procs : p \notin paired <=> stream[p] = "none"
    /\ "link" \notin hit =>
         /\ \A p \in paired : svc.who # p \/ svc.at = "unlink" => p \in list
         /\ svc.at = "linked" => svc.who \in list
    /\ "death" \notin hit =>
         \A p \in Procs : pc[p] # "idle" => p \in paired /\ p # svc.who

\* An endpoint that is not there, or that says it is unlinked, is used by nobody.
Used ==
    hit \cap {"link", "fail"} = {} =>
      /\ status = "unlinked" => list = {} /\ svc.at \notin {"device", "starting", "idel?", "add", "linked"}
      /\ status = "invalid" => /\ list = {} /\ paired = {} /\ svc.at = "free"
                               /\ Joined

\* What the status says is so.
Says ==
    hit = {} =>
      /\ svc.at \in {"device", "starting"} => list = {}
      /\ status = "starting" => svc.at = "starting" \/ \E r \in Procs : pc[r] = "starting"
      /\ status = "running" \/ (\E p \in Procs : pc[p] = "set") =>
           started \/ \E r \in Procs : pc[r] = "starting"
      /\ \A p \in list : Told(p) => status = "running"
      /\ \A p \in Procs : pc[p] = "device" => ~started /\ status = "idel"

Inv == TypeOK /\ Locks /\ Lists /\ Used /\ Says
-----------------------------------------------------------------------------
USE EndpointAssumption DEF epVars, svcVars, threads, Goto, Hits, At, Svc, Free, Races, Statuses

LEMMA FlagsStep ==
    ASSUME TypeOK, Next
    PROVE  started' \in BOOLEAN /\ armed' \in BOOLEAN /\ releasing' \in BOOLEAN
<1>0. started \in BOOLEAN /\ armed \in BOOLEAN /\ releasing \in BOOLEAN
  BY DEF TypeOK
<1>. DEFINE Flags == started' \in BOOLEAN /\ armed' \in BOOLEAN /\ releasing' \in BOOLEAN
<1>1. ASSUME NEW p \in Procs, Client(p) \/ CheckAllBufferReady(p) PROVE Flags
  <2>1. CASE GetAudioProcess(p)
    BY <1>0, <2>1, Zenon DEF GetAudioProcess
  <2>2. CASE Start(p) \/ Pause(p) \/ OnProcessRelease(p) \/ CheckAllBufferReady(p)
    <3>1. UNCHANGED <<started, armed, releasing>>
      BY <2>2, Zenon DEF Start, Pause, OnProcessRelease, CheckAllBufferReady
    <3>. QED BY <1>0, <3>1, Zenon
  <2>. QED BY <1>1, <2>1, <2>2 DEF Client
<1>2. ASSUME NEW p \in Procs, Server(p) PROVE Flags
  <2>1. CASE OnStart(p) \/ AskStarted(p) \/ StartDevice(p) \/ StartReturns(p) \/ PauseReturns(p)
             \/ ResumeRefused(p) \/ PauseRefused(p)
    <3>1. UNCHANGED <<started, armed, releasing>>
      BY <2>1, Zenon DEF OnStart, AskStarted, StartDevice, StartReturns, PauseReturns,
         ResumeRefused, PauseRefused
    <3>. QED BY <1>0, <3>1, Zenon
  <2>2. CASE DeviceStarts(p) \/ DeviceRefuses(p) \/ SetRunning(p)
    BY <1>0, <2>2, Zenon DEF DeviceStarts, DeviceRefuses, HandleStartDeviceFailed, SetRunning
  <2>. QED BY <1>2, <2>1, <2>2 DEF Server
<1>3. ASSUME NEW p \in Procs, Service(p) PROVE Flags
  <2>1. CASE \/ LinkProcessStream(p) \/ LinkStartDevice(p) \/ LinkIdel(p)
             \/ AddProcessStreamToList(p)
    <3>1. UNCHANGED <<started, armed, releasing>>
      BY <2>1, Zenon DEF LinkProcessStream, LinkStartDevice, LinkIdel, AddProcessStreamToList
    <3>. QED BY <1>0, <3>1, Zenon
  <2>2. CASE LinkUnlinked(p) \/ LinkDeviceStarts(p)
    BY <1>0, <2>2, Zenon DEF LinkUnlinked, LinkDeviceStarts
  <2>3. CASE LinkDeviceRefuses(p) \/ LinkFails(p)
    BY <1>0, <2>3, Zenon DEF LinkDeviceRefuses, HandleStartDeviceFailed, LinkFails
  <2>4. CASE Linked(p) \/ UnlinkProcessStream(p)
    BY <1>0, <2>4, Zenon DEF Linked, UnlinkProcessStream
  <2>5. CASE StopDevice(p) \/ Unlinked(p)
    BY <1>0, <2>5, Zenon DEF StopDevice, Unlinked
  <2>. QED BY <1>3, <2>1, <2>2, <2>3, <2>4, <2>5 DEF Service
<1>4. ASSUME NEW a \in Procs \cup {Loop}, Scan(a) PROVE Flags
  <2>1. CASE OnPause(a) \/ StoreScan(a) \/ EnableStandby
    <3>1. UNCHANGED <<started, armed, releasing>>
      BY <2>1, Zenon DEF OnPause, StoreScan, EnableStandby
    <3>. QED BY <1>0, <3>1, Zenon
  <2>2. CASE ArmDelayedStop(a)
    BY <1>0, <2>2, Zenon DEF ArmDelayedStop
  <2>. QED BY <1>4, <2>1, <2>2 DEF Scan
<1>5. CASE Updater \/ DelayCallReleaseEndpoint
  BY <1>0, <1>5, Zenon DEF Updater, IdelTooLong, DelayStopDevice, DelayStopped,
     DelayCallReleaseEndpoint
<1>. QED BY <1>1, <1>2, <1>3, <1>4, <1>5 DEF Next

LEMMA TypeStep == ASSUME TypeOK, Next PROVE TypeOK'
<1>0. started' \in BOOLEAN /\ armed' \in BOOLEAN /\ releasing' \in BOOLEAN
  BY FlagsStep, Zenon
<1>. USE DEF TypeOK, Next, Client, GetAudioProcess, Start, Pause, OnProcessRelease,
            CheckAllBufferReady, Stale, Ready, Server, OnStart, AskStarted, StartDevice, DeviceStarts,
            DeviceRefuses, HandleStartDeviceFailed, SetRunning, StartReturns,
            PauseReturns, ResumeRefused, PauseRefused, Scan, OnPause, StoreScan, ArmDelayedStop,
            EnableStandby, Service,
            LinkProcessStream, LinkUnlinked, LinkStartDevice, LinkDeviceStarts,
            LinkDeviceRefuses, LinkFails, LinkIdel, AddProcessStreamToList, Linked,
            UnlinkProcessStream, StopDevice, Unlinked, Updater, IdelTooLong,
            DelayStopDevice, DelayStopped, DelayCallReleaseEndpoint
<1>1. status' \in Statuses
  BY SMT
<1>2. list' \subseteq Procs /\ paired' \subseteq Procs
  BY SMT
<1>3. stream' \in [Procs -> {"none", "new", "starting", "running", "standby", "pausing", "paused"}]
  BY SMTT(30)
<1>4. pc' \in [Procs \cup {Loop} -> {"idle", "ask", "resume", "lock", "device", "starting",
                                     "set", "back", "halt", "stop", "storeRunning",
                                     "storeIdel", "arm", "halted"}]
  BY SMTT(30)
<1>5. svc' \in [at : {"free", "wait", "unlinked?", "device", "starting", "failed", "idel?", "add",
                     "linked", "unlink", "stop", "unlinked"}, who : Procs \cup {Loop}]
  BY SMTT(30)
<1>6. /\ updater' \in {"idle", "stopping", "stop"}
      /\ hit' \subseteq Races /\ marked' \in Procs \cup {Loop}
  BY SMTT(30)
<1>. QED BY <1>0, <1>1, <1>2, <1>3, <1>4, <1>5, <1>6 DEF TypeOK

LEMMA LocksStep == ASSUME TypeOK, Locks, Next PROVE Locks'
<1>1. ASSUME NEW p \in Procs, Client(p) \/ CheckAllBufferReady(p) PROVE Locks'
  BY <1>1, SMTT(30) DEF TypeOK, Locks, StartLocked, ListLocked, Client, GetAudioProcess, Start, Pause,
           OnProcessRelease, CheckAllBufferReady, Stale, Ready
<1>2. ASSUME NEW p \in Procs, Server(p) PROVE Locks'
  BY <1>2, SMTT(30) DEF TypeOK, Locks, StartLocked, ListLocked, Server, OnStart, AskStarted,
           StartDevice, DeviceStarts, DeviceRefuses, HandleStartDeviceFailed,
           SetRunning, StartReturns, PauseReturns, ResumeRefused, PauseRefused
<1>3. ASSUME NEW p \in Procs, Service(p) PROVE Locks'
  BY <1>3, SMTT(30) DEF TypeOK, Locks, StartLocked, ListLocked, Service, LinkProcessStream,
           LinkUnlinked, LinkStartDevice, LinkDeviceStarts, LinkDeviceRefuses,
           HandleStartDeviceFailed, LinkFails, LinkIdel, AddProcessStreamToList,
           Linked, UnlinkProcessStream, StopDevice, Unlinked
<1>4. ASSUME NEW a \in Procs \cup {Loop}, Scan(a) PROVE Locks'
  BY <1>4, SMTT(30) DEF TypeOK, Locks, StartLocked, ListLocked, Scan, OnPause, StoreScan,
           ArmDelayedStop, EnableStandby, Stale
<1>5. ASSUME Updater \/ DelayCallReleaseEndpoint PROVE Locks'
  BY <1>5, SMTT(30) DEF TypeOK, Locks, StartLocked, ListLocked, Updater, IdelTooLong, DelayStopDevice,
           DelayStopped, DelayCallReleaseEndpoint
<1>. QED BY <1>1, <1>2, <1>3, <1>4, <1>5 DEF Next

LEMMA ListsStep == ASSUME TypeOK, Lists, Next PROVE Lists'
<1>1. ASSUME NEW p \in Procs, Client(p) \/ CheckAllBufferReady(p) PROVE Lists'
  <2>. USE DEF TypeOK, Lists, Linking, Unlinking
  <2>1. CASE GetAudioProcess(p)
    BY <2>1, SMT DEF GetAudioProcess
  <2>2. CASE Start(p) \/ Pause(p)
    BY <2>2, SMT DEF Start, Pause, Ready
  <2>3. CASE OnProcessRelease(p)
    BY <2>3, SMT DEF OnProcessRelease
  <2>4. CASE CheckAllBufferReady(p)
    BY <2>4, SMT DEF CheckAllBufferReady, Stale
  <2>. QED BY <1>1, <2>1, <2>2, <2>3, <2>4 DEF Client
<1>2. ASSUME NEW p \in Procs, Server(p) PROVE Lists'
  BY <1>2, SMTT(30) DEF TypeOK, Lists, Linking, Unlinking, ListLocked, Server, OnStart, AskStarted,
           StartDevice, DeviceStarts, DeviceRefuses, HandleStartDeviceFailed,
           SetRunning, StartReturns, PauseReturns, ResumeRefused, PauseRefused
<1>3. ASSUME NEW p \in Procs, Service(p) PROVE Lists'
  BY <1>3, SMTT(30) DEF TypeOK, Lists, Linking, Unlinking, ListLocked, Service, LinkProcessStream,
           LinkUnlinked, LinkStartDevice, LinkDeviceStarts, LinkDeviceRefuses,
           HandleStartDeviceFailed, LinkFails, LinkIdel, AddProcessStreamToList,
           Linked, UnlinkProcessStream, StopDevice, Unlinked
<1>4. ASSUME NEW a \in Procs \cup {Loop}, Scan(a) PROVE Lists'
  BY <1>4, SMTT(30) DEF TypeOK, Lists, Linking, Unlinking, ListLocked, Scan, OnPause, StoreScan,
           ArmDelayedStop, EnableStandby, Stale
<1>5. ASSUME Updater \/ DelayCallReleaseEndpoint PROVE Lists'
  BY <1>5, SMTT(30) DEF TypeOK, Lists, Linking, Unlinking, ListLocked, Updater, IdelTooLong,
           DelayStopDevice, DelayStopped, DelayCallReleaseEndpoint
<1>. QED BY <1>1, <1>2, <1>3, <1>4, <1>5 DEF Next

LEMMA UsedStep == ASSUME TypeOK, Locks, Lists, Used, Next PROVE Used'
<1>1. ASSUME NEW p \in Procs, Client(p) \/ CheckAllBufferReady(p) PROVE Used'
  BY <1>1, SMTT(30) DEF TypeOK, Locks, Lists, Used, Linking, Unlinking, Joined, ListLocked, StartLocked,
           Client, GetAudioProcess, Start, Pause, OnProcessRelease, CheckAllBufferReady, Stale,
           Ready
<1>2. ASSUME NEW p \in Procs, Server(p) PROVE Used'
  BY <1>2, SMTT(30) DEF TypeOK, Locks, Lists, Used, Linking, Unlinking, Joined, ListLocked, StartLocked,
           Server, OnStart, AskStarted, StartDevice, DeviceStarts, DeviceRefuses,
           HandleStartDeviceFailed, SetRunning, StartReturns, PauseReturns, ResumeRefused, PauseRefused
<1>3. ASSUME NEW p \in Procs, Service(p) PROVE Used'
  BY <1>3, SMTT(30) DEF TypeOK, Locks, Lists, Used, Linking, Unlinking, Joined, ListLocked, StartLocked,
           Service, LinkProcessStream, LinkUnlinked, LinkStartDevice,
           LinkDeviceStarts, LinkDeviceRefuses, HandleStartDeviceFailed, LinkFails,
           LinkIdel, AddProcessStreamToList, Linked, UnlinkProcessStream,
           StopDevice, Unlinked
<1>4. ASSUME NEW a \in Procs \cup {Loop}, Scan(a) PROVE Used'
  BY <1>4, SMTT(30) DEF TypeOK, Locks, Lists, Used, Linking, Unlinking, Joined, ListLocked, StartLocked,
           Scan, OnPause, StoreScan, ArmDelayedStop, EnableStandby, Stale
<1>5. ASSUME Updater \/ DelayCallReleaseEndpoint PROVE Used'
  BY <1>5, SMTT(30) DEF TypeOK, Locks, Lists, Used, Linking, Unlinking, Joined, ListLocked, StartLocked,
           Updater, IdelTooLong, DelayStopDevice, DelayStopped,
           DelayCallReleaseEndpoint
<1>. QED BY <1>1, <1>2, <1>3, <1>4, <1>5 DEF Next

LEMMA SaysStep == ASSUME TypeOK, Locks, Lists, Used, Says, Next PROVE Says'
<1>1. ASSUME NEW p \in Procs, Client(p) \/ CheckAllBufferReady(p) PROVE Says'
  BY <1>1, SMTT(30) DEF TypeOK, Locks, Lists, Used, Says, Told, AnyRunning, Linking, Unlinking, Joined,
           ListLocked, StartLocked, Client, GetAudioProcess, Start, Pause,
           OnProcessRelease, CheckAllBufferReady, Stale, Ready
<1>2. ASSUME NEW p \in Procs, Server(p) PROVE Says'
  BY <1>2, SMTT(30) DEF TypeOK, Locks, Lists, Used, Says, Told, AnyRunning, Linking, Unlinking, Joined,
           ListLocked, StartLocked, Server, OnStart, AskStarted, StartDevice,
           DeviceStarts, DeviceRefuses, HandleStartDeviceFailed, SetRunning,
           StartReturns, PauseReturns, ResumeRefused, PauseRefused
<1>3. ASSUME NEW p \in Procs, Service(p) PROVE Says'
  BY <1>3, SMTT(30) DEF TypeOK, Locks, Lists, Used, Says, Told, AnyRunning, Linking, Unlinking, Joined,
           ListLocked, StartLocked, Service, LinkProcessStream, LinkUnlinked,
           LinkStartDevice, LinkDeviceStarts, LinkDeviceRefuses,
           HandleStartDeviceFailed, LinkFails, LinkIdel, AddProcessStreamToList,
           Linked, UnlinkProcessStream, StopDevice, Unlinked
<1>4. ASSUME NEW a \in Procs \cup {Loop}, Scan(a) PROVE Says'
  BY <1>4, SMTT(30) DEF TypeOK, Locks, Lists, Used, Says, Told, AnyRunning, Linking, Unlinking, Joined,
           ListLocked, StartLocked, Scan, OnPause, StoreScan,
           ArmDelayedStop, EnableStandby, Stale
<1>5. ASSUME Updater \/ DelayCallReleaseEndpoint PROVE Says'
  BY <1>5, SMTT(30) DEF TypeOK, Locks, Lists, Used, Says, Told, AnyRunning, Linking, Unlinking, Joined,
           ListLocked, StartLocked, Updater, IdelTooLong, DelayStopDevice,
           DelayStopped, DelayCallReleaseEndpoint
<1>. QED BY <1>1, <1>2, <1>3, <1>4, <1>5 DEF Next

-----------------------------------------------------------------------------
LEMMA InvHolds == Spec => []Inv
<1>1. Init => Inv
  <2>. SUFFICES ASSUME Init PROVE Inv
    OBVIOUS
  <2>1. TypeOK
    BY Zenon DEF Init, TypeOK
  <2>2. Locks /\ Lists /\ Used /\ Says
    BY SMT DEF Init, Locks, Lists, Used, Says, Linking, Unlinking, Joined, Told
  <2>. QED BY <2>1, <2>2 DEF Inv
<1>2. Inv /\ [Next]_vars => Inv'
  <2>1. ASSUME Inv, Next PROVE Inv'
    BY <2>1, TypeStep, LocksStep, ListsStep, UsedStep, SaysStep DEF Inv
  <2>2. ASSUME Inv, UNCHANGED vars PROVE Inv'
    <3>. USE <2>2 DEF vars
    <3>1. TypeOK'
      <4>1. started' \in BOOLEAN /\ armed' \in BOOLEAN /\ releasing' \in BOOLEAN
        BY Zenon DEF Inv, TypeOK
      <4>2. \/ ~(started' \in BOOLEAN /\ armed' \in BOOLEAN /\ releasing' \in BOOLEAN)
            \/ TypeOK'
        BY SMT DEF Inv, TypeOK
      <4>. QED BY <4>1, <4>2, Zenon
    <3>2. Locks'
      BY Zenon DEF Inv, Locks
    <3>3. Lists'
      BY SMT DEF Inv, Lists
    <3>4. (Used /\ Says)'
      BY SMT DEF Inv, Used, Says, Joined, Told
    <3>. QED BY <3>1, <3>2, <3>3, <3>4 DEF Inv
  <2>. QED BY <2>1, <2>2
<1>. QED BY <1>1, <1>2, PTL DEF Spec

\* Every variable keeps its type.
THEOREM TypeCorrect == Spec => []TypeOK
BY InvHolds, PTL DEF Inv

\* OnStart and UnlinkProcessStream never wait for each other's lock, as long as clients
\* live and every linked stream was put on the list.
THEOREM NobodyWaitsInACircle == Spec => []LocksInOneOrder
<1>1. Inv => LocksInOneOrder
  BY SMT DEF Inv, TypeOK, Lists, LocksInOneOrder
<1>. QED BY <1>1, InvHolds, PTL

\* The delayed release never takes the endpoint from a linked stream.
THEOREM ReleaseIsOfUnused == Spec => []NothingInUseReleased
<1>1. Inv => NothingInUseReleased
  BY SMT DEF Inv, TypeOK, Used, NothingInUseReleased
<1>. QED BY <1>1, InvHolds, PTL

\* A stream that was told that it runs has an endpoint that runs.
THEOREM RunningStreamsPlay == Spec => []PlaysWhenRunning
<1>1. Inv => PlaysWhenRunning
  BY SMT DEF Inv, TypeOK, Lists, Says, Told, PlaysWhenRunning
<1>. QED BY <1>1, InvHolds, PTL
=============================================================================
