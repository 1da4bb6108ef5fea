--------------------------- MODULE AudioEndpoint ---------------------------
(***************************************************************************)
(* The endpoint of low-latency streams: the one device several client      *)
(* processes play on, started and stopped as they come and go, and         *)
(* released some time after the last has left.  Its status is an atomic    *)
(* that seven functions load and store under four different locks, or      *)
(* none: listLock_ and startStatusLock_ of the endpoint, statusLock_ of    *)
(* one stream (so a stream has one call at a time, and the death of its    *)
(* client waits for none of them) and processListMutex_ of AudioService.   *)
(* A step of the model ends where another thread can change what the next  *)
(* line reads.                                                             *)
(*                                                                         *)
(* A stop counts as a pause: OnPause is what the endpoint sees of both.    *)
(* Left out: stopping the device while the volume is zero, a device that   *)
(* does not stop, the move of a playing stream to another endpoint.        *)
(***************************************************************************)
EXTENDS FiniteSets, Naturals

CONSTANTS
    Procs,    \* streams, each of a client process
    Loop,     \* the work thread of the endpoint
    DeviceFails, \* the device may refuse to start
    Onward    \* bound: clients go on calling after a race

ASSUME EndpointAssumption ==
    /\ Loop \notin Procs
    /\ DeviceFails \in BOOLEAN /\ Onward \in BOOLEAN

VARIABLES
    status,    \* endpointStatus_; "invalid" is the endpoint that is not there
    started,   \* isStarted_
    armed,     \* delayStopTime_ is not INT64_MAX
    list,      \* processList_
    paired,    \* linkedPairedList_
    releasing, \* the endpoint's name is in releasingEndpointSet_
    stream,    \* the status word a stream shares with its client
    pc,        \* where the server is in the call of a stream
    svc,       \* what is done under processListMutex_, and for which stream
    updater,   \* the thread of AsyncGetPosTime
    marked,    \* the stream the work thread is putting on stand-by, or Loop
    hit        \* history: which of the five known races, or a failure, has happened

vars == <<status, started, armed, list, paired, releasing, stream, pc, svc, updater, marked, hit>>
epVars == <<status, started, armed, list>>
svcVars == <<paired, releasing, svc>>
threads == <<updater, marked>>

\* A scan's result is stored late; a device is stopped late; a stream is linked without
\* being listed; a client dies in a call; a pause meets the stand-by; a device fails.
Races == {"scan", "stop", "link", "death", "standby", "fail"}
Free == [at |-> "free", who |-> Loop]

Init ==
    /\ status = "invalid" /\ started = FALSE /\ armed = FALSE
    /\ list = {} /\ paired = {} /\ releasing = FALSE
    /\ stream = [p \in Procs |-> "none"]
    /\ pc = [a \in Procs \cup {Loop} |-> "idle"]
    /\ svc = Free /\ updater = "idle" /\ marked = Loop /\ hit = {}

\* Who holds the two locks of the endpoint.
StartLocked == updater # "idle" \/ \E p \in Procs : pc[p] \in {"device", "starting"}
ListLocked ==
    svc.at \in {"starting", "stop"} \/ marked # Loop \/ \E p \in Procs : pc[p] = "starting"

\* Release waits for the endpoint's two threads to end; a call under way when its client
\* dies has ended by then (bound: the release comes after seconds).
Joined == updater = "idle" /\ marked = Loop /\ \A a \in DOMAIN pc : pc[a] = "idle"

\* The client of p, neither dead nor releasing its stream, may call.
Ready(p) == p \in paired /\ svc.who # p /\ pc[p] = "idle"

AnyRunning(S) == \E p \in S : stream[p] = "running"
\* The endpoint has told p that it runs.
Told(p) == stream[p] = "running" \/ pc[p] = "back"
Goto(a, l) == pc' = [pc EXCEPT ![a] = l]
Hits(r, cond) == hit' = IF cond THEN hit \cup {r} ELSE hit
-----------------------------------------------------------------------------
(* A client starts or resumes its stream, or ends its stand-by. *)
Start(p) ==
    /\ Ready(p) /\ stream[p] \in {"new", "paused", "standby"}
    /\ stream' = [stream EXCEPT ![p] = IF @ = "standby" THEN @ ELSE "starting"]
    /\ Goto(p, IF stream[p] = "paused" THEN "resume" ELSE "ask")
    /\ UNCHANGED <<epVars, svcVars, threads, hit>>

\* The server refuses to resume a stream that was put on stand-by meanwhile.
ResumeRefused(p) ==
    /\ pc[p] = "resume" /\ stream[p] = "standby"
    /\ stream' = [stream EXCEPT ![p] = "paused"]
    /\ Goto(p, "idle")
    /\ UNCHANGED <<epVars, svcVars, threads, hit>>

OnStart(p) ==
    /\ pc[p] = "ask" \/ (pc[p] = "resume" /\ stream[p] # "standby")
    /\ Goto(p, CASE status = "running" -> "back"
                 [] status = "idel" -> "lock"
                 [] OTHER -> "set")
    /\ UNCHANGED <<epVars, svcVars, stream, threads, hit>>

\* Under startStatusLock_, which StartDevice keeps.
AskStarted(p) ==
    /\ pc[p] = "lock" /\ ~StartLocked
    /\ Goto(p, IF started THEN "set" ELSE "device")
    /\ UNCHANGED <<epVars, svcVars, stream, threads, hit>>

\* StartDevice takes listLock_; that it fails OnStart reports and StartInner ignores.
StartDevice(p) ==
    /\ pc[p] = "device" /\ ~ListLocked
    /\ IF status = "idel"
         THEN status' = "starting" /\ Goto(p, "starting")
         ELSE UNCHANGED status /\ Goto(p, "back")
    /\ UNCHANGED <<started, armed, list, svcVars, stream, threads, hit>>

\* Mutant: the state OnStart prefers is forgotten.
DeviceStartsIdel(p) ==
    /\ pc[p] = "starting"
    /\ status' = (IF AnyRunning(list) THEN "running" ELSE "idel")
    /\ started' = TRUE /\ armed' = FALSE
    /\ Goto(p, "back")
    /\ UNCHANGED <<list, svcVars, stream, threads, hit>>

DeviceStarts(p) ==
    /\ pc[p] = "starting"
    /\ status' = "running" /\ started' = TRUE /\ armed' = FALSE
    /\ Goto(p, "back")
    /\ UNCHANGED <<list, svcVars, stream, threads, hit>>

HandleStartDeviceFailed ==
    /\ DeviceFails
    /\ status' = IF Cardinality(list) <= 1 THEN "unlinked" ELSE "idel"
    /\ started' = FALSE
    /\ hit' = hit \cup {"fail"}
    /\ UNCHANGED <<armed, list>>

DeviceRefuses(p) ==
    /\ pc[p] = "starting"
    /\ HandleStartDeviceFailed
    /\ Goto(p, "back")
    /\ UNCHANGED <<svcVars, stream, threads>>

SetRunning(p) ==
    /\ pc[p] = "set"
    /\ status' = "running" /\ armed' = FALSE
    /\ Goto(p, "back")
    /\ UNCHANGED <<started, list, svcVars, stream, threads, hit>>

\* The server's answer reaches the client, if it still lives.
StartReturns(p) ==
    /\ pc[p] = "back"
    /\ stream' = [stream EXCEPT ![p] = IF p \in paired THEN "running" ELSE @]
    /\ Goto(p, "idle")
    /\ UNCHANGED <<epVars, svcVars, threads, hit>>
-----------------------------------------------------------------------------
(* A client pauses or stops its stream; or stops one that is paused, at "stop". *)
Pause(p) ==
    /\ Ready(p) /\ stream[p] \in {"running", "standby", "paused"}
    /\ stream' = [stream EXCEPT ![p] = "pausing"]
    /\ Goto(p, IF stream[p] = "paused" THEN "stop" ELSE "halt")
    /\ UNCHANGED <<epVars, svcVars, threads, hit>>

\* The server refuses to pause a stream that was put on stand-by meanwhile; the client
\* takes its status back, and the endpoint is not told.
PauseRefused(p) ==
    /\ pc[p] \in {"halt", "stop"} /\ stream[p] = "standby"
    /\ stream' = [stream EXCEPT ![p] = IF pc[p] = "stop" THEN "paused" ELSE "running"]
    /\ Hits("standby", pc[p] = "halt")
    /\ Goto(p, "idle")
    /\ UNCHANGED <<epVars, svcVars, threads>>

\* The work thread finds a stream its client has not written to for long, and keeps
\* listLock_.
Stale(p) == p \in list /\ stream[p] = "running"
CheckAllBufferReady(p) ==
    /\ status \in {"running", "idel"} /\ pc[Loop] = "idle" /\ ~ListLocked
    /\ Stale(p)
    /\ marked' = p
    /\ UNCHANGED <<epVars, svcVars, stream, pc, updater, hit>>

\* Whatever its client has made of it since, it is on stand-by now.  Another one is
\* found, or listLock_ given back.
EnableStandby ==
    /\ marked # Loop
    /\ stream' = [stream EXCEPT ![marked] = "standby"]
    /\ \/ \E p \in Procs \ {marked} : Stale(p) /\ marked' = p /\ UNCHANGED pc
       \/ marked' = Loop /\ Goto(Loop, "halt")
    /\ UNCHANGED <<epVars, svcVars, updater, hit>>

\* OnPause of a stream and CheckStandBy of the work thread: load, scan under
\* listLock_, store, load again.
OnPause(a) ==
    /\ pc[a] \in {"halt", "stop"} /\ (a # Loop => stream[a] # "standby")
    /\ IF status = "running"
         THEN ~ListLocked /\ Goto(a, IF AnyRunning(list) THEN "storeRunning" ELSE "storeIdel")
         ELSE Goto(a, "arm")
    /\ UNCHANGED <<epVars, svcVars, stream, threads, hit>>

StoreScan(a) ==
    /\ pc[a] \in {"storeRunning", "storeIdel"}
    /\ status' = IF pc[a] = "storeIdel" THEN "idel" ELSE "running"
    /\ Hits("scan", \/ status \notin {"running", status'}
                    \/ pc[a] = "storeIdel" /\ \E p \in list : Told(p))
    /\ Goto(a, "arm")
    /\ UNCHANGED <<started, armed, list, svcVars, stream, threads>>

\* Mutant: the last pause leaves the stop time at INT64_MAX.
ArmNothing(a) ==
    /\ pc[a] = "arm"
    /\ Goto(a, IF a = Loop THEN "idle" ELSE "halted")
    /\ UNCHANGED <<epVars, svcVars, stream, threads, hit>>

ArmDelayedStop(a) ==
    /\ pc[a] = "arm"
    /\ armed' = (armed \/ status = "idel")
    /\ Goto(a, IF a = Loop THEN "idle" ELSE "halted")
    /\ UNCHANGED <<status, started, list, svcVars, stream, threads, hit>>

PauseReturns(p) ==
    /\ pc[p] = "halted"
    /\ stream' = [stream EXCEPT ![p] = IF p \in paired THEN "paused" ELSE @]
    /\ Goto(p, "idle")
    /\ UNCHANGED <<epVars, svcVars, threads, hit>>
-----------------------------------------------------------------------------
(* GetAudioProcess: a new stream is linked to the endpoint, which is made if it is *)
(* not there.                                                                      *)
At(p, l) == svc = [at |-> l, who |-> p]
Svc(p, l) == svc' = [at |-> l, who |-> p]

GetAudioProcess(p) ==
    /\ svc = Free /\ stream[p] = "none" /\ pc[p] = "idle"
    /\ IF status = "invalid"
         THEN status' = "unlinked" /\ started' = FALSE /\ armed' = FALSE
         ELSE UNCHANGED <<status, started, armed>>
    /\ Svc(p, "wait")
    /\ UNCHANGED <<list, paired, releasing, stream, pc, threads, hit>>

\* The wait for a device that starts ends with the start or 1.5 s later.
LinkProcessStream(p) ==
    /\ At(p, "wait")
    /\ Svc(p, IF status = "running" THEN "add" ELSE "unlinked?")
    /\ UNCHANGED <<epVars, paired, releasing, stream, pc, threads, hit>>

LinkUnlinked(p) ==
    /\ At(p, "unlinked?")
    /\ IF status = "unlinked"
         THEN status' = "idel" /\ armed' = FALSE /\ Svc(p, "device")
         ELSE Svc(p, "idel?") /\ UNCHANGED <<status, armed>>
    /\ UNCHANGED <<started, list, paired, releasing, stream, pc, threads, hit>>

\* StartDevice without startStatusLock_.
LinkStartDevice(p) ==
    /\ At(p, "device") /\ ~ListLocked
    /\ IF status = "idel"
         THEN status' = "starting" /\ Svc(p, "starting")
         ELSE UNCHANGED status /\ Svc(p, "failed")
    /\ UNCHANGED <<started, armed, list, paired, releasing, stream, pc, threads, hit>>

LinkDeviceStarts(p) ==
    /\ At(p, "starting")
    /\ status' = (IF AnyRunning(list) THEN "running" ELSE "idel")
    /\ started' = TRUE /\ armed' = TRUE
    /\ Svc(p, "idel?")
    /\ UNCHANGED <<list, paired, releasing, stream, pc, threads, hit>>

LinkDeviceRefuses(p) ==
    /\ At(p, "starting")
    /\ HandleStartDeviceFailed
    /\ Svc(p, "failed")
    /\ UNCHANGED <<paired, releasing, stream, pc, threads>>

\* LinkProcessToEndpoint forgets an endpoint nobody is linked to, whose destructor
\* releases it.
LinkFails(p) ==
    /\ At(p, "failed") /\ ~ListLocked
    /\ IF list = {}
         THEN Joined /\ status' = "invalid" /\ started' = FALSE
         ELSE UNCHANGED <<status, started>>
    /\ svc' = Free
    /\ UNCHANGED <<armed, list, paired, releasing, stream, pc, threads, hit>>

\* The status is read a third time: neither running, unlinked nor idel, and the stream
\* is linked without being put on the list.
LinkIdel(p) ==
    /\ At(p, "idel?")
    /\ Svc(p, IF status = "idel" THEN "add" ELSE "linked")
    /\ Hits("link", status # "idel")
    /\ UNCHANGED <<epVars, paired, releasing, stream, pc, threads>>

AddProcessStreamToList(p) ==
    /\ At(p, "add") /\ ~ListLocked
    /\ list' = list \cup {p}
    /\ Svc(p, "linked")
    /\ UNCHANGED <<status, started, armed, paired, releasing, stream, pc, threads, hit>>

Linked(p) ==
    /\ At(p, "linked")
    /\ releasing' = FALSE
    /\ paired' = paired \cup {p}
    /\ stream' = [stream EXCEPT ![p] = "new"]
    /\ svc' = Free
    /\ UNCHANGED <<epVars, pc, threads, hit>>
-----------------------------------------------------------------------------
(* OnProcessRelease: the client releases its stream, or dies whatever its stream does. *)
OnProcessRelease(p) ==
    /\ svc = Free /\ p \in paired
    /\ Svc(p, "unlink")
    /\ Hits("death", pc[p] # "idle")
    /\ UNCHANGED <<epVars, paired, releasing, stream, pc, threads>>

\* Mutant: the last but one to leave stops the device.
UnlinkLastButOne(p) ==
    /\ At(p, "unlink") /\ ~ListLocked
    /\ list' = list \ {p}
    /\ IF Cardinality(list') <= 1
         THEN Svc(p, "stop") /\ UNCHANGED <<status, armed, hit>>
         ELSE /\ Svc(p, "unlinked")
              /\ IF AnyRunning(list')
                   THEN UNCHANGED <<status, armed, hit>>
                   ELSE /\ status' = "idel" /\ armed' = TRUE
                        /\ Hits("scan", \E q \in list' : Told(q))
    /\ UNCHANGED <<started, paired, releasing, stream, pc, threads>>

\* Mutant: the device is stopped at once, not later, when nobody who is left plays.
UnlinkStopsAtOnce(p) ==
    /\ At(p, "unlink") /\ ~ListLocked
    /\ list' = list \ {p}
    /\ Svc(p, IF AnyRunning(list') THEN "unlinked" ELSE "stop")
    /\ UNCHANGED <<status, armed, hit>>
    /\ UNCHANGED <<started, paired, releasing, stream, pc, threads>>

UnlinkProcessStream(p) ==
    /\ At(p, "unlink") /\ ~ListLocked
    /\ list' = list \ {p}
    /\ IF list' = {}
         THEN Svc(p, "stop") /\ UNCHANGED <<status, armed, hit>>
         ELSE /\ Svc(p, "unlinked")
              /\ IF AnyRunning(list')
                   THEN UNCHANGED <<status, armed, hit>>
                   ELSE /\ status' = "idel" /\ armed' = TRUE
                        /\ Hits("scan", \E q \in list' : Told(q))
    /\ UNCHANGED <<started, paired, releasing, stream, pc, threads>>

\* StopDevice under startStatusLock_, and under listLock_ still.
StopDevice(p) ==
    /\ At(p, "stop") /\ ~StartLocked
    /\ status' = "unlinked" /\ started' = FALSE
    /\ Svc(p, "unlinked")
    /\ UNCHANGED <<armed, list, paired, releasing, stream, pc, threads, hit>>

\* Mutant: the release is left to whoever comes next.
UnlinkedUnreleased(p) ==
    /\ At(p, "unlinked")
    /\ paired' = paired \ {p}
    /\ stream' = [stream EXCEPT ![p] = "none"]
    /\ svc' = Free
    /\ UNCHANGED <<epVars, releasing, pc, threads, hit>>

Unlinked(p) ==
    /\ At(p, "unlinked")
    /\ releasing' = (releasing \/ status = "unlinked")
    /\ paired' = paired \ {p}
    /\ stream' = [stream EXCEPT ![p] = "none"]
    /\ svc' = Free
    /\ UNCHANGED <<epVars, pc, threads, hit>>

\* The release thread, seconds later.
DelayCallReleaseEndpoint ==
    /\ svc = Free /\ releasing
    /\ releasing' = FALSE
    /\ IF status = "unlinked"
         THEN Joined /\ status' = "invalid" /\ started' = FALSE
         ELSE UNCHANGED <<status, started>>
    /\ UNCHANGED <<armed, list, paired, stream, pc, svc, threads, hit>>
-----------------------------------------------------------------------------
(* AsyncGetPosTime: a device idle for too long is stopped. *)
IdelTooLong ==
    /\ updater = "idle" /\ ~StartLocked
    /\ status = "idel" /\ started /\ armed
    /\ updater' = "stopping"
    /\ UNCHANGED <<epVars, svcVars, stream, pc, marked, hit>>

\* DelayStopDevice looks at the status once more, then stops the device.
DelayStopDevice ==
    /\ updater = "stopping"
    /\ updater' = IF status = "idel" THEN "stop" ELSE "idle"
    /\ UNCHANGED <<epVars, svcVars, stream, pc, marked, hit>>

DelayStopped ==
    /\ updater = "stop"
    /\ started' = FALSE /\ updater' = "idle"
    /\ Hits("stop", status # "idel" \/ \E p \in Procs : pc[p] = "set")
    /\ UNCHANGED <<status, armed, list, svcVars, stream, pc, marked>>
-----------------------------------------------------------------------------
Server(p) ==
    \/ OnStart(p) \/ AskStarted(p) \/ StartDevice(p) \/ DeviceStarts(p) \/ DeviceRefuses(p)
    \/ SetRunning(p) \/ StartReturns(p) \/ PauseReturns(p) \/ ResumeRefused(p) \/ PauseRefused(p)

Scan(a) == OnPause(a) \/ StoreScan(a) \/ ArmDelayedStop(a) \/ (a = Loop /\ EnableStandby)

Service(p) ==
    \/ LinkProcessStream(p) \/ LinkUnlinked(p) \/ LinkStartDevice(p) \/ LinkDeviceStarts(p)
    \/ LinkDeviceRefuses(p) \/ LinkFails(p) \/ LinkIdel(p) \/ AddProcessStreamToList(p)
    \/ Linked(p) \/ UnlinkProcessStream(p) \/ StopDevice(p) \/ Unlinked(p)

Updater == IdelTooLong \/ DelayStopDevice \/ DelayStopped

Client(p) == GetAudioProcess(p) \/ Start(p) \/ Pause(p) \/ OnProcessRelease(p)

Next ==
    \/ \E p \in Procs : \/ (hit = {} \/ Onward) /\ (Client(p) \/ CheckAllBufferReady(p))
                       \/ Server(p) \/ Service(p)
    \/ \E a \in Procs \cup {Loop} : Scan(a)
    \/ Updater \/ DelayCallReleaseEndpoint

\* The server's threads run and its timers end; no client need ever call.
Fairness ==
    /\ \A p \in Procs : WF_vars(Server(p)) /\ WF_vars(Service(p))
    /\ \A a \in Procs \cup {Loop} : WF_vars(Scan(a))
    /\ WF_vars(Updater) /\ WF_vars(DelayCallReleaseEndpoint)

Spec == Init /\ [][Next]_vars /\ Fairness
-----------------------------------------------------------------------------
\* Of the statuses of audio_endpoint.h:68-76, those another thread can read.
Statuses == {"invalid", "unlinked", "idel", "starting", "running"}
\* Every variable has its type.
TypeOK ==
    /\ status \in Statuses /\ started \in BOOLEAN /\ armed \in BOOLEAN
    /\ list \subseteq Procs /\ paired \subseteq Procs /\ releasing \in BOOLEAN
    /\ stream \in [Procs -> {"none", "new", "starting", "running", "standby", "pausing", "paused"}]
    /\ pc \in [Procs \cup {Loop} -> {"idle", "ask", "resume", "lock", "device", "starting",
                                     "set", "back", "halt", "stop", "storeRunning",
                                     "storeIdel", "arm", "halted"}]
    /\ svc \in [at : {"free", "wait", "unlinked?", "device", "starting", "failed", "idel?", "add",
                    "linked", "unlink", "stop", "unlinked"}, who : Procs \cup {Loop}]
    /\ updater \in {"idle", "stopping", "stop"} /\ marked \in Procs \cup {Loop}
    /\ hit \subseteq Races

\* A stream whose client was told that it runs is on the list, the endpoint is running
\* and so is its device, or another start is starting it: OnStart, OnPause, CheckStandBy,
\* UnlinkProcessStream and AsyncGetPosTime agree on the status although no lock covers
\* it, whatever their order, but for the races of `hit' and a device that fails.
PlaysWhenRunning ==
    hit = {} => \A p \in paired : stream[p] = "running" /\ svc.who # p =>
                    /\ p \in list /\ status = "running"
                    /\ started \/ \E r \in Procs : pc[r] = "starting"

\* The release that UnlinkProcessStream put off never takes the endpoint from a stream
\* that was linked in the meantime (DelayCallReleaseEndpoint, LinkProcessToEndpoint);
\* it could after a link race or a failed start only.
NothingInUseReleased ==
    hit \cap {"link", "fail"} = {} => (paired # {} => status # "invalid")

\* UnlinkProcessStream asks for startStatusLock_ with listLock_ held, OnStart for
\* listLock_ with startStatusLock_ held: both at once, and neither returns.  A stream
\* that is starting is on the list, so the last one cannot leave meanwhile; unless it
\* was never put there, or its client died.
LocksInOneOrder ==
    hit \cap {"link", "death"} = {} => ~(svc.at = "stop" /\ \E p \in Procs : pc[p] = "device")

Silent == \A p \in Procs : stream[p] \notin {"starting", "running"}

\* When no stream plays any more, all paused or on stand-by, the device is stopped in
\* the end (OnPause, CheckStandBy, UnlinkProcessStream arm what AsyncGetPosTime does).
DeviceRests == <>[]Silent => []<>(~started \/ hit # {})

\* An endpoint that stays unused is released in the end (ReleaseProcess).
UnusedIsReleased == <>[](paired = {} /\ svc = Free) => []<>(status = "invalid" \/ hit # {})

\* "IDEL, // no running process", audio_endpoint.h:71.  OnPause stores what a scan found
\* before another stream was told that it runs.
IdelHasNoneRunning == status = "idel" => \A p \in list : stream[p] # "running"
=============================================================================
