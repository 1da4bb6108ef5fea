------------------------- MODULE PolicyStateMonitor -------------------------
(***************************************************************************)
(* AudioPolicyStateMonitor: timers for the rest of the policy service.  A  *)
(* timer has an id, the lowest that is free; when its time is over the     *)
(* monitor's thread frees the id and leaves OnTimeOut to a thread of its   *)
(* own, which may run at any later moment.  Ids are not tied to owners: an *)
(* owner that unregisters an id late unregisters whoever has it by then.   *)
(*                                                                         *)
(* Each operator is one critical section of monitorMutex_.  All timers are *)
(* ONE_TIME.  Time itself is left out: any registered timer may end.       *)
(***************************************************************************)
EXTENDS Naturals, FiniteSets

CONSTANTS
    Owners,  \* who registers callbacks
    MaxCbId  \* MAX_CB_ID_NUM

ASSUME MonitorAssumption == MaxCbId \in Nat \ {0}

Ids == 0 .. MaxCbId - 1
Invalid == MaxCbId      \* INVALID_CB_ID
Nobody == "nobody"

ASSUME OwnersAssumption == Nobody \notin Owners

VARIABLES
    idAllocator,   \* idAllocator_, and for whom an id was allocated
    monitoredObj,  \* monitoredObj_: whose callback an id has
    stolen         \* has anyone unregistered an id allocated to another?

monitorVars == <<idAllocator, monitoredObj, stolen>>

MonitorInit ==
    /\ idAllocator = [i \in Ids |-> Nobody]
    /\ monitoredObj = [i \in Ids |-> Nobody]
    /\ stolen = FALSE

FreeIds == {i \in Ids : idAllocator[i] = Nobody}

LowestFree ==
    IF FreeIds = {} THEN Invalid
    ELSE CHOOSE i \in FreeIds : \A j \in FreeIds : i <= j

(* RegisterCallback: AllocateCbId ...                                       *)
AllocateCbId(o) ==
    /\ idAllocator' = IF LowestFree = Invalid THEN idAllocator
                      ELSE [idAllocator EXCEPT ![LowestFree] = o]
    /\ UNCHANGED <<monitoredObj, stolen>>

(* ... and the callback's entry.                                            *)
Enter(o, id) ==
    /\ monitoredObj' = [monitoredObj EXCEPT ![id] = o]
    /\ UNCHANGED <<idAllocator, stolen>>

(* Mutant of UnRegisterCallback: the id is not freed.                       *)
UnRegisterKeepsId(o, id) ==
    /\ monitoredObj' = [monitoredObj EXCEPT ![id] = Nobody]
    /\ UNCHANGED <<idAllocator, stolen>>

UnRegisterCallback(o, id) ==
    /\ monitoredObj' = [monitoredObj EXCEPT ![id] = Nobody]
    /\ idAllocator' = [idAllocator EXCEPT ![id] = Nobody]
    /\ stolen' = (stolen \/ idAllocator[id] \notin {o, Nobody})

(* TraverseAndInvokeTimeoutCallbacks meets a timer whose time is over.      *)
Expire(id) ==
    /\ monitoredObj[id] # Nobody
    /\ monitoredObj' = [monitoredObj EXCEPT ![id] = Nobody]
    /\ idAllocator' = [idAllocator EXCEPT ![id] = Nobody]
    /\ UNCHANGED stolen

MonitorTypeOK ==
    /\ idAllocator \in [Ids -> Owners \cup {Nobody}]
    /\ monitoredObj \in [Ids -> Owners \cup {Nobody}]
    /\ stolen \in BOOLEAN
=============================================================================
