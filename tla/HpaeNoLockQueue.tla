-------------------------- MODULE HpaeNoLockQueue --------------------------
(***************************************************************************)
(* The request queue of the audio engine: a fixed array of nodes, each on  *)
(* the list of free nodes, on the list of requests, or in the hands of one *)
(* thread.  Both lists are stacks of which only the head is shared, moved  *)
(* by compare and exchange.  A head is a node's index with a flag that the *)
(* node's every reuse increments, in the upper half of a 64-bit word.      *)
(*                                                                         *)
(* One step is one atomic access; a node's request is accessed, with the   *)
(* step before, by the thread that has the node alone (EveryNodeOnce says  *)
(* so).  A register is cleared when it is read no more.  Many threads     *)
(* push; one at a time handles.  Reset is called by tests only.            *)
(***************************************************************************)
EXTENDS Naturals, Sequences, FiniteSets

CONSTANTS
    Producers,  \* threads that call PushRequest
    Handler,    \* the thread that calls HandleRequests
    Size,       \* maxRequestCount
    Flags,      \* number of flags: 2^32 in the code
    MaxPush     \* bound: calls of PushRequest by each of them

ASSUME QueueAssumption ==
    /\ Handler \notin Producers /\ IsFiniteSet(Producers)
    /\ Size \in Nat \ {0} /\ MaxPush \in [Producers -> Nat]
    /\ Flags \in Nat /\ Flags > 1

Nodes == 0 .. Size - 1
None == Size                    \* INVALID_REQUEST_ID
Nothing == <<>>                 \* no request
Word == [flag : 0 .. Flags - 1, index : 0 .. Size]
Threads == Producers \cup {Handler}

VARIABLES
    freeHead,     \* freeRequestHeadIndex_
    requestHead,  \* requestHeadIndex_
    next,         \* nextRequestIndex of a node
    request,      \* request of a node
    temp,         \* tempRequestQueue_
    qpc,          \* where a thread is in its call
    seen,         \* the head it has loaded
    link,         \* the next word it has loaded
    own,          \* the word of the node it has
    pushed,       \* number of calls of PushRequest, per producer
    ran           \* number of the last request executed, per producer

lists == <<freeHead, requestHead, next, request, temp>>
regs == <<seen, link, own>>
counts == <<pushed, ran>>
queueVars == <<lists, regs, counts, qpc>>

NoWord == [flag |-> 0, index |-> None]

QueueInit ==
    /\ freeHead = [flag |-> 0, index |-> 0]
    /\ requestHead = NoWord
    /\ next = [i \in Nodes |-> [flag |-> 0, index |-> i + 1]]
    /\ request = [i \in Nodes |-> Nothing]
    /\ temp = <<>>
    /\ qpc = [t \in Threads |-> "idle"]
    /\ seen = [t \in Threads |-> NoWord]
    /\ link = seen /\ own = seen
    /\ pushed = [p \in Producers |-> 0]
    /\ ran = [p \in Producers |-> 0]

Goto(t, l) == qpc' = [qpc EXCEPT ![t] = l]
Put(r, t, v) == [r EXCEPT ![t] = v]

Clear(t) ==
    /\ seen' = Put(seen, t, NoWord) /\ link' = Put(link, t, NoWord)
    /\ own' = Put(own, t, NoWord)

-----------------------------------------------------------------------------
(* PushRequest: GetRequestNode on the free list, ...                        *)

Push(p) ==
    /\ qpc[p] = "idle" /\ pushed[p] < MaxPush[p]
    /\ pushed' = Put(pushed, p, pushed[p] + 1)
    /\ Goto(p, "get")
    /\ UNCHANGED <<lists, regs, ran>>

(* "reached Queue Capacity: drop this request".                             *)
Full(p) ==
    /\ qpc[p] = "get" /\ freeHead.index = None
    /\ Goto(p, "returned")
    /\ UNCHANGED <<lists, regs, counts>>

GetLoad(p) ==
    /\ qpc[p] = "get" /\ freeHead.index # None
    /\ seen' = Put(seen, p, freeHead)
    /\ Goto(p, "getnext")
    /\ UNCHANGED <<lists, link, own, counts>>

GetNext(p) ==
    /\ qpc[p] = "getnext"
    /\ link' = Put(link, p, next[seen[p].index])
    /\ Goto(p, "getcas")
    /\ UNCHANGED <<lists, seen, own, counts>>

(* Mutant of IncRequsetIndex: the flag stays.                               *)
SameFlag(w) == w

IncRequsetIndex(w) == [w EXCEPT !.flag = (@ + 1) % Flags]

GetCas(p) ==
    /\ qpc[p] = "getcas" /\ freeHead = seen[p]
    /\ freeHead' = link[p]
    /\ own' = Put(own, p, IncRequsetIndex(seen[p]))
    /\ request' = Put(request, seen[p].index, <<p, pushed[p]>>)
    /\ Goto(p, "putload")
    /\ seen' = Put(seen, p, NoWord) /\ link' = Put(link, p, NoWord)
    /\ UNCHANGED <<requestHead, next, temp, counts>>

GetAgain(p) ==
    /\ qpc[p] = "getcas" /\ freeHead # seen[p]
    /\ Goto(p, "get")
    /\ seen' = Put(seen, p, NoWord) /\ link' = Put(link, p, NoWord)
    /\ UNCHANGED <<lists, own, counts>>

(* ... and PushRequestNode on the list of requests.  HandleRequests calls   *)
(* it too, to give a node back to the free list.                            *)
Target(t) == IF t = Handler THEN freeHead ELSE requestHead

PutLoad(t) ==
    /\ qpc[t] = "putload"
    /\ seen' = Put(seen, t, Target(t))
    /\ Goto(t, "putlink")
    /\ UNCHANGED <<lists, link, own, counts>>

PutLink(t) ==
    /\ qpc[t] = "putlink"
    /\ next' = Put(next, own[t].index, seen[t])
    /\ Goto(t, "putcas")
    /\ UNCHANGED <<freeHead, requestHead, request, temp, regs, counts>>

PutAgain(t) ==
    /\ qpc[t] = "putcas" /\ Target(t) # seen[t]
    /\ Goto(t, "putload")
    /\ seen' = Put(seen, t, NoWord)
    /\ UNCHANGED <<lists, link, own, counts>>

PutRequest(p) ==
    /\ qpc[p] = "putcas" /\ requestHead = seen[p]
    /\ requestHead' = own[p]
    /\ Goto(p, "returned")
    /\ Clear(p)
    /\ UNCHANGED <<freeHead, next, request, temp, counts>>

Producer(p) ==
    \/ Full(p) \/ GetLoad(p) \/ GetNext(p) \/ GetCas(p) \/ GetAgain(p)
    \/ PutLoad(p) \/ PutLink(p) \/ PutAgain(p) \/ PutRequest(p)

-----------------------------------------------------------------------------
(* HandleRequests: all requests at once, ...                                *)

HandleLoad ==
    /\ qpc[Handler] = "handle"
    /\ seen' = Put(seen, Handler, requestHead)
    /\ Goto(Handler, "handlecas")
    /\ UNCHANGED <<lists, link, own, counts>>

(* Mutant of HandleCas: the head is emptied whatever it has become.         *)
HandleStore ==
    /\ qpc[Handler] = "handlecas"
    /\ requestHead' = [seen[Handler] EXCEPT !.index = None]
    /\ own' = Put(own, Handler, seen[Handler])
    /\ Goto(Handler, "walk")
    /\ seen' = Put(seen, Handler, NoWord)
    /\ UNCHANGED <<freeHead, next, request, temp, link, counts>>

HandleCas ==
    /\ qpc[Handler] = "handlecas" /\ requestHead = seen[Handler]
    /\ requestHead' = [seen[Handler] EXCEPT !.index = None]
    /\ own' = Put(own, Handler, seen[Handler])
    /\ Goto(Handler, "walk")
    /\ seen' = Put(seen, Handler, NoWord)
    /\ UNCHANGED <<freeHead, next, request, temp, link, counts>>

HandleAgain ==
    /\ qpc[Handler] = "handlecas" /\ requestHead # seen[Handler]
    /\ Goto(Handler, "handle")
    /\ seen' = Put(seen, Handler, NoWord)
    /\ UNCHANGED <<lists, link, own, counts>>

(* ... ProcessRequests: each is moved to temp, its node given back, ...     *)
Walk ==
    LET i == own[Handler].index
    IN  /\ qpc[Handler] = "walk" /\ i # None
        /\ link' = Put(link, Handler, next[i])
        /\ temp' = Append(temp, request[i])
        /\ request' = Put(request, i, Nothing)
        /\ Goto(Handler, "putload")
        /\ UNCHANGED <<freeHead, requestHead, next, seen, own, counts>>

GiveBack ==
    /\ qpc[Handler] = "putcas" /\ freeHead = seen[Handler]
    /\ freeHead' = own[Handler]
    /\ own' = Put(own, Handler, link[Handler])
    /\ Goto(Handler, "walk")
    /\ seen' = Put(seen, Handler, NoWord) /\ link' = Put(link, Handler, NoWord)
    /\ UNCHANGED <<requestHead, next, request, temp, counts>>

(* Mutant of Run: first taken, first executed.                              *)
RunForward ==
    /\ qpc[Handler] = "walk" /\ own[Handler].index = None /\ temp # <<>>
    /\ ran' = Put(ran, Head(temp)[1], Head(temp)[2])
    /\ temp' = Tail(temp)
    /\ UNCHANGED <<freeHead, requestHead, next, request, qpc, regs, pushed>>

(* ... and all are executed, the last taken first.                          *)
Run ==
    LET r == temp[Len(temp)]
    IN  /\ qpc[Handler] = "walk" /\ own[Handler].index = None /\ temp # <<>>
        /\ ran' = Put(ran, r[1], r[2])
        /\ temp' = SubSeq(temp, 1, Len(temp) - 1)
        /\ UNCHANGED <<freeHead, requestHead, next, request, qpc, regs, pushed>>

RunEnd ==
    /\ qpc[Handler] = "walk" /\ own[Handler].index = None /\ temp = <<>>
    /\ Goto(Handler, "handled")
    /\ Clear(Handler)
    /\ UNCHANGED <<lists, counts>>

Handling ==
    \/ HandleLoad \/ HandleCas \/ HandleAgain \/ Walk
    \/ PutLoad(Handler) \/ PutLink(Handler) \/ PutAgain(Handler) \/ GiveBack
    \/ Run \/ RunEnd

(* IsFinishProcess.                                                         *)
IsFinishProcess == requestHead.index = None

-----------------------------------------------------------------------------
(* The nodes on the list that begins at word w, first to last.              *)
Chain(w) ==
    LET at[k \in 0 .. Size] ==
          IF k = 0 THEN w.index
          ELSE LET i == at[k - 1] IN IF i = None THEN None ELSE next[i].index
    IN  [k \in 1 .. Cardinality({j \in 0 .. Size : at[j] # None}) |-> at[k - 1]]

NodesOf(s) == {s[k] : k \in 1 .. Len(s)}

GivingBack == qpc[Handler] \in {"putload", "putlink", "putcas"}

(* The requests the handler has still to move to temp.                      *)
Remaining ==
    IF qpc[Handler] = "walk" THEN Chain(own[Handler])
    ELSE IF GivingBack THEN Chain(link[Handler]) ELSE <<>>

(* The nodes in the hands of one thread.                                    *)
Holders ==
    {p \in Producers : qpc[p] \in {"putload", "putlink", "putcas"}}
      \cup {t \in {Handler} : GivingBack}

(* Every node is in exactly one place: free, requested, taken with the      *)
(* batch, or held by one thread.  None is lost and none is used twice.      *)
EveryNodeOnce ==
    LET free == Chain(freeHead)
        requested == Chain(requestHead)
    IN  /\ NodesOf(free) \cup NodesOf(requested) \cup NodesOf(Remaining)
             \cup {own[t].index : t \in Holders} = Nodes
        /\ Len(free) + Len(requested) + Len(Remaining) + Cardinality(Holders) = Size

QueueTypeOK ==
    /\ freeHead \in Word /\ requestHead \in Word
    /\ next \in [Nodes -> Word]
    /\ seen \in [Threads -> Word] /\ link \in [Threads -> Word]
    /\ own \in [Threads -> Word]
    /\ pushed \in [Producers -> Nat] /\ ran \in [Producers -> Nat]
    /\ request \in [Nodes -> (Producers \X Nat) \cup {Nothing}]
    /\ temp \in Seq(Producers \X Nat)

(* The queue as its callers see it.                                         *)
Backwards(s) == [k \in 1 .. Len(s) |-> s[Len(s) + 1 - k]]
Requests(s) == [k \in 1 .. Len(s) |-> request[s[k]]]

Waiting == Backwards(Requests(Chain(requestHead)))
Batch == Backwards(temp \o Requests(Remaining))

Queue == INSTANCE RequestQueue WITH waiting <- Waiting, batch <- Batch
=============================================================================
